------------------------ MODULE QemuScheduler_proofs ------------------------
(***************************************************************************)
(* Machine-checked proofs about QemuScheduler.  That a claim ends in one   *)
(* way only rests on the worker's journal: a handler that waits for native *)
(* Git has read the row before and writes it afterwards, and nothing in    *)
(* the store fences it.  The inductive invariant says what the journals,   *)
(* the rows, the attempts at native Git and the calls in flight know of    *)
(* each other, for any number of events, capacities, claims and faults.    *)
(***************************************************************************)
EXTENDS QemuScheduler, SequenceTheorems, WellFoundedInduction, TLAPS

-----------------------------------------------------------------------------
(* The inductive invariant.                                                *)

QEventStates == {"absent", "queued", "reserved", "active", "completed", "superseded"}
QDbRows == [event : [QEvents -> QEventStates], order : Seq(QEvents),
            claim : [QClaims -> QClaimRow], outbox : Seq(QClaims), delivered : SUBSET QClaims]
QCallRows == [lane : QLanes, request : QRequests, claim : QClaims, event : QEvents,
              stage : {"issuing", "issued", "rejected"}, awaited : BOOLEAN]
QRecoverRows == [lane : QLanes, claim : QClaims, stage : {"revoking", "revoked"}, awaited : BOOLEAN]
QStages == {"down", "idle", "claiming", "refused", "assigned", "prepare", "running", "ran",
            "report", "recover", "recovering", "settled"}

QTyped ==
  /\ qDb \in QDbRows
  /\ qCalls \subseteq QCallRows /\ qRecovers \subseteq QRecoverRows
  /\ qReport \in [claim : QClaims \cup {QNone}, stage : {"idle", "sent", "accepted", "refused"}]
  /\ qAttempts \in [QClaims -> [state : {"none", "current", "revoked"}, event : QEvents \cup {QNone}]]
  /\ qStatuses \subseteq QClaims
  /\ qWorker \in [QLanes -> QStages]
  /\ qJournal \in [QLanes -> QJournals]
  /\ qHeld \in [QLanes -> QClaims \cup {QNone}]
  /\ qVms \subseteq QClaims

\* Nobody is about to revoke the attempt of c.
QUncontested(c) == \A k \in qRecovers : k.claim # c

\* Only a journal that asks for claim r, or one that names claim c.
QAsks(l, r) == qJournal[l].kind = "claim" /\ qJournal[l].request = r
QNames(l, kinds, c) == qJournal[l].kind \in kinds /\ qJournal[l].claim = c

\* The states of a row.
QShape(r) ==
  /\ r.state # "free" => r.event \in QEvents /\ r.lane \in QLanes /\ r.request \in QRequests
  /\ r.state \in {"free", "reserved"} => ~r.result
  /\ r.state = "reserved" => ~r.attempt
  /\ r.state \in {"active", "completed"} => r.attempt

\* What a result, and the end of a claim without one, say of the attempt.
QEnds(c) ==
  /\ qDb.claim[c].result => qAttempts[c].state = "current" /\ QUncontested(c)
  /\ qDb.claim[c].result /\ qDb.claim[c].state = "completed" => c \in qDb.delivered /\ c \in qStatuses
  /\ ~qDb.claim[c].result /\ qDb.claim[c].state = "completed" => qAttempts[c].state = "revoked"
  /\ c \in qStatuses => qDb.claim[c].result

QLanesFenced ==
  \A c, d \in QRows(qDb, {"reserved", "active"}) : qDb.claim[c].lane = qDb.claim[d].lane => c = d

\* A claim without a result is known to the journal of its capacity.
QOwned(c) ==
  LET r == qDb.claim[c]
  IN /\ r.state = "reserved" => QAsks(r.lane, r.request)
     /\ r.state = "active" /\ ~r.result =>
          QAsks(r.lane, r.request) \/ QNames(r.lane, {"active", "result"}, c)

\* Nobody asks for a claim again whose assignment was journaled.
QJournaled(c) ==
  \/ qDb.claim[c].result \/ qDb.claim[c].state = "completed" \/ ~QUncontested(c)
  \/ \E l \in QLanes : QNames(l, {"active", "result"}, c)
QAssignedOnce(c) == QJournaled(c) => \A l \in QLanes : ~QAsks(l, qDb.claim[c].request)

QJournalSound(l) ==
  LET j == qJournal[l]
  IN /\ j.kind = "claim" =>
          j.request \in QRequests /\ \A m \in QLanes : QAsks(m, j.request) => m = l
     /\ j.kind \in {"active", "result"} =>
          j.claim \in QClaims /\ qDb.claim[j.claim].state \in {"active", "completed"}
                              /\ qDb.claim[j.claim].lane = l
     /\ j.kind = "result" => qAttempts[j.claim].state = "current" /\ QUncontested(j.claim)

\* A claim handler's reservation is the one its request asked for.
QCallSound(k) ==
  LET r == qDb.claim[k.claim]
  IN /\ r.state # "free" => r.lane = k.lane /\ r.request = k.request
     /\ k.awaited => qWorker[k.lane] = "claiming" /\ QAsks(k.lane, k.request)

QRecoverSound(k) ==
  LET r == qDb.claim[k.claim]
  IN /\ r.state \in {"active", "completed"} /\ ~r.result /\ r.lane = k.lane
     /\ k.stage = "revoked" => qAttempts[k.claim].state = "revoked"
     /\ k.awaited => qWorker[k.lane] = "recovering" /\ qHeld[k.lane] = k.claim

QHandlersSound ==
  /\ \A k \in qCalls : QCallSound(k)
  /\ \A k \in qRecovers : QRecoverSound(k)
  /\ \A k, m \in qCalls : k.awaited /\ m.awaited /\ k.lane = m.lane => k = m
  /\ \A k, m \in qRecovers : k.awaited /\ m.awaited /\ k.lane = m.lane => k = m

\* What a worker holds is in its journal, from the assignment to the settlement.
QRunnable(l) ==
  LET r == qDb.claim[qHeld[l]]
  IN qHeld[l] \in QClaims /\ r.state = "active" /\ ~r.result /\ r.lane = l

QWorkerSound(l) ==
  LET w == qWorker[l]
      c == qHeld[l]
  IN /\ w \in {"claiming", "refused", "assigned"} => qJournal[l].kind = "claim"
     /\ w = "refused" => \A d \in QRows(qDb, {"reserved", "active"}) : qDb.claim[d].request # qJournal[l].request
     /\ w = "assigned" => QRunnable(l) /\ qDb.claim[c].request = qJournal[l].request
     /\ w \in {"prepare", "running", "ran"} => QRunnable(l) /\ QNames(l, {"active"}, c) /\ QUncontested(c)
     /\ w \in {"running", "ran"} => qAttempts[c].state = "current"
     /\ w = "report" => QNames(l, {"result"}, c)
     /\ w \in {"recover", "recovering"} => QNames(l, {"active"}, c)
     /\ w = "settled" => QNames(l, {"active", "result"}, c)
                         /\ (qDb.claim[c].result \/ qDb.claim[c].state = "completed")

\* A machine is of the claim its worker runs, or that a worker which died left in
\* the journal.
QVmSound(c) ==
  LET r == qDb.claim[c]
  IN /\ r.state = "active" /\ ~r.result /\ qAttempts[c].state = "current" /\ QUncontested(c)
     /\ \/ qWorker[r.lane] = "running" /\ qHeld[r.lane] = c
        \/ qWorker[r.lane] \in {"down", "idle"} /\ QNames(r.lane, {"active"}, c)

QReportsSound ==
  /\ \A i \in 1..Len(qDb.outbox) : qDb.claim[qDb.outbox[i]].result
  /\ qReport.stage # "idle" => qReport.claim \in QClaims /\ qDb.claim[qReport.claim].result
  /\ qReport.stage = "accepted" => qReport.claim \in qStatuses

QClaimSound(c) == QShape(qDb.claim[c]) /\ QEnds(c) /\ QOwned(c) /\ QAssignedOnce(c)

QemuInv ==
  /\ QTyped
  /\ \A c \in QClaims : QClaimSound(c)
  /\ QLanesFenced
  /\ \A l \in QLanes : QJournalSound(l) /\ QWorkerSound(l)
  /\ QHandlersSound
  /\ \A c \in qVms : QVmSound(c)
  /\ QReportsSound

USE DEF qVars, schedulerVars, authorityVars, hostVars

-----------------------------------------------------------------------------
(* Numbers.                                                                *)

Less == {ss \in Nat \X Nat : ss[1] < ss[2]}

LEMMA LessWellFounded == IsWellFoundedOn(Less, Nat)
BY NatLessThanWellFounded, Zenon DEF OpToRel, Less

\* A bounded choice of the least number has one.
LEMMA LeastExists ==
  ASSUME NEW S \in SUBSET Nat, S # {}
  PROVE  \E x \in S : \A y \in S : x =< y
<1>2. PICK x \in S : \A y \in S : ~(<<y, x>> \in Less)
  BY WFMin, LessWellFounded, Zenon
<1>3. ASSUME NEW y \in S PROVE x =< y
  <2>1. x \in Nat /\ y \in Nat
    OBVIOUS
  <2>2. ~(y < x)
    BY <2>1, <1>2 DEF Less
  <2> QED
    BY <2>1, <2>2
<1> QED
  BY <1>3

-----------------------------------------------------------------------------
(* Steps that touch no claim, and a host that ends.                        *)

\* A row as it was, but for its lease.
QSame(c) ==
  LET r == qDb.claim[c]
      n == qDb'.claim[c]
  IN /\ n.state = r.state /\ n.event = r.event /\ n.lane = r.lane
     /\ n.request = r.request /\ n.attempt = r.attempt /\ n.result = r.result

LEMMA RowTyped ==
  ASSUME QTyped, NEW c \in QClaims
  PROVE  /\ qDb.claim[c] \in QClaimRow
         /\ qDb.claim[c].state \in {"free", "reserved", "active", "completed"}
         /\ qDb.claim[c].result \in BOOLEAN /\ qDb.claim[c].lease \in BOOLEAN
BY DEF QTyped, QDbRows, QClaimRow

\* What the scheduler and native Git do without touching a claim: its bookkeeping
\* of events, a lease that runs out, the reporter's call.
LEMMA BooksKeep ==
  ASSUME QemuInv, QTyped', \A c \in QClaims : QSame(c),
         qDb'.outbox = qDb.outbox, qDb'.delivered = qDb.delivered,
         qStatuses \subseteq qStatuses', \A c \in qStatuses' : qDb.claim[c].result,
         UNCHANGED <<qCalls, qRecovers, qAttempts, hostVars>>,
         qReport'.stage # "idle" => qReport'.claim \in QClaims /\ qDb.claim[qReport'.claim].result,
         qReport'.stage = "accepted" => qReport'.claim \in qStatuses'
  PROVE  QemuInv'
<1>1. \A c \in QClaims : QClaimSound(c)'
  <2> TAKE c \in QClaims
  <2>1. QClaimSound(c) /\ QSame(c)
    BY DEF QemuInv
  <2>2. QShape(qDb.claim[c])' /\ QOwned(c)' /\ QAssignedOnce(c)'
    BY <2>1 DEF QClaimSound, QShape, QSame, QOwned, QAssignedOnce, QJournaled, QAsks, QNames, QUncontested
  <2>3. QEnds(c)'
    BY <2>1 DEF QClaimSound, QSame, QEnds, QUncontested, QTyped
  <2> QED
    BY <2>2, <2>3 DEF QClaimSound
<1>2. QLanesFenced'
  BY DEF QemuInv, QLanesFenced, QRows, QSame
<1>3. \A l \in QLanes : QJournalSound(l)'
  BY DEF QemuInv, QJournalSound, QAsks, QSame, QUncontested
<1>4. \A l \in QLanes : QWorkerSound(l)'
  <2> TAKE l \in QLanes
  <2>1. QWorkerSound(l) /\ QJournalSound(l)
    BY DEF QemuInv
  <2>2. QRunnable(l) => QRunnable(l)'
    BY DEF QRunnable, QSame
  <2>4. qWorker[l] = "settled" => qHeld[l] \in QClaims
    BY <2>1 DEF QWorkerSound, QJournalSound, QNames
  <2>5. qWorker[l] = "assigned" => qHeld[l] \in QClaims
    BY <2>1 DEF QWorkerSound, QRunnable
  <2> QED
    BY <2>1, <2>2, <2>4, <2>5 DEF QWorkerSound, QRows, QSame, QUncontested, QNames
<1>5. QHandlersSound'
  BY DEF QemuInv, QHandlersSound, QCallSound, QRecoverSound, QAsks, QSame, QTyped, QCallRows, QRecoverRows
<1>6. \A c \in qVms' : QVmSound(c)'
  BY DEF QemuInv, QVmSound, QNames, QSame, QUncontested, QTyped
<1>7. QReportsSound'
  BY DEF QemuInv, QReportsSound, QSame, QTyped, QDbRows
<1> QED
  BY <1>1, <1>2, <1>3, <1>4, <1>5, <1>6, <1>7 DEF QemuInv

\* A host that ends leaves the journals, and machines that they name.
LEMMA HostEndKeeps ==
  ASSUME QemuInv, QTyped', QHostEnds, UNCHANGED <<qDb, qAttempts, qStatuses>>,
         qReport' = qReport \/ qReport'.stage = "idle",
         qCalls' \subseteq QForsake(qCalls), qRecovers' \subseteq QForsake(qRecovers)
  PROVE  QemuInv'
<1>1. \A k \in qRecovers' : ~k.awaited /\ \E m \in qRecovers :
        m.claim = k.claim /\ m.lane = k.lane /\ m.stage = k.stage
  <2> TAKE k \in qRecovers'
  <2>1. PICK m \in qRecovers : k = [m EXCEPT !.awaited = FALSE]
    BY DEF QForsake
  <2>2. m \in QRecoverRows
    BY DEF QemuInv, QTyped
  <2> QED
    BY <2>1, <2>2 DEF QRecoverRows
<1>2. \A k \in qCalls' : ~k.awaited /\ \E m \in qCalls :
        m.claim = k.claim /\ m.lane = k.lane /\ m.request = k.request
  <2> TAKE k \in qCalls'
  <2>1. PICK m \in qCalls : k = [m EXCEPT !.awaited = FALSE]
    BY DEF QForsake
  <2>2. m \in QCallRows
    BY DEF QemuInv, QTyped
  <2> QED
    BY <2>1, <2>2 DEF QCallRows
<1>3. \A c \in QClaims : QUncontested(c) => QUncontested(c)'
  BY <1>1 DEF QUncontested
<1>4. \A c \in QClaims : QClaimSound(c)'
  <2> TAKE c \in QClaims
  <2>1. QClaimSound(c)
    BY DEF QemuInv
  <2>2. QJournaled(c)' => QJournaled(c)
    BY <1>3 DEF QJournaled, QNames, QHostEnds
  <2> QED
    BY <2>1, <2>2, <1>3 DEF QClaimSound, QEnds, QOwned, QAssignedOnce, QAsks, QNames, QHostEnds
<1>5. QLanesFenced'
  BY DEF QemuInv, QLanesFenced, QRows
<1>6. \A l \in QLanes : QJournalSound(l)'
  BY <1>3 DEF QemuInv, QJournalSound, QAsks, QHostEnds
<1>7. \A l \in QLanes : QWorkerSound(l)'
  BY DEF QHostEnds, QWorkerSound
<1>8. QHandlersSound'
  BY <1>1, <1>2 DEF QemuInv, QHandlersSound, QCallSound, QRecoverSound
<1>9. \A c \in qVms' : QVmSound(c)'
  <2> TAKE c \in qVms'
  <2>1. c \in qVms /\ c \in QClaims
    BY DEF QHostEnds, QemuInv, QTyped
  <2>2. QVmSound(c) /\ QShape(qDb.claim[c])
    BY <2>1 DEF QemuInv, QClaimSound
  <2> DEFINE l == qDb.claim[c].lane
  <2>3. l \in QLanes /\ qWorker'[l] = "down" /\ qJournal' = qJournal
    BY <2>2 DEF QVmSound, QShape, QHostEnds
  <2>4. QNames(l, {"active"}, c)
    <3>1. CASE qWorker[l] = "running" /\ qHeld[l] = c
      BY <3>1, <2>3 DEF QemuInv, QWorkerSound
    <3> QED
      BY <3>1, <2>2 DEF QVmSound
  <2> QED
    BY <2>1, <2>2, <2>3, <2>4, <1>3 DEF QVmSound, QNames
<1>10. QReportsSound'
  BY DEF QemuInv, QReportsSound
<1> QED
  BY <1>4, <1>5, <1>6, <1>7, <1>8, <1>9, <1>10 DEF QemuInv

-----------------------------------------------------------------------------
(* The worker.                                                             *)

\* A step of one worker that waits for no handler, and its journal.
LEMMA WorkerKeeps ==
  ASSUME QemuInv, QTyped', NEW l \in QLanes,
         UNCHANGED <<qDb, qCalls, qRecovers, qReport, qAttempts, qStatuses>>,
         \A m \in QLanes \ {l} : /\ qWorker'[m] = qWorker[m] /\ qHeld'[m] = qHeld[m]
                                 /\ qJournal'[m] = qJournal[m],
         qWorker[l] \notin {"claiming", "recovering"},
         \A m \in QLanes : QJournalSound(m)',
         \A c \in QClaims : QOwned(c)' /\ QAssignedOnce(c)',
         QWorkerSound(l)',
         \A c \in qVms' : (c \in qVms /\ qDb.claim[c].lane # l) \/ QVmSound(c)'
  PROVE  QemuInv'
<1>1. \A c \in QClaims : QClaimSound(c)'
  BY DEF QemuInv, QClaimSound, QEnds, QUncontested
<1>2. QLanesFenced' /\ QReportsSound'
  BY DEF QemuInv, QLanesFenced, QRows, QReportsSound
<1>3. \A m \in QLanes : QWorkerSound(m)'
  <2> TAKE m \in QLanes
  <2>1. CASE m = l
    BY <2>1
  <2>2. CASE m # l
    BY <2>2 DEF QemuInv, QWorkerSound, QRunnable, QNames, QUncontested, QRows
  <2> QED
    BY <2>1, <2>2
<1>4. QHandlersSound'
  <2>1. \A k \in qCalls : QCallSound(k)'
    <3> TAKE k \in qCalls
    <3>1. k.lane \in QLanes /\ QCallSound(k)
      BY DEF QemuInv, QTyped, QCallRows, QHandlersSound
    <3> QED
      BY <3>1 DEF QCallSound, QAsks
  <2>2. \A k \in qRecovers : QRecoverSound(k)'
    <3> TAKE k \in qRecovers
    <3>1. k.lane \in QLanes /\ QRecoverSound(k)
      BY DEF QemuInv, QTyped, QRecoverRows, QHandlersSound
    <3> QED
      BY <3>1 DEF QRecoverSound
  <2> QED
    BY <2>1, <2>2 DEF QemuInv, QHandlersSound
<1>5. \A c \in qVms' : QVmSound(c)'
  <2> TAKE c \in qVms'
  <2>1. CASE c \in qVms /\ qDb.claim[c].lane # l
    <3>1. QVmSound(c) /\ QShape(qDb.claim[c])
      BY <2>1 DEF QemuInv, QTyped, QClaimSound
    <3>2. qDb.claim[c].lane \in QLanes \ {l}
      BY <2>1, <3>1 DEF QVmSound, QShape
    <3> QED
      BY <3>1, <3>2 DEF QVmSound, QNames, QUncontested
  <2> QED
    BY <2>1
<1> QED
  BY <1>1, <1>2, <1>3, <1>4, <1>5 DEF QemuInv

\* The same, when the journal stays as it is.
LEMMA WorkerMoves ==
  ASSUME QemuInv, QTyped', NEW l \in QLanes,
         UNCHANGED <<qDb, qCalls, qRecovers, qReport, qAttempts, qStatuses, qJournal>>,
         \A m \in QLanes \ {l} : qWorker'[m] = qWorker[m] /\ qHeld'[m] = qHeld[m],
         qWorker[l] \notin {"claiming", "recovering"},
         QWorkerSound(l)',
         \A c \in qVms' : (c \in qVms /\ qDb.claim[c].lane # l) \/ QVmSound(c)'
  PROVE  QemuInv'
<1>1. \A m \in QLanes : QJournalSound(m)'
  BY DEF QemuInv, QJournalSound, QAsks, QUncontested
<1>2. \A c \in QClaims : QOwned(c)' /\ QAssignedOnce(c)'
  BY DEF QemuInv, QClaimSound, QOwned, QAssignedOnce, QJournaled, QAsks, QNames, QUncontested
<1> QED
  BY <1>1, <1>2, WorkerKeeps, Zenon

\* A worker that neither runs its machine nor is at rest has none.
LEMMA VmsElsewhere ==
  ASSUME QemuInv, NEW l \in QLanes,
         qWorker[l] \notin {"running", "down", "idle"} \/ qJournal[l].kind \in {"none", "claim"}
  PROVE  \A c \in qVms : qDb.claim[c].lane # l
<1> SUFFICES ASSUME NEW c \in qVms, qDb.claim[c].lane = l PROVE FALSE
  OBVIOUS
<1>1. QVmSound(c) /\ QWorkerSound(l)
  BY DEF QemuInv
<1> QED
  BY <1>1 DEF QVmSound, QNames, QWorkerSound

LEMMA StartKeeps ==
  ASSUME QemuInv, QemuHostStarts
  PROVE  QemuInv'
<1> USE DEF QemuHostStarts
<1>1. QTyped'
  BY DEF QemuInv, QTyped, QStages
<1>2. \A l \in QLanes : QWorkerSound(l)' /\ QJournalSound(l)'
  BY DEF QemuInv, QWorkerSound, QJournalSound, QAsks, QUncontested
<1>3. QHandlersSound'
  BY DEF QemuInv, QHandlersSound, QCallSound, QRecoverSound, QTyped, QCallRows, QRecoverRows
<1>4. \A c \in QClaims : QClaimSound(c)'
  BY DEF QemuInv, QClaimSound, QEnds, QOwned, QAssignedOnce, QJournaled, QAsks, QNames, QUncontested
<1>5. QLanesFenced' /\ QReportsSound'
  BY DEF QemuInv, QLanesFenced, QRows, QReportsSound
<1>6. \A c \in qVms' : QVmSound(c)'
  <2> TAKE c \in qVms'
  <2>1. QVmSound(c) /\ QShape(qDb.claim[c])
    BY DEF QemuInv, QTyped, QClaimSound
  <2>2. qDb.claim[c].lane \in QLanes
    BY <2>1 DEF QVmSound, QShape
  <2> QED
    BY <2>1, <2>2 DEF QVmSound, QNames, QUncontested
<1> QED
  BY <1>1, <1>2, <1>3, <1>4, <1>5, <1>6 DEF QemuInv

LEMMA OldestRequest ==
  ASSUME QFreshRequests # {}
  PROVE  (CHOOSE x \in QFreshRequests : \A y \in QFreshRequests : x =< y) \in QFreshRequests
<1>1. QFreshRequests \subseteq Nat
  BY DEF QFreshRequests, QRequests
<1>2. \E x \in QFreshRequests : \A y \in QFreshRequests : x =< y
  BY <1>1, LeastExists
<1> QED
  BY <1>2

LEMMA JournalClaimKeeps ==
  ASSUME QemuInv, NEW l \in QLanes, QemuJournalClaim(l)
  PROVE  QemuInv'
<1> DEFINE r == CHOOSE x \in QFreshRequests : \A y \in QFreshRequests : x =< y
<1>1. r \in QFreshRequests /\ r \in QRequests
  BY OldestRequest DEF QemuJournalClaim, QFreshRequests
<1>2. /\ qWorker[l] = "idle" /\ qJournal[l].kind = "none"
      /\ qJournal' = [qJournal EXCEPT ![l] = [kind |-> "claim", request |-> r, claim |-> QNone]]
      /\ UNCHANGED <<schedulerVars, authorityVars, qWorker, qHeld, qVms, qFaults>>
  BY DEF QemuJournalClaim
<1> HIDE DEF r
<1>3. QTyped'
  BY <1>1, <1>2 DEF QemuInv, QTyped, QJournals
<1>4. qJournal'[l].kind = "claim" /\ qJournal'[l].request = r
  BY <1>2 DEF QemuInv, QTyped
<1>5. \A m \in QLanes \ {l} : qJournal'[m] = qJournal[m]
  BY <1>2 DEF QemuInv, QTyped
<1>6. \A m \in QLanes : qJournal[m].request # r
  BY <1>1 DEF QFreshRequests
<1>7. \A m \in QLanes : QJournalSound(m)'
  BY <1>1, <1>2, <1>4, <1>5, <1>6 DEF QemuInv, QJournalSound, QAsks, QUncontested
<1>8. \A c \in QClaims : QOwned(c)' /\ QAssignedOnce(c)'
  <2> TAKE c \in QClaims
  <2>1. QShape(qDb.claim[c]) /\ QOwned(c) /\ QAssignedOnce(c)
    BY DEF QemuInv, QClaimSound
  <2>2. QOwned(c)'
    BY <2>1, <1>2, <1>4, <1>5 DEF QShape, QOwned, QAsks, QNames
  <2>3. QJournaled(c)' => QJournaled(c)
    BY <1>2, <1>4, <1>5 DEF QJournaled, QNames, QUncontested
  <2>4. qDb.claim[c].request # r
    BY <1>1 DEF QFreshRequests
  <2>5. QAssignedOnce(c)'
    BY <2>1, <2>3, <2>4, <1>2, <1>4, <1>5 DEF QAssignedOnce, QAsks
  <2> QED
    BY <2>2, <2>5
<1>9. QWorkerSound(l)'
  BY <1>2 DEF QWorkerSound
<1>10. \A c \in qVms' : c \in qVms /\ qDb.claim[c].lane # l
  BY <1>2, VmsElsewhere
<1> QED
  BY <1>2, <1>3, <1>5, <1>7, <1>8, <1>9, <1>10, WorkerKeeps

LEMMA JournalReplyKeeps ==
  ASSUME QemuInv, NEW l \in QLanes, QemuJournalReply(l)
  PROVE  QemuInv'
<1>1. /\ qWorker[l] \in {"refused", "assigned"}
      /\ UNCHANGED <<schedulerVars, authorityVars, qVms, qFaults>>
  BY DEF QemuJournalReply
<1>2. QJournalSound(l) /\ QWorkerSound(l) /\ qJournal[l].kind = "claim"
  BY <1>1 DEF QemuInv, QWorkerSound
<1>3. QAsks(l, qJournal[l].request) /\ \A m \in QLanes : QAsks(m, qJournal[l].request) => m = l
  BY <1>2 DEF QJournalSound, QAsks
<1>4. \A c \in qVms' : c \in qVms /\ qDb.claim[c].lane # l
  BY <1>1, VmsElsewhere
<1>5. CASE qWorker[l] = "refused"
  <2>1. /\ qJournal' = [qJournal EXCEPT ![l] = QNoJournal]
        /\ qWorker' = [qWorker EXCEPT ![l] = "idle"] /\ UNCHANGED qHeld
    BY <1>5 DEF QemuJournalReply
  <2>2. QTyped'
    BY <1>1, <2>1 DEF QemuInv, QTyped, QJournals, QNoJournal, QStages
  <2>3. qJournal'[l].kind = "none" /\ \A m \in QLanes \ {l} : qJournal'[m] = qJournal[m]
    BY <2>1 DEF QemuInv, QTyped, QNoJournal
  <2>4. qWorker'[l] = "idle" /\ \A m \in QLanes \ {l} : qWorker'[m] = qWorker[m]
    BY <2>1 DEF QemuInv, QTyped
  <2>5. \A m \in QLanes : QJournalSound(m)'
    BY <1>1, <2>3 DEF QemuInv, QJournalSound, QAsks, QUncontested
  <2>6. \A c \in QClaims : QOwned(c)' /\ QAssignedOnce(c)'
    <3> TAKE c \in QClaims
    <3>1. QShape(qDb.claim[c]) /\ QOwned(c) /\ QAssignedOnce(c)
      BY DEF QemuInv, QClaimSound
    <3>2. c \in QRows(qDb, {"reserved", "active"}) => qDb.claim[c].request # qJournal[l].request
      BY <1>2, <1>5 DEF QWorkerSound
    <3>3. QOwned(c)'
      BY <3>1, <3>2, <1>1, <1>2, <2>3 DEF QShape, QOwned, QAsks, QNames, QRows
    <3>4. QJournaled(c)' => QJournaled(c)
      BY <1>1, <2>3 DEF QJournaled, QNames, QUncontested
    <3>5. QAssignedOnce(c)'
      BY <3>1, <3>4, <1>1, <2>3 DEF QAssignedOnce, QAsks
    <3> QED
      BY <3>3, <3>5
  <2>7. QWorkerSound(l)'
    BY <2>4 DEF QWorkerSound
  <2> QED
    BY <1>1, <1>4, <1>5, <2>1, <2>2, <2>3, <2>4, <2>5, <2>6, <2>7, WorkerKeeps
<1>6. CASE qWorker[l] = "assigned"
  <2> DEFINE c == qHeld[l]
  <2>1. c \in QClaims /\ qDb.claim[c].state = "active" /\ ~qDb.claim[c].result /\ qDb.claim[c].lane = l
        /\ qDb.claim[c].request = qJournal[l].request
    BY <1>2, <1>6 DEF QWorkerSound, QRunnable
  <2>2. qJournal' = [qJournal EXCEPT ![l] = [kind |-> "active", request |-> QNone, claim |-> c]]
    BY <1>6 DEF QemuJournalReply
  <2>3. \/ /\ qWorker' = [qWorker EXCEPT ![l] = "prepare"] /\ UNCHANGED qHeld
        \/ /\ qWorker' = [qWorker EXCEPT ![l] = "idle"] /\ qHeld' = [qHeld EXCEPT ![l] = QNone]
    BY <1>6 DEF QemuJournalReply
  <2>4. QUncontested(c)
    <3>1. QAssignedOnce(c)
      BY <2>1 DEF QemuInv, QClaimSound
    <3> QED
      BY <3>1, <2>1, <1>3 DEF QAssignedOnce, QJournaled
  <2> HIDE DEF c
  <2>5. QTyped'
    BY <1>1, <2>1, <2>2, <2>3 DEF QemuInv, QTyped, QJournals, QStages
  <2>6. /\ qJournal'[l].kind = "active" /\ qJournal'[l].claim = c
        /\ \A m \in QLanes \ {l} : qJournal'[m] = qJournal[m]
    BY <2>2 DEF QemuInv, QTyped
  <2>7. \A m \in QLanes \ {l} : qWorker'[m] = qWorker[m] /\ qHeld'[m] = qHeld[m]
    BY <2>3 DEF QemuInv, QTyped
  <2>8. \A m \in QLanes : QJournalSound(m)'
    <3> TAKE m \in QLanes
    <3>1. CASE m = l
      BY <3>1, <1>1, <2>1, <2>6 DEF QJournalSound
    <3>2. CASE m # l
      BY <3>2, <1>1, <2>6 DEF QemuInv, QJournalSound, QAsks, QUncontested
    <3> QED
      BY <3>1, <3>2
  <2>9. \A d \in QClaims : QOwned(d)' /\ QAssignedOnce(d)'
    <3> TAKE d \in QClaims
    <3>1. QShape(qDb.claim[d]) /\ QOwned(d) /\ QAssignedOnce(d)
      BY DEF QemuInv, QClaimSound
    <3>2. CASE d = c
      <4>1. QOwned(d)'
        BY <3>2, <1>1, <2>1, <2>6 DEF QOwned, QNames
      <4>2. \A m \in QLanes : ~QAsks(m, qDb.claim[d].request)'
        BY <3>2, <1>1, <1>3, <2>1, <2>6 DEF QAsks
      <4> QED
        BY <4>1, <4>2, <1>1 DEF QAssignedOnce
    <3>3. CASE d # c
      <4>1. qDb.claim[d].state \in {"reserved", "active"} => qDb.claim[d].lane # l
        BY <3>3, <2>1 DEF QemuInv, QLanesFenced, QRows
      <4>2. QOwned(d)'
        BY <4>1, <3>1, <1>1, <2>6 DEF QShape, QOwned, QAsks, QNames
      <4>3. QJournaled(d)' => QJournaled(d)
        BY <3>3, <1>1, <2>6 DEF QJournaled, QNames, QUncontested
      <4>4. QAssignedOnce(d)'
        BY <4>3, <3>1, <1>1, <2>6 DEF QAssignedOnce, QAsks
      <4> QED
        BY <4>2, <4>4
    <3> QED
      BY <3>2, <3>3
  <2>10. QWorkerSound(l)'
    <3>1. CASE qWorker'[l] = "idle"
      BY <3>1 DEF QWorkerSound
    <3>2. CASE qWorker'[l] = "prepare" /\ qHeld'[l] = c
      <4>1. QRunnable(l)'
        BY <3>2, <1>1, <2>1 DEF QRunnable
      <4> QED
        BY <4>1, <3>2, <1>1, <2>4, <2>6 DEF QWorkerSound, QNames, QUncontested
    <3> QED
      BY <3>1, <3>2, <2>3 DEF QemuInv, QTyped, c
  <2> QED
    BY <1>1, <1>4, <1>6, <2>5, <2>6, <2>7, <2>8, <2>9, <2>10, WorkerKeeps
<1> QED
  BY <1>1, <1>5, <1>6

\* A worker that throws, or a host that dies, at any step.
LEMMA HostFailKeeps ==
  ASSUME QemuInv, NEW calls \in SUBSET qCalls, NEW recovers \in SUBSET qRecovers,
         QHostFails(calls, recovers),
         UNCHANGED <<qDb, qAttempts, qStatuses, qReport>>
  PROVE  QemuInv'
<1>1. QHostEnds /\ qCalls' = QForsake(calls) /\ qRecovers' = QForsake(recovers)
  BY DEF QHostFails
<1>2. qCalls' \subseteq QForsake(qCalls) /\ qRecovers' \subseteq QForsake(qRecovers)
  BY <1>1 DEF QForsake
<1>3. qCalls' \subseteq QCallRows
  <2> SUFFICES ASSUME NEW k \in calls PROVE [k EXCEPT !.awaited = FALSE] \in QCallRows
    BY <1>1 DEF QForsake
  <2>1. k \in QCallRows
    BY DEF QemuInv, QTyped
  <2> QED
    BY <2>1 DEF QCallRows
<1>4. qRecovers' \subseteq QRecoverRows
  <2> SUFFICES ASSUME NEW k \in recovers PROVE [k EXCEPT !.awaited = FALSE] \in QRecoverRows
    BY <1>1 DEF QForsake
  <2>1. k \in QRecoverRows
    BY DEF QemuInv, QTyped
  <2> QED
    BY <2>1 DEF QRecoverRows
<1>5. QTyped'
  BY <1>1, <1>3, <1>4 DEF QemuInv, QTyped, QHostEnds, QStages
<1> QED
  BY <1>1, <1>2, <1>5, HostEndKeeps

\* Handlers that end, and nothing else.
LEMMA FewerKeep ==
  ASSUME QemuInv, qCalls' \subseteq qCalls, qRecovers' \subseteq qRecovers,
         UNCHANGED <<qDb, qAttempts, qStatuses, hostVars>>,
         qReport' = qReport \/ qReport' = [claim |-> QNone, stage |-> "idle"]
  PROVE  QemuInv'
<1>1. QTyped'
  <2>1. CASE UNCHANGED qReport
    BY <2>1 DEF QemuInv, QTyped
  <2>2. CASE qReport' = [claim |-> QNone, stage |-> "idle"]
    BY <2>2 DEF QemuInv, QTyped
  <2> QED
    BY <2>1, <2>2
<1>2. \A c \in QClaims : QUncontested(c) => QUncontested(c)'
  BY DEF QUncontested
<1>3. \A c \in QClaims : QClaimSound(c)'
  <2> TAKE c \in QClaims
  <2>1. QClaimSound(c)
    BY DEF QemuInv
  <2>2. QJournaled(c)' => QJournaled(c)
    BY <1>2 DEF QJournaled, QNames
  <2> QED
    BY <2>1, <2>2, <1>2 DEF QClaimSound, QEnds, QOwned, QAssignedOnce, QAsks, QNames
<1>4. QLanesFenced' /\ QReportsSound'
  BY DEF QemuInv, QLanesFenced, QRows, QReportsSound
<1>5. \A l \in QLanes : QJournalSound(l)' /\ QWorkerSound(l)'
  BY <1>2 DEF QemuInv, QJournalSound, QAsks, QWorkerSound, QRunnable, QNames, QRows
<1>6. QHandlersSound'
  BY DEF QemuInv, QHandlersSound, QCallSound, QRecoverSound, QAsks
<1>7. \A c \in qVms' : QVmSound(c)'
  BY <1>2 DEF QemuInv, QVmSound, QNames, QTyped
<1> QED
  BY <1>1, <1>3, <1>4, <1>5, <1>6, <1>7 DEF QemuInv

LEMMA HandlerFailKeeps ==
  ASSUME QemuInv, NEW k \in qCalls, QHandlerFails(k),
         UNCHANGED <<qDb, qAttempts, qStatuses, qReport>>
  PROVE  QemuInv'
<1>1. CASE k.awaited
  <2>1. QHostFails(qCalls \ {k}, qRecovers)
    BY <1>1 DEF QHandlerFails
  <2> QED
    BY <2>1, HostFailKeeps
<1>2. CASE ~k.awaited
  BY <1>2, FewerKeep DEF QHandlerFails
<1> QED
  BY <1>1, <1>2

LEMMA VmStartKeeps ==
  ASSUME QemuInv, NEW l \in QLanes, QemuVmStarts(l)
  PROVE  QemuInv'
<1> DEFINE c == qHeld[l]
<1>1. /\ qWorker[l] = "prepare"
      /\ UNCHANGED <<qDb, qEligible, qReport, authorityVars, qFaults>>
  BY DEF QemuVmStarts
<1>2. CASE QHostFails(qCalls, qRecovers)
  BY <1>1, <1>2, HostFailKeeps
<1>3. CASE /\ QLeasable(c)
           /\ qVms' = qVms \cup {c}
           /\ qWorker' = [qWorker EXCEPT ![l] = "running"]
           /\ UNCHANGED <<qJournal, qHeld, qCalls, qRecovers>>
  <2>1. QWorkerSound(l)
    BY DEF QemuInv
  <2>2. QRunnable(l) /\ QNames(l, {"active"}, c) /\ QUncontested(c) /\ c \in QClaims
    BY <2>1, <1>1 DEF QWorkerSound, QRunnable
  <2>3. qAttempts[c].state = "current"
    BY <1>3 DEF QLeasable
  <2>4. QTyped'
    BY <1>1, <1>3, <2>2 DEF QemuInv, QTyped, QStages
  <2>5. qWorker'[l] = "running" /\ \A m \in QLanes \ {l} : qWorker'[m] = qWorker[m] /\ qHeld'[m] = qHeld[m]
    BY <1>3 DEF QemuInv, QTyped
  <2>6. QWorkerSound(l)'
    BY <1>1, <1>3, <2>2, <2>3, <2>5 DEF QWorkerSound, QRunnable, QNames, QUncontested
  <2>7. QVmSound(c)'
    BY <1>1, <1>3, <2>2, <2>3, <2>5 DEF QVmSound, QRunnable, QUncontested
  <2>8. \A d \in qVms' : (d \in qVms /\ qDb.claim[d].lane # l) \/ QVmSound(d)'
    BY <1>1, <1>3, <2>7, VmsElsewhere
  <2> QED
    BY <1>1, <1>3, <2>4, <2>5, <2>6, <2>8, WorkerMoves
<1> QED
  BY <1>2, <1>3 DEF QemuVmStarts

LEMMA RenewKeeps ==
  ASSUME QemuInv, NEW l \in QLanes, QemuRenew(l)
  PROVE  QemuInv'
<1>1. QHostFails(qCalls, qRecovers) /\ UNCHANGED <<qDb, qAttempts, qStatuses, qReport>>
  BY DEF QemuRenew
<1> QED
  BY <1>1, HostFailKeeps

LEMMA CrashKeeps ==
  ASSUME QemuInv, QemuHostCrashes
  PROVE  QemuInv'
<1>1. QHostFails(qCalls, qRecovers) /\ UNCHANGED <<qDb, qAttempts, qStatuses, qReport>>
  BY DEF QemuHostCrashes
<1> QED
  BY <1>1, HostFailKeeps

LEMMA VmEndKeeps ==
  ASSUME QemuInv, NEW l \in QLanes, QemuVmEnds(l)
  PROVE  QemuInv'
<1> USE DEF QemuVmEnds
<1>1. QTyped'
  BY DEF QemuInv, QTyped, QStages
<1>2. qWorker'[l] = "ran" /\ \A m \in QLanes \ {l} : qWorker'[m] = qWorker[m] /\ qHeld'[m] = qHeld[m]
  BY DEF QemuInv, QTyped
<1>3. QWorkerSound(l)'
  BY <1>2 DEF QemuInv, QWorkerSound, QRunnable, QNames, QUncontested
<1>4. \A c \in qVms' : c \in qVms /\ qDb.claim[c].lane # l
  BY DEF QemuInv, QVmSound
<1> QED
  BY <1>1, <1>2, <1>3, <1>4, WorkerMoves

LEMMA JournalResultKeeps ==
  ASSUME QemuInv, NEW l \in QLanes, QemuJournalResult(l)
  PROVE  QemuInv'
<1> DEFINE c == qHeld[l]
<1>1. /\ qWorker[l] = "ran"
      /\ qJournal' = [qJournal EXCEPT ![l].kind = "result"]
      /\ qWorker' = [qWorker EXCEPT ![l] = "report"]
      /\ UNCHANGED <<schedulerVars, authorityVars, qHeld, qVms, qFaults>>
  BY DEF QemuJournalResult
<1>2. QWorkerSound(l) /\ QJournalSound(l)
  BY DEF QemuInv
<1>3. /\ qJournal[l].kind = "active" /\ qJournal[l].claim = c /\ c \in QClaims
      /\ QUncontested(c) /\ qAttempts[c].state = "current"
  BY <1>1, <1>2 DEF QWorkerSound, QNames, QRunnable
<1>4. QTyped'
  BY <1>1 DEF QemuInv, QTyped, QJournals, QStages
<1>5. /\ qJournal'[l].kind = "result" /\ qJournal'[l].claim = c
      /\ \A m \in QLanes \ {l} : qJournal'[m] = qJournal[m]
  BY <1>1, <1>3 DEF QemuInv, QTyped, QJournals
<1>6. qWorker'[l] = "report" /\ \A m \in QLanes \ {l} : qWorker'[m] = qWorker[m] /\ qHeld'[m] = qHeld[m]
  BY <1>1 DEF QemuInv, QTyped
<1>7. \A m \in QLanes : QJournalSound(m)'
  <2> TAKE m \in QLanes
  <2>1. CASE m = l
    BY <2>1, <1>1, <1>2, <1>3, <1>5 DEF QJournalSound, QUncontested
  <2>2. CASE m # l
    BY <2>2, <1>1, <1>5 DEF QemuInv, QJournalSound, QAsks, QUncontested
  <2> QED
    BY <2>1, <2>2
<1>8. \A d \in QClaims : QOwned(d)' /\ QAssignedOnce(d)'
  <2> TAKE d \in QClaims
  <2>1. QShape(qDb.claim[d]) /\ QOwned(d) /\ QAssignedOnce(d)
    BY DEF QemuInv, QClaimSound
  <2>2. QOwned(d)'
    BY <2>1, <1>1, <1>3, <1>5 DEF QShape, QOwned, QAsks, QNames
  <2>3. QJournaled(d)' => QJournaled(d)
    BY <1>1, <1>3, <1>5 DEF QJournaled, QNames, QUncontested
  <2>4. QAssignedOnce(d)'
    BY <2>1, <2>3, <1>1, <1>5 DEF QAssignedOnce, QAsks
  <2> QED
    BY <2>2, <2>4
<1>9. QWorkerSound(l)'
  BY <1>1, <1>5, <1>6 DEF QWorkerSound, QNames
<1>10. \A d \in qVms' : d \in qVms /\ qDb.claim[d].lane # l
  BY <1>1, VmsElsewhere
<1> QED
  BY <1>1, <1>4, <1>5, <1>6, <1>7, <1>8, <1>9, <1>10, WorkerKeeps

LEMMA ReplayKeeps ==
  ASSUME QemuInv, NEW l \in QLanes, QemuReplay(l)
  PROVE  QemuInv'
<1> DEFINE c == qJournal[l].claim
           w == IF qJournal[l].kind = "result" THEN "report" ELSE "recover"
<1>1. /\ qWorker[l] = "idle" /\ qJournal[l].kind \in {"active", "result"}
      /\ qVms' = qVms \ {c}
      /\ qHeld' = [qHeld EXCEPT ![l] = c]
      /\ qWorker' = [qWorker EXCEPT ![l] = w]
      /\ UNCHANGED <<schedulerVars, authorityVars, qJournal, qFaults>>
  BY DEF QemuReplay
<1>2. c \in QClaims /\ w \in QStages
  BY <1>1 DEF QemuInv, QJournalSound, QStages
<1>3. QTyped'
  BY <1>1, <1>2 DEF QemuInv, QTyped
<1>4. qWorker'[l] = w /\ qHeld'[l] = c /\ \A m \in QLanes \ {l} : qWorker'[m] = qWorker[m] /\ qHeld'[m] = qHeld[m]
  BY <1>1 DEF QemuInv, QTyped
<1>5. QWorkerSound(l)'
  BY <1>1, <1>4 DEF QWorkerSound, QNames
<1>6. \A d \in qVms' : d \in qVms /\ qDb.claim[d].lane # l
  <2> SUFFICES ASSUME NEW d \in qVms', qDb.claim[d].lane = l PROVE FALSE
    BY <1>1
  <2>1. d \in qVms /\ d # c /\ QVmSound(d)
    BY <1>1 DEF QemuInv
  <2> QED
    BY <2>1, <1>1 DEF QVmSound, QNames
<1> QED
  BY <1>1, <1>3, <1>4, <1>5, <1>6, WorkerMoves

LEMMA ClearedKeeps ==
  ASSUME QemuInv, NEW l \in QLanes, QemuJournalCleared(l)
  PROVE  QemuInv'
<1> DEFINE c == qHeld[l]
<1>1. /\ qWorker[l] = "settled"
      /\ qJournal' = [qJournal EXCEPT ![l] = QNoJournal]
      /\ qWorker' = [qWorker EXCEPT ![l] = "idle"]
      /\ qHeld' = [qHeld EXCEPT ![l] = QNone]
      /\ UNCHANGED <<schedulerVars, authorityVars, qVms, qFaults>>
  BY DEF QemuJournalCleared
<1>2. QTyped'
  BY <1>1 DEF QemuInv, QTyped, QJournals, QNoJournal, QStages
<1>3. qJournal'[l].kind = "none" /\ \A m \in QLanes \ {l} : qJournal'[m] = qJournal[m]
  BY <1>1 DEF QemuInv, QTyped, QNoJournal
<1>4. qWorker'[l] = "idle" /\ \A m \in QLanes \ {l} : qWorker'[m] = qWorker[m] /\ qHeld'[m] = qHeld[m]
  BY <1>1 DEF QemuInv, QTyped
<1>5. QNames(l, {"active", "result"}, c) /\ (qDb.claim[c].result \/ qDb.claim[c].state = "completed")
  BY <1>1 DEF QemuInv, QWorkerSound
<1>6. \A m \in QLanes : QJournalSound(m)'
  BY <1>1, <1>3 DEF QemuInv, QJournalSound, QAsks, QUncontested
<1>7. \A d \in QClaims : QOwned(d)' /\ QAssignedOnce(d)'
  <2> TAKE d \in QClaims
  <2>1. QShape(qDb.claim[d]) /\ QOwned(d) /\ QAssignedOnce(d)
    BY DEF QemuInv, QClaimSound
  <2>2. QOwned(d)'
    BY <2>1, <1>1, <1>3, <1>5 DEF QShape, QOwned, QAsks, QNames
  <2>3. QJournaled(d)' => QJournaled(d)
    BY <1>1, <1>3 DEF QJournaled, QNames, QUncontested
  <2>4. QAssignedOnce(d)'
    BY <2>1, <2>3, <1>1, <1>3 DEF QAssignedOnce, QAsks
  <2> QED
    BY <2>2, <2>4
<1>8. QWorkerSound(l)'
  BY <1>4 DEF QWorkerSound
<1>9. \A d \in qVms' : d \in qVms /\ qDb.claim[d].lane # l
  BY <1>1, VmsElsewhere
<1> QED
  BY <1>1, <1>2, <1>3, <1>4, <1>6, <1>7, <1>8, <1>9, WorkerKeeps

LEMMA IntakeKeeps ==
  ASSUME QemuInv, NEW e \in QEvents, QemuIntake(e)
  PROVE  QemuInv'
<1>1. /\ qDb' = qDb \/ qDb' = [qDb EXCEPT !.event[e] = "queued", !.order = Append(@, e)]
      /\ UNCHANGED <<qCalls, qRecovers, qReport, authorityVars, hostVars, qFaults>>
  BY DEF QemuIntake
<1>2. qDb' \in QDbRows
  <2>1. CASE qDb' = qDb
    BY <2>1 DEF QemuInv, QTyped
  <2>2. CASE qDb' = [qDb EXCEPT !.event[e] = "queued", !.order = Append(@, e)]
    <3>1. [qDb.event EXCEPT ![e] = "queued"] \in [QEvents -> QEventStates]
      BY DEF QemuInv, QTyped, QDbRows, QEventStates
    <3>2. Append(qDb.order, e) \in Seq(QEvents)
      BY DEF QemuInv, QTyped, QDbRows
    <3> QED
      BY <2>2, <3>1, <3>2 DEF QemuInv, QTyped, QDbRows
  <2> QED
    BY <1>1, <2>1, <2>2
<1>3. QTyped'
  BY <1>1, <1>2 DEF QemuInv, QTyped
<1>4. qDb'.claim = qDb.claim /\ qDb'.outbox = qDb.outbox /\ qDb'.delivered = qDb.delivered
  BY <1>1 DEF QemuInv, QTyped, QDbRows
<1>5. \A c \in QClaims : QSame(c)
  BY <1>4 DEF QSame
<1>6. \A c \in qStatuses' : qDb.claim[c].result
  BY <1>1 DEF QemuInv, QClaimSound, QEnds, QTyped
<1>7. /\ qReport'.stage # "idle" => qReport'.claim \in QClaims /\ qDb.claim[qReport'.claim].result
      /\ qReport'.stage = "accepted" => qReport'.claim \in qStatuses'
  BY <1>1 DEF QemuInv, QReportsSound
<1> QED
  BY <1>1, <1>3, <1>4, <1>5, <1>6, <1>7, BooksKeep

LEMMA LeaseKeeps ==
  ASSUME QemuInv, NEW c \in QClaims, QemuLeaseExpires(c)
  PROVE  QemuInv'
<1>1. /\ qDb' = [qDb EXCEPT !.claim[c].lease = FALSE]
      /\ UNCHANGED <<qEligible, qCalls, qRecovers, qReport, authorityVars, hostVars>>
  BY DEF QemuLeaseExpires
<1> DEFINE r == [qDb.claim[c] EXCEPT !.lease = FALSE]
<1>2. r \in QClaimRow
  BY RowTyped DEF QemuInv, QClaimRow
<1>3. /\ r.state = qDb.claim[c].state /\ r.event = qDb.claim[c].event /\ r.lane = qDb.claim[c].lane
      /\ r.request = qDb.claim[c].request /\ r.attempt = qDb.claim[c].attempt /\ r.result = qDb.claim[c].result
  BY RowTyped DEF QemuInv, QClaimRow
<1>4. qDb' = [qDb EXCEPT !.claim = [qDb.claim EXCEPT ![c] = r]]
  BY <1>1 DEF QemuInv, QTyped, QDbRows
<1> HIDE DEF r
<1>5. qDb'.claim = [qDb.claim EXCEPT ![c] = r] /\ qDb'.outbox = qDb.outbox /\ qDb'.delivered = qDb.delivered
  BY <1>4 DEF QemuInv, QTyped, QDbRows
<1>6. qDb' \in QDbRows
  BY <1>2, <1>4 DEF QemuInv, QTyped, QDbRows
<1>7. QTyped'
  BY <1>1, <1>6 DEF QemuInv, QTyped
<1>8. \A d \in QClaims : QSame(d)
  <2> TAKE d \in QClaims
  <2>1. CASE d = c
    BY <2>1, <1>3, <1>5 DEF QSame, QemuInv, QTyped, QDbRows
  <2>2. CASE d # c
    BY <2>2, <1>5 DEF QSame, QemuInv, QTyped, QDbRows
  <2> QED
    BY <2>1, <2>2
<1>9. \A d \in qStatuses' : qDb.claim[d].result
  BY <1>1 DEF QemuInv, QClaimSound, QEnds, QTyped
<1>10. /\ qReport'.stage # "idle" => qReport'.claim \in QClaims /\ qDb.claim[qReport'.claim].result
       /\ qReport'.stage = "accepted" => qReport'.claim \in qStatuses'
  BY <1>1 DEF QemuInv, QReportsSound
<1> QED
  BY <1>1, <1>5, <1>7, <1>8, <1>9, <1>10, BooksKeep

\* The reporter's call, and steps that touch neither a claim nor a handler.
LEMMA QuietKeeps ==
  ASSUME QemuInv, UNCHANGED <<qDb, qCalls, qRecovers, qAttempts, hostVars>>,
         qReport' \in [claim : QClaims \cup {QNone}, stage : {"idle", "sent", "accepted", "refused"}],
         qStatuses' = qStatuses \/ \E c \in QClaims : qDb.claim[c].result /\ qStatuses' = qStatuses \cup {c},
         qReport'.stage # "idle" => qReport'.claim \in QClaims /\ qDb.claim[qReport'.claim].result,
         qReport'.stage = "accepted" => qReport'.claim \in qStatuses'
  PROVE  QemuInv'
<1>1. \A c \in qStatuses' : qDb.claim[c].result /\ c \in QClaims
  BY DEF QemuInv, QClaimSound, QEnds, QTyped
<1>2. QTyped'
  BY <1>1 DEF QemuInv, QTyped
<1>3. \A c \in QClaims : QSame(c)
  BY DEF QSame
<1> QED
  BY <1>1, <1>2, <1>3, BooksKeep

LEMMA ReporterKeeps ==
  ASSUME QemuInv, QemuReport \/ QemuStatus \/ QemuReportLost \/ QemuRetry \/ QemuEligibilityExpires
                  \/ \E e \in QEvents : QemuDrift(e)
  PROVE  QemuInv'
<1>1. /\ QReportsSound /\ qDb.outbox \in Seq(QClaims)
      /\ qReport \in [claim : QClaims \cup {QNone}, stage : {"idle", "sent", "accepted", "refused"}]
  BY DEF QemuInv, QTyped, QDbRows
<1>2. CASE QemuReport
  <2>1. qReport' = [claim |-> Head(qDb.outbox), stage |-> "sent"] /\ qDb.outbox # <<>>
    BY <1>2 DEF QemuReport
  <2>2. Head(qDb.outbox) \in QClaims /\ qDb.claim[Head(qDb.outbox)].result
    BY <1>1, <2>1 DEF QReportsSound
  <2>3. UNCHANGED <<qDb, qCalls, qRecovers, qAttempts, qStatuses, hostVars>>
    BY <1>2 DEF QemuReport
  <2> QED
    BY <2>1, <2>2, <2>3, QuietKeeps
<1>3. CASE QemuStatus
  <2>1. qReport.claim \in QClaims /\ qDb.claim[qReport.claim].result
    BY <1>1, <1>3 DEF QemuStatus, QReportsSound
  <2>2. UNCHANGED <<qDb, qCalls, qRecovers, qAttempts, hostVars>>
    BY <1>3 DEF QemuStatus
  <2>3. CASE qStatuses' = qStatuses \cup {qReport.claim} /\ qReport' = [qReport EXCEPT !.stage = "accepted"]
    <3>1. qReport'.claim = qReport.claim /\ qReport' \in [claim : QClaims \cup {QNone}, stage : {"idle", "sent", "accepted", "refused"}]
      BY <1>1, <2>3
    <3> QED
      BY <2>1, <2>2, <2>3, <3>1, QuietKeeps
  <2>4. CASE qReport' = [qReport EXCEPT !.stage = "refused"] /\ UNCHANGED qStatuses
    <3>1. /\ qReport'.claim = qReport.claim /\ qReport'.stage = "refused"
          /\ qReport' \in [claim : QClaims \cup {QNone}, stage : {"idle", "sent", "accepted", "refused"}]
      BY <1>1, <2>4
    <3> QED
      BY <2>1, <2>2, <2>4, <3>1, QuietKeeps
  <2> QED
    BY <1>3, <2>3, <2>4 DEF QemuStatus
<1>4. CASE QemuReportLost
  <2>1. qReport' = [claim |-> QNone, stage |-> "idle"] /\ UNCHANGED <<qDb, qCalls, qRecovers, qAttempts, qStatuses, hostVars>>
    BY <1>4 DEF QemuReportLost
  <2>2. qReport'.stage = "idle" /\ qReport' \in [claim : QClaims \cup {QNone}, stage : {"idle", "sent", "accepted", "refused"}]
    BY <2>1
  <2> QED
    BY <2>1, <2>2, QuietKeeps
<1>5. CASE QemuEligibilityExpires \/ QemuRetry \/ \E e \in QEvents : QemuDrift(e)
  <2>1. UNCHANGED <<qDb, qCalls, qRecovers, qReport, qAttempts, qStatuses, hostVars>>
    BY <1>5 DEF QemuEligibilityExpires, QemuRetry, QemuDrift
  <2>2. /\ qReport'.stage # "idle" => qReport'.claim \in QClaims /\ qDb.claim[qReport'.claim].result
        /\ qReport'.stage = "accepted" => qReport'.claim \in qStatuses'
    BY <1>1, <2>1 DEF QReportsSound
  <2> QED
    BY <1>1, <2>1, <2>2, QuietKeeps
<1> QED
  BY <1>2, <1>3, <1>4, <1>5

LEMMA RestartKeeps ==
  ASSUME QemuInv, QemuSchedulerRestarts
  PROVE  QemuInv'
<1>1. /\ qCalls' = {} /\ qRecovers' = {} /\ qReport' = [claim |-> QNone, stage |-> "idle"]
      /\ QHostEnds \/ UNCHANGED hostVars
      /\ UNCHANGED <<qDb, qAttempts, qStatuses>>
  BY DEF QemuSchedulerRestarts
<1>2. CASE QHostEnds
  <2>1. QTyped'
    BY <1>1, <1>2 DEF QemuInv, QTyped, QHostEnds, QStages
  <2>2. qReport'.stage = "idle"
    BY <1>1
  <2> QED
    BY <1>1, <1>2, <2>1, <2>2, HostEndKeeps
<1>3. CASE UNCHANGED hostVars
  BY <1>1, <1>3, FewerKeep
<1> QED
  BY <1>1, <1>2, <1>3

LEMMA LostCallKeeps ==
  ASSUME QemuInv, NEW k \in qCalls, QemuIssueLost(k)
  PROVE  QemuInv'
BY HandlerFailKeeps DEF QemuIssueLost

LEMMA LostRevocationKeeps ==
  ASSUME QemuInv, NEW k \in qRecovers, QemuRevokeLost(k)
  PROVE  QemuInv'
<1>1. UNCHANGED <<qDb, qAttempts, qStatuses, qReport>>
  BY DEF QemuRevokeLost
<1>2. CASE k.awaited
  <2>1. QHostFails(qCalls, qRecovers \ {k})
    BY <1>2 DEF QemuRevokeLost
  <2> QED
    BY <1>1, <2>1, HostFailKeeps
<1>3. CASE ~k.awaited
  BY <1>1, <1>3, FewerKeep DEF QemuRevokeLost
<1> QED
  BY <1>2, <1>3

\* Native Git's answer to an issuance.
LEMMA IssueKeeps ==
  ASSUME QemuInv, NEW k \in qCalls, QemuIssue(k)
  PROVE  QemuInv'
<1>1. k \in QCallRows /\ QCallSound(k)
  BY DEF QemuInv, QTyped, QHandlersSound
<1>2. PICK s \in {"issued", "rejected"} :
        /\ qCalls' = (qCalls \ {k}) \cup {[k EXCEPT !.stage = s]}
        /\ qAttempts' = qAttempts \/ qAttempts' = QSaved(k.claim, "current", k.event)
        /\ UNCHANGED qAttempts \/ QIssuable(k.claim, k.event)
        /\ UNCHANGED <<qDb, qEligible, qRecovers, qReport, qStatuses, qFresh, hostVars, qFaults>>
  BY DEF QemuIssue
<1> DEFINE n == [k EXCEPT !.stage = s]
<1>3. /\ n \in QCallRows /\ n.claim = k.claim /\ n.lane = k.lane /\ n.request = k.request
      /\ n.awaited = k.awaited
  BY <1>1 DEF QCallRows
<1> HIDE DEF n
<1>4. qAttempts' \in [QClaims -> [state : {"none", "current", "revoked"}, event : QEvents \cup {QNone}]]
  <2>1. k.claim \in QClaims /\ k.event \in QEvents
    BY <1>1 DEF QCallRows
  <2> QED
    BY <1>2, <2>1 DEF QSaved, QemuInv, QTyped
<1>5. \A c \in QClaims : /\ qAttempts[c].state = "current" => qAttempts'[c].state = "current"
                         /\ qAttempts[c].state = "revoked" => qAttempts'[c].state = "revoked"
  <2> TAKE c \in QClaims
  <2>1. CASE qAttempts' = qAttempts
    BY <2>1
  <2>2. CASE qAttempts' = QSaved(k.claim, "current", k.event) /\ QIssuable(k.claim, k.event)
    <3>1. qAttempts[k.claim].state # "revoked"
      BY <2>2 DEF QIssuable
    <3> QED
      BY <2>2, <3>1 DEF QSaved, QemuInv, QTyped
  <2> QED
    BY <1>2, <2>1, <2>2
<1>6. QTyped'
  BY <1>2, <1>3, <1>4 DEF QemuInv, QTyped, n
<1>7. \A c \in QClaims : QClaimSound(c)'
  BY <1>2, <1>5 DEF QemuInv, QClaimSound, QEnds, QUncontested, QOwned, QAssignedOnce, QJournaled, QAsks, QNames
<1>8. QLanesFenced' /\ QReportsSound'
  BY <1>2 DEF QemuInv, QLanesFenced, QRows, QReportsSound
<1>9. \A l \in QLanes : QJournalSound(l)'
  BY <1>2, <1>5 DEF QemuInv, QJournalSound, QAsks, QUncontested
<1>10. \A l \in QLanes : QWorkerSound(l)'
  BY <1>2, <1>5 DEF QemuInv, QWorkerSound, QRunnable, QNames, QUncontested, QRows
<1>11. QHandlersSound'
  <2>1. qCalls' = (qCalls \ {k}) \cup {n}
    BY <1>2 DEF n
  <2>2. \A m \in qCalls' : QCallSound(m)'
    BY <1>1, <1>2, <1>3, <2>1 DEF QemuInv, QHandlersSound, QCallSound, QAsks
  <2>3. \A m \in qRecovers' : QRecoverSound(m)'
    BY <1>2, <1>5 DEF QemuInv, QHandlersSound, QRecoverSound, QTyped, QRecoverRows
  <2>4. \A m, j \in qCalls' : m.awaited /\ j.awaited /\ m.lane = j.lane => m = j
    BY <1>3, <2>1 DEF QemuInv, QHandlersSound
  <2> QED
    BY <1>2, <2>2, <2>3, <2>4 DEF QemuInv, QHandlersSound
<1>12. \A c \in qVms' : QVmSound(c)'
  BY <1>2, <1>5 DEF QemuInv, QVmSound, QNames, QUncontested, QTyped
<1> QED
  BY <1>6, <1>7, <1>8, <1>9, <1>10, <1>11, <1>12 DEF QemuInv

\* Native Git revokes the attempt of a claim that nobody runs or reports any more.
LEMMA RevokeKeeps ==
  ASSUME QemuInv, NEW k \in qRecovers, QemuRevoke(k)
  PROVE  QemuInv'
<1>1. k \in QRecoverRows /\ QRecoverSound(k)
  BY DEF QemuInv, QTyped, QHandlersSound
<1> DEFINE n == [k EXCEPT !.stage = "revoked"]
<1>2. /\ qRecovers' = (qRecovers \ {k}) \cup {n}
      /\ qAttempts' = QSaved(k.claim, "revoked", qAttempts[k.claim].event)
      /\ UNCHANGED <<qDb, qEligible, qCalls, qReport, qStatuses, qFresh, hostVars, qFaults>>
  BY DEF QemuRevoke
<1>3. n \in QRecoverRows /\ n.claim = k.claim /\ n.lane = k.lane /\ n.awaited = k.awaited /\ n.stage = "revoked"
  BY <1>1 DEF QRecoverRows
<1> HIDE DEF n
<1>4. k.claim \in QClaims /\ ~QUncontested(k.claim)
  BY <1>1 DEF QRecoverRows, QUncontested
<1>5. /\ qAttempts' \in [QClaims -> [state : {"none", "current", "revoked"}, event : QEvents \cup {QNone}]]
      /\ qAttempts'[k.claim].state = "revoked"
      /\ \A c \in QClaims \ {k.claim} : qAttempts'[c] = qAttempts[c]
  BY <1>2, <1>4 DEF QSaved, QemuInv, QTyped
<1>6. \A c \in QClaims : QUncontested(c)' <=> QUncontested(c)
  BY <1>2, <1>3 DEF QUncontested
<1>7. QTyped'
  BY <1>2, <1>3, <1>5 DEF QemuInv, QTyped
<1>8. \A c \in QClaims : QClaimSound(c)'
  <2> TAKE c \in QClaims
  <2>1. QClaimSound(c)
    BY DEF QemuInv
  <2>2. QEnds(c)'
    BY <2>1, <1>2, <1>4, <1>5, <1>6 DEF QClaimSound, QEnds
  <2>3. QJournaled(c)' => QJournaled(c)
    BY <1>2, <1>6 DEF QJournaled, QNames
  <2> QED
    BY <2>1, <2>2, <2>3, <1>2 DEF QClaimSound, QOwned, QAssignedOnce, QAsks, QNames
<1>9. QLanesFenced' /\ QReportsSound'
  BY <1>2 DEF QemuInv, QLanesFenced, QRows, QReportsSound
<1>10. \A l \in QLanes : QJournalSound(l)'
  BY <1>2, <1>4, <1>5, <1>6 DEF QemuInv, QJournalSound, QAsks
<1>11. \A l \in QLanes : QWorkerSound(l)'
  <2> TAKE l \in QLanes
  <2>1. QWorkerSound(l)
    BY DEF QemuInv
  <2>2. qWorker[l] \in {"prepare", "running", "ran"} => qHeld[l] \in QClaims
    BY <2>1 DEF QWorkerSound, QRunnable
  <2> QED
    BY <2>1, <2>2, <1>2, <1>4, <1>5, <1>6 DEF QWorkerSound, QRunnable, QNames, QRows
<1>12. QHandlersSound'
  <2>1. \A m \in qRecovers' : QRecoverSound(m)'
    BY <1>1, <1>2, <1>3, <1>4, <1>5 DEF QemuInv, QHandlersSound, QRecoverSound, QTyped, QRecoverRows
  <2>2. \A m, j \in qRecovers' : m.awaited /\ j.awaited /\ m.lane = j.lane => m = j
    BY <1>2, <1>3 DEF QemuInv, QHandlersSound
  <2>3. \A m \in qCalls' : QCallSound(m)'
    BY <1>2 DEF QemuInv, QHandlersSound, QCallSound, QAsks
  <2> QED
    BY <1>2, <2>1, <2>2, <2>3 DEF QemuInv, QHandlersSound
<1>13. \A c \in qVms' : QVmSound(c)'
  <2> TAKE c \in qVms'
  <2>1. QVmSound(c) /\ c \in QClaims
    BY <1>2 DEF QemuInv, QTyped
  <2> QED
    BY <2>1, <1>2, <1>4, <1>5, <1>6 DEF QVmSound, QNames
<1> QED
  BY <1>7, <1>8, <1>9, <1>10, <1>11, <1>12, <1>13 DEF QemuInv

-----------------------------------------------------------------------------
(* Recovery, and a row that moves on.                                      *)

\* A recovery request: refused, already done, or a handler of its own.
LEMMA RecoveryKeeps ==
  ASSUME QemuInv, NEW l \in QLanes, QemuRecovery(l)
  PROVE  QemuInv'
<1> DEFINE c == qHeld[l]
           k == [lane |-> l, claim |-> c, stage |-> "revoking", awaited |-> TRUE]
<1>1. /\ qWorker[l] = "recover"
      /\ UNCHANGED <<qDb, qEligible, qReport, authorityVars, qFaults>>
  BY DEF QemuRecovery
<1>2. QWorkerSound(l) /\ QJournalSound(l)
  BY DEF QemuInv
<1>3. QNames(l, {"active"}, c) /\ c \in QClaims
  BY <1>1, <1>2 DEF QWorkerSound, QJournalSound, QNames
<1>4. CASE QHostFails(qCalls, qRecovers)
  BY <1>1, <1>4, HostFailKeeps
<1>5. CASE /\ qDb.claim[c].state = "completed"
           /\ qWorker' = [qWorker EXCEPT ![l] = "settled"]
           /\ UNCHANGED <<qRecovers, qJournal, qHeld, qVms, qCalls>>
  <2>1. QTyped'
    BY <1>1, <1>5 DEF QemuInv, QTyped, QStages
  <2>2. qWorker'[l] = "settled" /\ \A m \in QLanes \ {l} : qWorker'[m] = qWorker[m] /\ qHeld'[m] = qHeld[m]
    BY <1>5 DEF QemuInv, QTyped
  <2>3. QWorkerSound(l)'
    BY <1>1, <1>3, <1>5, <2>2 DEF QWorkerSound, QNames
  <2>4. \A d \in qVms' : d \in qVms /\ qDb.claim[d].lane # l
    BY <1>1, <1>5, VmsElsewhere
  <2> QED
    BY <1>1, <1>5, <2>1, <2>2, <2>3, <2>4, WorkerMoves
<1>6. CASE /\ QFinalizable(qDb, l, c) /\ ~qDb.claim[c].result /\ qDb.claim[c].state # "completed"
           /\ qWorker' = [qWorker EXCEPT ![l] = "recovering"]
           /\ qRecovers' = qRecovers \cup {k}
           /\ UNCHANGED <<qJournal, qHeld, qVms, qCalls>>
  <2>1. k \in QRecoverRows /\ k.lane = l /\ k.claim = c /\ k.stage = "revoking"
    BY <1>3 DEF QRecoverRows
  <2> HIDE DEF k
  <2>2. QTyped'
    BY <1>1, <1>6, <2>1 DEF QemuInv, QTyped, QStages
  <2>3. qWorker'[l] = "recovering" /\ \A m \in QLanes \ {l} : qWorker'[m] = qWorker[m]
    BY <1>6 DEF QemuInv, QTyped
  <2>4. qDb.claim[c].lane = l /\ qDb.claim[c].state = "active" /\ ~qDb.claim[c].result
    BY <1>6 DEF QFinalizable
  <2>5. \A d \in QClaims : d # c => (QUncontested(d)' <=> QUncontested(d))
    BY <1>6, <2>1 DEF QUncontested
  <2>6. \A d \in QClaims : QClaimSound(d)'
    <3> TAKE d \in QClaims
    <3>1. QClaimSound(d)
      BY DEF QemuInv
    <3>2. QEnds(d)'
      BY <3>1, <1>1, <2>4, <2>5 DEF QClaimSound, QEnds
    <3>3. QJournaled(d)' => QJournaled(d)
      BY <1>1, <1>3, <1>6, <2>5 DEF QJournaled, QNames
    <3> QED
      BY <3>1, <3>2, <3>3, <1>1, <1>6 DEF QClaimSound, QOwned, QAssignedOnce, QAsks, QNames
  <2>7. QLanesFenced' /\ QReportsSound'
    BY <1>1 DEF QemuInv, QLanesFenced, QRows, QReportsSound
  <2>8. \A m \in QLanes : QJournalSound(m)'
    <3> TAKE m \in QLanes
    <3>1. QJournalSound(m)
      BY DEF QemuInv
    <3>2. qJournal[m].kind = "result" => qJournal[m].claim \in QClaims /\ qJournal[m].claim # c
      BY <3>1, <1>3, <2>4 DEF QJournalSound, QNames
    <3> QED
      BY <3>1, <3>2, <1>1, <1>6, <2>5 DEF QJournalSound, QAsks
  <2>9. \A m \in QLanes : QWorkerSound(m)'
    <3> TAKE m \in QLanes
    <3>1. CASE m = l
      BY <3>1, <1>3, <1>6, <2>3 DEF QWorkerSound, QNames
    <3>2. CASE m # l
      <4>1. QWorkerSound(m)
        BY DEF QemuInv
      <4>2. qWorker[m] \in {"prepare", "running", "ran"} => qHeld[m] \in QClaims /\ qHeld[m] # c
        BY <4>1, <3>2, <2>4 DEF QWorkerSound, QRunnable
      <4> QED
        BY <4>1, <4>2, <3>2, <1>1, <1>6, <2>3, <2>5 DEF QWorkerSound, QRunnable, QNames, QRows
    <3> QED
      BY <3>1, <3>2
  <2>10. QHandlersSound'
    <3>1. \A m \in qCalls' : QCallSound(m)'
      BY <1>1, <1>6, <2>3 DEF QemuInv, QHandlersSound, QCallSound, QAsks, QTyped, QCallRows
    <3>2. \A m \in {k} : QRecoverSound(m)'
      BY <1>1, <1>6, <2>1, <2>3, <2>4 DEF QRecoverSound
    <3>3. \A m \in qRecovers : m.awaited => m.lane # l
      BY <1>1 DEF QemuInv, QHandlersSound, QRecoverSound
    <3>4. \A m \in qRecovers : QRecoverSound(m)'
      BY <3>3, <1>1, <1>6, <2>3 DEF QemuInv, QHandlersSound, QRecoverSound, QTyped, QRecoverRows
    <3> QED
      BY <3>1, <3>2, <3>3, <3>4, <1>6, <2>1 DEF QemuInv, QHandlersSound
  <2>11. \A d \in qVms' : QVmSound(d)'
    <3> TAKE d \in qVms'
    <3>1. d \in qVms /\ d \in QClaims /\ QVmSound(d) /\ QShape(qDb.claim[d]) /\ qDb.claim[d].lane # l
      BY <1>1, <1>6, VmsElsewhere DEF QemuInv, QTyped, QClaimSound
    <3>2. qDb.claim[d].lane \in QLanes \ {l} /\ d # c
      BY <3>1, <2>4 DEF QVmSound, QShape
    <3> QED
      BY <3>1, <3>2, <1>1, <1>6, <2>3, <2>5 DEF QVmSound, QNames
  <2> QED
    BY <2>2, <2>6, <2>7, <2>8, <2>9, <2>10, <2>11 DEF QemuInv
<1> QED
  BY <1>4, <1>5, <1>6 DEF QemuRecovery

\* One row moves on, and with it at most the worker who waits for that.
LEMMA RowKeeps ==
  ASSUME QemuInv, QTyped', NEW c \in QClaims, NEW lanes \in SUBSET QLanes,
         \A d \in QClaims \ {c} : qDb'.claim[d] = qDb.claim[d],
         qDb'.claim[c].lane = qDb.claim[c].lane, qDb'.claim[c].request = qDb.claim[c].request,
         qDb.claim[c].state # "free", qDb'.claim[c].state \in {"active", "completed"},
         qDb'.claim[c].state = "active" => qDb.claim[c].state \in {"reserved", "active"},
         qDb.claim[c].state = "completed" => qDb'.claim[c].state = "completed",
         qDb.claim[c].result => qDb'.claim[c].result,
         QClaimSound(c)',
         UNCHANGED <<qAttempts, qStatuses, qJournal, qVms>>, qDb.delivered \subseteq qDb'.delivered,
         qCalls' \subseteq qCalls, qRecovers' \subseteq qRecovers,
         \A k \in qRecovers' : k.claim = c => ~qDb'.claim[c].result,
         \A m \in QLanes \ lanes : qWorker'[m] = qWorker[m] /\ qHeld'[m] = qHeld[m],
         \A m \in lanes : QWorkerSound(m)',
         \A m \in QLanes \ lanes : qWorker[m] \in {"assigned", "prepare", "running", "ran"} => qHeld[m] # c,
         \A k \in qCalls' : k.awaited => k.lane \notin lanes,
         \A k \in qRecovers' : k.awaited => k.lane \notin lanes,
         c \notin qVms, \A d \in qVms : qDb.claim[d].lane \notin lanes,
         QReportsSound'
  PROVE  QemuInv'
<1>1. \A d \in QClaims : QUncontested(d) => QUncontested(d)'
  BY DEF QUncontested
<1>2. \A d \in QClaims : QClaimSound(d)'
  <2> TAKE d \in QClaims
  <2>1. CASE d = c
    BY <2>1
  <2>2. CASE d # c
    <3>1. QClaimSound(d) /\ qDb'.claim[d] = qDb.claim[d]
      BY <2>2 DEF QemuInv
    <3>2. QJournaled(d)' => QJournaled(d)
      BY <3>1, <1>1 DEF QJournaled, QNames
    <3> QED
      BY <3>1, <3>2, <1>1 DEF QClaimSound, QEnds, QOwned, QAssignedOnce, QAsks, QNames
  <2> QED
    BY <2>1, <2>2
<1>3. \A d \in QRows(qDb', {"reserved", "active"}) :
        /\ d \in QRows(qDb, {"reserved", "active"})
        /\ qDb'.claim[d].lane = qDb.claim[d].lane /\ qDb'.claim[d].request = qDb.claim[d].request
  BY DEF QRows
<1>4. QLanesFenced'
  BY <1>3 DEF QemuInv, QLanesFenced
<1>5. \A l \in QLanes : QJournalSound(l)'
  <2> TAKE l \in QLanes
  <2>1. QJournalSound(l)
    BY DEF QemuInv
  <2> QED
    BY <2>1, <1>1 DEF QJournalSound, QAsks
<1>6. \A m \in QLanes : QWorkerSound(m)'
  <2> TAKE m \in QLanes
  <2>1. CASE m \in lanes
    BY <2>1
  <2>2. CASE m \notin lanes
    <3>1. QWorkerSound(m) /\ QJournalSound(m) /\ qWorker'[m] = qWorker[m] /\ qHeld'[m] = qHeld[m]
      BY <2>2 DEF QemuInv
    <3>2. qWorker[m] \in {"assigned", "prepare", "running", "ran"} =>
            qHeld[m] \in QClaims /\ qDb'.claim[qHeld[m]] = qDb.claim[qHeld[m]]
      BY <3>1, <2>2 DEF QWorkerSound, QRunnable
    <3>3. qWorker[m] = "settled" =>
            qHeld[m] \in QClaims /\ (qDb'.claim[qHeld[m]].result \/ qDb'.claim[qHeld[m]].state = "completed")
      BY <3>1 DEF QWorkerSound, QJournalSound, QNames
    <3>4. qWorker[m] = "refused" =>
            \A d \in QRows(qDb', {"reserved", "active"}) : qDb'.claim[d].request # qJournal[m].request
      BY <3>1, <1>3 DEF QWorkerSound
    <3> QED
      BY <3>1, <3>2, <3>3, <3>4, <1>1 DEF QWorkerSound, QRunnable, QNames
  <2> QED
    BY <2>1, <2>2
<1>7. QHandlersSound'
  <2>1. \A k \in qCalls' : QCallSound(k)'
    <3> TAKE k \in qCalls'
    <3>1. k \in QCallRows /\ QCallSound(k)
      BY DEF QemuInv, QTyped, QHandlersSound
    <3> QED
      BY <3>1 DEF QCallSound, QAsks, QCallRows
  <2>2. \A k \in qRecovers' : QRecoverSound(k)'
    <3> TAKE k \in qRecovers'
    <3>1. k \in QRecoverRows /\ QRecoverSound(k)
      BY DEF QemuInv, QTyped, QHandlersSound
    <3> QED
      BY <3>1 DEF QRecoverSound, QRecoverRows
  <2> QED
    BY <2>1, <2>2 DEF QemuInv, QHandlersSound
<1>8. \A d \in qVms' : QVmSound(d)'
  <2> TAKE d \in qVms'
  <2>1. d \in QClaims \ {c} /\ QVmSound(d) /\ QShape(qDb.claim[d]) /\ qDb.claim[d].lane \notin lanes
    BY DEF QemuInv, QTyped, QClaimSound
  <2>2. qDb.claim[d].lane \in QLanes /\ qDb'.claim[d] = qDb.claim[d]
    BY <2>1 DEF QVmSound, QShape
  <2> QED
    BY <2>1, <2>2, <1>1 DEF QVmSound, QNames
<1> QED
  BY <1>2, <1>4, <1>5, <1>6, <1>7, <1>8 DEF QemuInv

\* What a row and its event become when the claim moves on.
QMoves(c, r, e, s, outbox, delivered) ==
  qDb' = [qDb EXCEPT !.claim[c] = r, !.event[e] = s, !.outbox = outbox, !.delivered = delivered]

LEMMA RowSet ==
  ASSUME QTyped
  PROVE  \A c \in QClaims, r \in QClaimRow, e \in QEvents, s \in QEventStates,
            outbox \in Seq(QClaims), delivered \in SUBSET QClaims :
           QMoves(c, r, e, s, outbox, delivered) =>
             /\ qDb' \in QDbRows /\ qDb'.claim[c] = r
             /\ \A d \in QClaims \ {c} : qDb'.claim[d] = qDb.claim[d]
             /\ qDb'.outbox = outbox /\ qDb'.delivered = delivered
<1> SUFFICES ASSUME NEW c \in QClaims, NEW r \in QClaimRow, NEW e \in QEvents, NEW s \in QEventStates,
                    NEW outbox \in Seq(QClaims), NEW delivered \in SUBSET QClaims,
                    QMoves(c, r, e, s, outbox, delivered)
             PROVE  /\ qDb' \in QDbRows /\ qDb'.claim[c] = r
                    /\ \A d \in QClaims \ {c} : qDb'.claim[d] = qDb.claim[d]
                    /\ qDb'.outbox = outbox /\ qDb'.delivered = delivered
  OBVIOUS
<1>1. [qDb.event EXCEPT ![e] = s] \in [QEvents -> QEventStates]
  BY DEF QTyped, QDbRows
<1>2. [qDb.claim EXCEPT ![c] = r] \in [QClaims -> QClaimRow]
  BY DEF QTyped, QDbRows
<1>3. qDb' = [qDb EXCEPT !.claim = [qDb.claim EXCEPT ![c] = r], !.event = [qDb.event EXCEPT ![e] = s],
                         !.outbox = outbox, !.delivered = delivered]
  BY DEF QTyped, QDbRows, QMoves
<1> DEFINE claims == [qDb.claim EXCEPT ![c] = r]
           events == [qDb.event EXCEPT ![e] = s]
<1>4. claims[c] = r /\ \A d \in QClaims \ {c} : claims[d] = qDb.claim[d]
  BY DEF QTyped, QDbRows
<1> HIDE DEF claims, events
<1>5. qDb' = [qDb EXCEPT !.claim = claims, !.event = events, !.outbox = outbox, !.delivered = delivered]
  BY <1>3 DEF claims, events
<1>6. qDb'.claim = claims /\ qDb'.outbox = outbox /\ qDb'.delivered = delivered /\ qDb' \in QDbRows
  BY <1>1, <1>2, <1>5 DEF QTyped, QDbRows, claims, events
<1> QED
  BY <1>4, <1>6

LEMMA RecoveredKeeps ==
  ASSUME QemuInv, NEW k \in qRecovers, QemuRecovered(k)
  PROVE  QemuInv'
<1> DEFINE c == k.claim
           r == [qDb.claim[c] EXCEPT !.state = "completed"]
           lanes == IF k.awaited THEN {k.lane} ELSE {}
<1>1. k \in QRecoverRows /\ QRecoverSound(k) /\ c \in QClaims /\ ~QUncontested(c)
  BY DEF QemuInv, QTyped, QHandlersSound, QRecoverRows, QUncontested
<1>2. /\ k.stage = "revoked" /\ qDb' = QRecover(qDb, c) /\ qRecovers' = qRecovers \ {k}
      /\ qWorker' = IF k.awaited THEN [qWorker EXCEPT ![k.lane] = "settled"] ELSE qWorker
      /\ UNCHANGED <<qJournal, qHeld, qVms, qEligible, qCalls, qReport, authorityVars, qFaults>>
  BY DEF QemuRecovered
<1>3. /\ r \in QClaimRow /\ r.state = "completed" /\ r.lane = qDb.claim[c].lane
      /\ r.request = qDb.claim[c].request /\ r.event = qDb.claim[c].event
      /\ r.result = qDb.claim[c].result /\ r.attempt = qDb.claim[c].attempt
  BY <1>1, RowTyped DEF QemuInv, QClaimRow
<1>4. QClaimSound(c) /\ QShape(qDb.claim[c])
  BY <1>1 DEF QemuInv, QClaimSound
<1>5. qDb.claim[c].state \in {"active", "completed"} /\ ~qDb.claim[c].result /\ qAttempts[c].state = "revoked"
  BY <1>1, <1>2 DEF QRecoverSound
<1>6. /\ qDb' \in QDbRows /\ qDb'.claim[c] = r
      /\ \A d \in QClaims \ {c} : qDb'.claim[d] = qDb.claim[d]
      /\ qDb'.outbox = qDb.outbox /\ qDb'.delivered = qDb.delivered
  <2>1. CASE qDb.claim[c].state = "completed"
    <3>1. qDb' = qDb
      BY <1>2, <2>1 DEF QRecover
    <3>2. r = qDb.claim[c]
      BY <2>1, <1>1, RowTyped DEF QemuInv, QClaimRow
    <3> QED
      BY <3>1, <3>2 DEF QemuInv, QTyped
  <2>2. CASE qDb.claim[c].state = "active"
    <3>1. qDb' = [qDb EXCEPT !.claim[c].state = "completed", !.event[qDb.claim[c].event] = "completed"]
      BY <1>2, <2>2 DEF QRecover
    <3>2. QMoves(c, r, qDb.claim[c].event, "completed", qDb.outbox, qDb.delivered)
      BY <3>1 DEF QemuInv, QTyped, QDbRows, QMoves
    <3>3. "completed" \in QEventStates
      BY DEF QEventStates
    <3>6. qDb.outbox \in Seq(QClaims)
      BY DEF QemuInv, QTyped, QDbRows
    <3>7. qDb.delivered \in SUBSET QClaims
      BY DEF QemuInv, QTyped, QDbRows
    <3>4. QTyped
      BY DEF QemuInv
    <3>9. qDb.claim[c].event \in QEvents
      BY <1>4, <2>2 DEF QShape
    <3>5. c \in QClaims
      BY <1>1
    <3>8. r \in QClaimRow
      BY <1>3
    <3> HIDE DEF r
    <3> QED
      BY <3>2, <3>3, <3>4, <3>5, <3>6, <3>7, <3>8, <3>9, RowSet
  <2> QED
    BY <1>5, <2>1, <2>2
<1> HIDE DEF r
<1>7. k.lane \in QLanes
  BY <1>1 DEF QRecoverRows
<1>8. QTyped'
  BY <1>2, <1>6, <1>7 DEF QemuInv, QTyped, QStages
<1>9. QClaimSound(c)'
  <2>1. QShape(qDb.claim[c])'
    BY <1>3, <1>4, <1>5, <1>6 DEF QShape
  <2>2. QEnds(c)' /\ QOwned(c)'
    BY <1>2, <1>3, <1>4, <1>5, <1>6 DEF QClaimSound, QEnds, QOwned
  <2>3. QAssignedOnce(c)'
    BY <1>1, <1>2, <1>3, <1>4, <1>6 DEF QClaimSound, QAssignedOnce, QJournaled, QAsks
  <2> QED
    BY <2>1, <2>2, <2>3 DEF QClaimSound
<1>10. \A m \in QLanes : qWorker[m] \in {"assigned", "prepare", "running", "ran"} => qHeld[m] # c
  <2> SUFFICES ASSUME NEW m \in QLanes, qWorker[m] \in {"assigned", "prepare", "running", "ran"}, qHeld[m] = c
               PROVE  FALSE
    OBVIOUS
  <2>1. QWorkerSound(m)
    BY DEF QemuInv
  <2>2. CASE qWorker[m] = "assigned"
    BY <2>1, <2>2, <1>1, <1>4 DEF QWorkerSound, QClaimSound, QAssignedOnce, QJournaled, QAsks
  <2>3. CASE qWorker[m] \in {"prepare", "running", "ran"}
    BY <2>1, <2>3, <1>1 DEF QWorkerSound
  <2> QED
    BY <2>2, <2>3
<1>11. lanes \in SUBSET QLanes /\ \A m \in QLanes \ lanes : qWorker'[m] = qWorker[m] /\ qHeld'[m] = qHeld[m]
  BY <1>2, <1>7 DEF QemuInv, QTyped
<1>12. \A m \in lanes : QWorkerSound(m)'
  <2> SUFFICES ASSUME k.awaited PROVE QWorkerSound(k.lane)'
    OBVIOUS
  <2>1. qWorker[k.lane] = "recovering" /\ qHeld[k.lane] = c
    BY <1>1 DEF QRecoverSound
  <2>2. QNames(k.lane, {"active"}, c)
    BY <2>1, <1>7 DEF QemuInv, QWorkerSound
  <2>3. qWorker'[k.lane] = "settled" /\ qHeld'[k.lane] = c /\ qDb'.claim[c].state = "completed"
    BY <2>1, <1>2, <1>3, <1>6, <1>7 DEF QemuInv, QTyped
  <2> QED
    BY <2>2, <2>3, <1>2 DEF QWorkerSound, QNames
<1>13. /\ \A m \in qCalls' : m.awaited => m.lane \notin lanes
       /\ \A m \in qRecovers' : m.awaited => m.lane \notin lanes
  <2> SUFFICES ASSUME k.awaited
               PROVE  /\ \A m \in qCalls' : m.awaited => m.lane # k.lane
                      /\ \A m \in qRecovers' : m.awaited => m.lane # k.lane
    OBVIOUS
  <2>1. qWorker[k.lane] = "recovering"
    BY <1>1 DEF QRecoverSound
  <2> QED
    BY <2>1, <1>2 DEF QemuInv, QHandlersSound, QCallSound
<1>14. c \notin qVms
  BY <1>1 DEF QemuInv, QVmSound
<1>15. \A d \in qVms : qDb.claim[d].lane \notin lanes
  <2> SUFFICES ASSUME k.awaited PROVE \A d \in qVms : qDb.claim[d].lane # k.lane
    OBVIOUS
  <2>1. qWorker[k.lane] = "recovering"
    BY <1>1 DEF QRecoverSound
  <2> QED
    BY <2>1, <1>7, VmsElsewhere
<1>16. QReportsSound'
  <2>1. \A i \in 1..Len(qDb'.outbox) : qDb'.outbox[i] \in QClaims
    BY <1>6 DEF QDbRows
  <2>2. \A d \in QClaims : qDb'.claim[d].result = qDb.claim[d].result
    BY <1>3, <1>6
  <2> QED
    BY <2>1, <2>2, <1>2, <1>6 DEF QemuInv, QReportsSound
<1> HIDE DEF lanes
<1>17. /\ qDb'.claim[c].lane = qDb.claim[c].lane /\ qDb'.claim[c].request = qDb.claim[c].request
       /\ qDb'.claim[c].state = "completed" /\ qDb'.claim[c].result = qDb.claim[c].result
       /\ qRecovers' \subseteq qRecovers /\ ~qDb'.claim[c].result
       /\ UNCHANGED <<qAttempts, qStatuses, qJournal, qVms, qCalls>>
  BY <1>2, <1>3, <1>5, <1>6
<1> HIDE DEF c
<1> QED
  BY <1>1, <1>5, <1>6, <1>8, <1>9, <1>10, <1>11, <1>12, <1>13, <1>14, <1>15, <1>16, <1>17, RowKeeps

LEMMA ActivateKeeps ==
  ASSUME QemuInv, NEW k \in qCalls, QemuActivate(k)
  PROVE  QemuInv'
<1> DEFINE c == k.claim
           r == [qDb.claim[c] EXCEPT !.state = "active", !.attempt = TRUE]
           lanes == IF k.awaited THEN {k.lane} ELSE {}
<1>1. k \in QCallRows /\ QCallSound(k) /\ c \in QClaims /\ k.lane \in QLanes
  BY DEF QemuInv, QTyped, QHandlersSound, QCallRows
<1>2. UNCHANGED <<qEligible, qReport, authorityVars, qFaults>>
  BY DEF QemuActivate
<1>3. CASE UNCHANGED qDb /\ QHandlerFails(k)
  BY <1>2, <1>3, HandlerFailKeeps
<1>4. CASE /\ QActivates(qDb, c) /\ qDb' = QActivate(qDb, c) /\ qCalls' = qCalls \ {k}
           /\ IF k.awaited THEN QAnswer(k.lane, c) ELSE UNCHANGED hostVars
           /\ UNCHANGED qRecovers
  <2>1. qDb.claim[c].state = "reserved"
    BY <1>4 DEF QActivates
  <2>2. /\ r \in QClaimRow /\ r.state = "active" /\ r.lane = qDb.claim[c].lane
        /\ r.request = qDb.claim[c].request /\ r.event = qDb.claim[c].event
        /\ r.result = qDb.claim[c].result /\ r.attempt = TRUE
    BY <1>1, RowTyped DEF QemuInv, QClaimRow
  <2>3. QClaimSound(c) /\ QShape(qDb.claim[c]) /\ ~qDb.claim[c].result
    BY <1>1, <2>1 DEF QemuInv, QClaimSound, QShape
  <2>4. /\ qDb' \in QDbRows /\ qDb'.claim[c] = r
        /\ \A d \in QClaims \ {c} : qDb'.claim[d] = qDb.claim[d]
        /\ qDb'.outbox = qDb.outbox /\ qDb'.delivered = qDb.delivered
    <3>1. qDb' = [qDb EXCEPT !.claim[c].state = "active", !.claim[c].attempt = TRUE,
                             !.event[qDb.claim[c].event] = "active"]
      BY <1>4 DEF QActivate
    <3>2. QMoves(c, r, qDb.claim[c].event, "active", qDb.outbox, qDb.delivered)
      BY <3>1, <1>1 DEF QemuInv, QTyped, QDbRows, QMoves
    <3>3. "active" \in QEventStates
      BY DEF QEventStates
    <3>6. qDb.outbox \in Seq(QClaims)
      BY DEF QemuInv, QTyped, QDbRows
    <3>7. qDb.delivered \in SUBSET QClaims
      BY DEF QemuInv, QTyped, QDbRows
    <3>4. QTyped
      BY DEF QemuInv
    <3>9. qDb.claim[c].event \in QEvents
      BY <2>1, <2>3 DEF QShape
    <3>5. c \in QClaims
      BY <1>1
    <3>8. r \in QClaimRow
      BY <2>2
    <3> HIDE DEF r
    <3> QED
      BY <3>2, <3>3, <3>4, <3>5, <3>6, <3>7, <3>8, <3>9, RowSet
  <2> HIDE DEF r
  <2>5. /\ qWorker' = IF k.awaited THEN [qWorker EXCEPT ![k.lane] = "assigned"] ELSE qWorker
        /\ qHeld' = IF k.awaited THEN [qHeld EXCEPT ![k.lane] = c] ELSE qHeld
        /\ UNCHANGED <<qJournal, qVms>>
    <3>1. c # QNone
      BY <1>1 DEF QClaims, QNone
    <3>2. CASE k.awaited
      BY <1>4, <3>1, <3>2 DEF QAnswer
    <3>3. CASE ~k.awaited
      BY <1>4, <3>3
    <3> QED
      BY <3>2, <3>3
  <2>6. QTyped'
    BY <1>1, <1>2, <1>4, <2>4, <2>5 DEF QemuInv, QTyped, QStages
  <2>7. QClaimSound(c)'
    <3>1. QShape(qDb.claim[c])'
      BY <2>1, <2>2, <2>3, <2>4 DEF QShape
    <3>2. QEnds(c)' /\ QOwned(c)'
      BY <1>2, <2>1, <2>2, <2>3, <2>4, <2>5 DEF QClaimSound, QEnds, QOwned, QAsks
    <3>3. QAssignedOnce(c)'
      BY <1>4, <2>1, <2>2, <2>3, <2>4, <2>5 DEF QClaimSound, QAssignedOnce, QJournaled, QAsks, QNames, QUncontested
    <3> QED
      BY <3>1, <3>2, <3>3 DEF QClaimSound
  <2>8. \A m \in QLanes : qWorker[m] \in {"assigned", "prepare", "running", "ran"} => qHeld[m] # c
    BY <2>1 DEF QemuInv, QWorkerSound, QRunnable
  <2>9. lanes \in SUBSET QLanes /\ \A m \in QLanes \ lanes : qWorker'[m] = qWorker[m] /\ qHeld'[m] = qHeld[m]
    BY <1>1, <2>5 DEF QemuInv, QTyped
  <2>10. k.awaited => qWorker[k.lane] = "claiming" /\ QAsks(k.lane, k.request)
    BY <1>1 DEF QCallSound
  <2>11. \A m \in lanes : QWorkerSound(m)'
    <3> SUFFICES ASSUME k.awaited PROVE QWorkerSound(k.lane)'
      OBVIOUS
    <3>1. qWorker'[k.lane] = "assigned" /\ qHeld'[k.lane] = c
      BY <1>1, <2>5 DEF QemuInv, QTyped
    <3>2. qDb'.claim[c].lane = k.lane /\ qDb'.claim[c].request = k.request /\ qDb'.claim[c].state = "active"
          /\ ~qDb'.claim[c].result
      BY <1>1, <2>1, <2>2, <2>3, <2>4 DEF QCallSound
    <3> QED
      BY <1>1, <2>5, <2>10, <3>1, <3>2 DEF QWorkerSound, QRunnable, QAsks
  <2>12. /\ \A m \in qCalls' : m.awaited => m.lane \notin lanes
         /\ \A m \in qRecovers' : m.awaited => m.lane \notin lanes
    <3> SUFFICES ASSUME k.awaited
                 PROVE  /\ \A m \in qCalls' : m.awaited => m.lane # k.lane
                        /\ \A m \in qRecovers' : m.awaited => m.lane # k.lane
      OBVIOUS
    <3> QED
      BY <2>10, <1>4 DEF QemuInv, QHandlersSound, QRecoverSound
  <2>13. c \notin qVms
    BY <2>1 DEF QemuInv, QVmSound
  <2>14. \A d \in qVms : qDb.claim[d].lane \notin lanes
    BY <1>1, <2>10, VmsElsewhere
  <2>15. QReportsSound'
    <3>1. \A i \in 1..Len(qDb'.outbox) : qDb'.outbox[i] \in QClaims
      BY <2>4 DEF QDbRows
    <3>2. \A d \in QClaims : qDb'.claim[d].result = qDb.claim[d].result
      BY <2>2, <2>4
    <3> QED
      BY <3>1, <3>2, <1>2, <2>4 DEF QemuInv, QReportsSound
  <2> HIDE DEF lanes
  <2>16. /\ qDb'.claim[c].lane = qDb.claim[c].lane /\ qDb'.claim[c].request = qDb.claim[c].request
         /\ qDb'.claim[c].state = "active" /\ qDb'.claim[c].result = qDb.claim[c].result
         /\ qCalls' \subseteq qCalls /\ ~qDb'.claim[c].result
         /\ UNCHANGED <<qAttempts, qStatuses, qJournal, qVms, qRecovers>>
    BY <1>2, <1>4, <2>2, <2>3, <2>4, <2>5
  <2> HIDE DEF c
  <2> QED
    BY <1>1, <2>1, <2>4, <2>6, <2>7, <2>8, <2>9, <2>11, <2>12, <2>13, <2>14, <2>15, <2>16, RowKeeps
<1> QED
  BY <1>3, <1>4 DEF QemuActivate

-----------------------------------------------------------------------------
(* Results and reports.                                                    *)

\* Removing a report leaves reports that were there.
LEMMA WithoutKeeps ==
  ASSUME NEW s \in Seq(QClaims), NEW c
  PROVE  /\ QWithout(s, c) \in Seq(QClaims)
         /\ \A i \in 1..Len(QWithout(s, c)) : \E j \in 1..Len(s) : QWithout(s, c)[i] = s[j]
<1>1. CASE ~\E i \in 1..Len(s) : s[i] = c
  <2>1. QWithout(s, c) = s
    BY <1>1 DEF QWithout
  <2> QED
    BY <2>1
<1>2. CASE \E i \in 1..Len(s) : s[i] = c
  <2> DEFINE i == CHOOSE j \in 1..Len(s) : s[j] = c
             a == SubSeq(s, 1, i - 1)
             b == SubSeq(s, i + 1, Len(s))
  <2>6. QWithout(s, c) = a \o b
    BY <1>2 DEF QWithout
  <2>7. i \in 1..Len(s) /\ Len(s) \in Nat
    <3>1. \E j : j \in 1..Len(s) /\ s[j] = c
      BY <1>2
    <3> QED
      BY <3>1
  <2> HIDE DEF i, a, b
  <2>1. i \in 1..Len(s) /\ QWithout(s, c) = a \o b /\ Len(s) \in Nat
    BY <2>6, <2>7
  <2> USE DEF a, b
  <2>2. a \in Seq(QClaims) /\ Len(a) = i - 1 /\ \A j \in 1..Len(a) : a[j] = s[j]
    BY <2>1, SubSeqProperties
  <2>3. b \in Seq(QClaims) /\ Len(b) = Len(s) - i /\ \A j \in 1..Len(b) : b[j] = s[i + j]
    BY <2>1, SubSeqProperties
  <2> HIDE DEF a, b
  <2>4. a \o b \in Seq(QClaims) /\ Len(a \o b) = Len(a) + Len(b)
        /\ \A j \in 1..Len(a) + Len(b) : (a \o b)[j] = IF j =< Len(a) THEN a[j] ELSE b[j - Len(a)]
    BY <2>2, <2>3, ConcatProperties
  <2>5. ASSUME NEW j \in 1..Len(a \o b) PROVE \E m \in 1..Len(s) : (a \o b)[j] = s[m]
    <3>1. CASE j =< Len(a)
      BY <3>1, <2>1, <2>2, <2>3, <2>4
    <3>2. CASE j > Len(a)
      <4>1. j - Len(a) \in 1..Len(b) /\ (a \o b)[j] = b[j - Len(a)]
        BY <3>2, <2>1, <2>2, <2>3, <2>4
      <4>2. b[j - Len(a)] = s[i + (j - Len(a))] /\ i + (j - Len(a)) \in 1..Len(s)
        BY <4>1, <2>1, <2>2, <2>3
      <4> QED
        BY <4>1, <4>2
    <3> QED
      BY <3>1, <3>2, <2>2, <2>3, <2>4
  <2> QED
    BY <2>1, <2>4, <2>5
<1> QED
  BY <1>1, <1>2

LEMMA ResultKeeps ==
  ASSUME QemuInv, NEW l \in QLanes, QemuResult(l)
  PROVE  QemuInv'
<1> DEFINE c == qHeld[l]
           r == [qDb.claim[c] EXCEPT !.result = TRUE]
<1>1. qWorker[l] = "report" /\ UNCHANGED <<qEligible, qReport, authorityVars, qFaults>>
  BY DEF QemuResult
<1>2. QWorkerSound(l) /\ QJournalSound(l)
  BY DEF QemuInv
<1>3. /\ QNames(l, {"result"}, c) /\ c \in QClaims /\ qDb.claim[c].lane = l
      /\ qAttempts[c].state = "current" /\ QUncontested(c)
  BY <1>1, <1>2 DEF QWorkerSound, QJournalSound, QNames
<1>4. \A d \in qVms : qDb.claim[d].lane # l
  BY <1>1, VmsElsewhere
<1>5. CASE QHostFails(qCalls, qRecovers) /\ UNCHANGED qDb
  BY <1>1, <1>5, HostFailKeeps
<1>6. CASE /\ QFinalizable(qDb, l, c) /\ ~(qDb.claim[c].state = "completed" /\ ~qDb.claim[c].result)
           /\ qDb' = QRecordResult(qDb, c)
           /\ qWorker' = [qWorker EXCEPT ![l] = "settled"]
           /\ UNCHANGED <<qJournal, qHeld, qVms, qCalls, qRecovers>>
  <2>1. qWorker'[l] = "settled" /\ \A m \in QLanes \ {l} : qWorker'[m] = qWorker[m] /\ qHeld'[m] = qHeld[m]
    BY <1>6 DEF QemuInv, QTyped
  <2>2. CASE qDb.claim[c].result
    <3>1. qDb' = qDb
      BY <1>6, <2>2 DEF QRecordResult
    <3>2. QTyped'
      BY <1>1, <1>6, <3>1 DEF QemuInv, QTyped, QStages
    <3>3. QWorkerSound(l)'
      BY <1>3, <1>6, <2>1, <2>2, <3>1 DEF QWorkerSound, QNames
    <3>4. \A d \in qVms' : d \in qVms /\ qDb.claim[d].lane # l
      BY <1>4, <1>6
    <3> QED
      BY <1>1, <1>6, <2>1, <3>1, <3>2, <3>3, <3>4, WorkerMoves
  <2>3. CASE ~qDb.claim[c].result
    <3>1. qDb.claim[c].state = "active"
      BY <1>6, <2>3 DEF QFinalizable
    <3>2. /\ r \in QClaimRow /\ r.state = "active" /\ r.lane = qDb.claim[c].lane
          /\ r.request = qDb.claim[c].request /\ r.event = qDb.claim[c].event
          /\ r.result = TRUE /\ r.attempt = qDb.claim[c].attempt
      BY <1>3, <3>1, RowTyped DEF QemuInv, QClaimRow
    <3>3. QClaimSound(c) /\ QShape(qDb.claim[c])
      BY <1>3 DEF QemuInv, QClaimSound
    <3>4. qDb.outbox \in Seq(QClaims) /\ qDb \in QDbRows
      BY DEF QemuInv, QTyped, QDbRows
    <3> DEFINE claims == [qDb.claim EXCEPT ![c] = r]
               outbox == Append(qDb.outbox, c)
    <3>5. /\ claims \in [QClaims -> QClaimRow] /\ claims[c] = r
          /\ \A d \in QClaims \ {c} : claims[d] = qDb.claim[d]
      BY <1>3, <3>2, <3>4 DEF QDbRows
    <3>6. /\ outbox \in Seq(QClaims) /\ Len(outbox) = Len(qDb.outbox) + 1 /\ outbox[Len(outbox)] = c
          /\ \A i \in 1..Len(qDb.outbox) : outbox[i] = qDb.outbox[i]
      BY <1>3, <3>4
    <3>7. qDb' = [qDb EXCEPT !.claim = claims, !.outbox = outbox]
      BY <1>6, <2>3, <3>4 DEF QRecordResult, QDbRows
    <3> HIDE DEF claims, outbox, r
    <3>8. qDb'.claim = claims /\ qDb'.outbox = outbox /\ qDb'.delivered = qDb.delivered /\ qDb' \in QDbRows
      BY <3>4, <3>5, <3>6, <3>7 DEF QDbRows
    <3>9. QTyped'
      BY <1>1, <1>6, <3>8 DEF QemuInv, QTyped, QStages
    <3>10. qDb'.claim[c] = r /\ \A d \in QClaims \ {c} : qDb'.claim[d] = qDb.claim[d]
      BY <3>5, <3>8
    <3>11. c' = c
      BY <1>6
    <3>12. \A d \in {c} : QClaimSound(d)'
      <4>1. \A d \in {c} : QShape(qDb.claim[d])'
        BY <3>1, <3>2, <3>3, <3>10 DEF QShape
      <4>2. \A d \in {c} : QEnds(d)' /\ QOwned(d)'
        BY <1>1, <1>3, <1>6, <3>1, <3>2, <3>3, <3>10 DEF QClaimSound, QEnds, QOwned, QUncontested
      <4>3. QJournaled(c)
        BY <1>3 DEF QJournaled, QNames
      <4>4. \A d \in {c} : QAssignedOnce(d)'
        BY <1>6, <3>2, <3>3, <3>10, <4>3 DEF QClaimSound, QAssignedOnce, QAsks
      <4> QED
        BY <4>1, <4>2, <4>4 DEF QClaimSound
    <3>13. \A m \in QLanes \ {l} : qWorker[m] \in {"assigned", "prepare", "running", "ran"} => qHeld[m] # c
      BY <1>3 DEF QemuInv, QWorkerSound, QRunnable
    <3>14. \A m \in {l} : QWorkerSound(m)'
      BY <1>3, <1>6, <2>1, <3>2, <3>10 DEF QWorkerSound, QNames
    <3>15. \A k \in qCalls' \cup qRecovers' : k.awaited => k.lane # l
      BY <1>1, <1>6 DEF QemuInv, QHandlersSound, QCallSound, QRecoverSound
    <3>16. \A k \in qRecovers' : k.claim # c
      BY <1>3, <1>6 DEF QUncontested
    <3>17. c \notin qVms
      BY <1>3, <1>4
    <3>18. QReportsSound'
      <4>1. \A d \in QClaims : qDb.claim[d].result => qDb'.claim[d].result
        BY <3>2, <3>10
      <4>2. ASSUME NEW i \in 1..Len(qDb'.outbox) PROVE qDb'.claim[qDb'.outbox[i]].result
        <5>1. CASE i = Len(outbox)
          BY <5>1, <3>2, <3>6, <3>8, <3>10
        <5>2. CASE i # Len(outbox)
          <6>1. i \in 1..Len(qDb.outbox) /\ outbox[i] = qDb.outbox[i] /\ qDb.outbox[i] \in QClaims
            BY <5>2, <3>4, <3>6, <3>8
          <6> QED
            BY <6>1, <4>1, <3>8 DEF QemuInv, QReportsSound
        <5> QED
          BY <5>1, <5>2
      <4> QED
        BY <1>1, <4>1, <4>2 DEF QemuInv, QReportsSound
    <3>19. /\ qDb'.claim[c].lane = qDb.claim[c].lane /\ qDb'.claim[c].request = qDb.claim[c].request
           /\ qDb'.claim[c].state = "active" /\ qDb'.claim[c].result
           /\ qDb'.delivered = qDb.delivered
           /\ UNCHANGED <<qAttempts, qStatuses, qJournal, qVms, qCalls, qRecovers>>
      BY <1>1, <1>6, <3>2, <3>8, <3>10
    <3>20. /\ \A k \in qCalls' : k.awaited => k.lane \notin {l}
           /\ \A k \in qRecovers' : k.awaited => k.lane \notin {l}
           /\ \A d \in qVms : qDb.claim[d].lane \notin {l}
      BY <1>4, <3>15
    <3>21. QClaimSound(c)'
      BY <3>11, <3>12
    <3> QED
      BY <1>3, <2>1, <3>1, <3>9, <3>10, <3>12, <3>13, <3>14, <3>16, <3>17, <3>18, <3>19, <3>20, RowKeeps
  <2> QED
    BY <2>2, <2>3
<1> QED
  BY <1>5, <1>6 DEF QemuResult

LEMMA ReportDoneKeeps ==
  ASSUME QemuInv, QemuReportDone
  PROVE  QemuInv'
<1> DEFINE r == [qDb.claim[qReport.claim] EXCEPT !.state = "completed"]
<1>1. /\ qReport.stage \in {"accepted", "refused"}
      /\ qReport' = [claim |-> QNone, stage |-> "idle"]
      /\ UNCHANGED <<qEligible, qCalls, qRecovers, authorityVars, hostVars, qFaults>>
  BY DEF QemuReportDone
<1>2. qReport.claim \in QClaims /\ qDb.claim[qReport.claim].result
  BY <1>1 DEF QemuInv, QReportsSound
<1>3. qReport'.stage = "idle" /\ qReport' \in [claim : QClaims \cup {QNone}, stage : {"idle", "sent", "accepted", "refused"}]
  BY <1>1
<1>4. CASE qDb' = qDb
  BY <1>1, <1>3, <1>4, QuietKeeps
<1>5. CASE /\ qReport.stage = "accepted" /\ qDb.claim[qReport.claim].state # "completed"
           /\ qDb' = QAcknowledge(qDb, qReport.claim)
  <2> SUFFICES ASSUME NEW c \in QClaims, c = qReport.claim PROVE QemuInv'
    BY <1>2
  <2>1. c \in qStatuses
    BY <1>5 DEF QemuInv, QReportsSound
  <2>2. QClaimSound(c) /\ QShape(qDb.claim[c]) /\ qDb.claim[c].state = "active" /\ qDb.claim[c].result
    <3>1. QClaimSound(c) /\ qDb.claim[c].state \in {"free", "reserved", "active", "completed"}
      BY RowTyped DEF QemuInv
    <3> QED
      BY <1>2, <1>5, <3>1 DEF QClaimSound, QShape
  <2>3. /\ r \in QClaimRow /\ r.state = "completed" /\ r.lane = qDb.claim[c].lane
        /\ r.request = qDb.claim[c].request /\ r.event = qDb.claim[c].event
        /\ r.result = TRUE /\ r.attempt = qDb.claim[c].attempt
    BY <2>2, RowTyped DEF QemuInv, QClaimRow
  <2>4. QWithout(qDb.outbox, c) \in Seq(QClaims) /\ qDb.delivered \cup {c} \in SUBSET QClaims
    BY WithoutKeeps DEF QemuInv, QTyped, QDbRows
  <2>5. QMoves(c, r, qDb.claim[c].event, "completed", QWithout(qDb.outbox, c), qDb.delivered \cup {c})
    BY <1>5 DEF QAcknowledge, QMoves, QemuInv, QTyped, QDbRows
  <2>6. QTyped /\ qDb.claim[c].event \in QEvents /\ "completed" \in QEventStates
    BY <2>2 DEF QemuInv, QShape, QEventStates
  <2> HIDE DEF r
  <2>7. /\ qDb' \in QDbRows /\ qDb'.claim[c] = r
        /\ \A d \in QClaims \ {c} : qDb'.claim[d] = qDb.claim[d]
        /\ qDb'.outbox = QWithout(qDb.outbox, c) /\ qDb'.delivered = qDb.delivered \cup {c}
    BY <2>3, <2>4, <2>5, <2>6, RowSet
  <2>8. QTyped'
    BY <1>1, <1>3, <2>7 DEF QemuInv, QTyped
  <2>9. QUncontested(c) /\ qAttempts[c].state = "current" /\ QJournaled(c)
    BY <2>2 DEF QClaimSound, QEnds, QJournaled
  <2>10. QClaimSound(c)'
    <3>1. QShape(qDb.claim[c])'
      BY <2>2, <2>3, <2>7 DEF QShape
    <3>2. QEnds(c)' /\ QOwned(c)'
      BY <1>1, <2>1, <2>2, <2>3, <2>7, <2>9 DEF QEnds, QOwned, QUncontested
    <3>3. QAssignedOnce(c)'
      BY <1>1, <2>2, <2>3, <2>7, <2>9 DEF QClaimSound, QAssignedOnce, QAsks
    <3> QED
      BY <3>1, <3>2, <3>3 DEF QClaimSound
  <2>11. \A m \in QLanes : qWorker[m] \in {"assigned", "prepare", "running", "ran"} => qHeld[m] # c
    BY <2>2 DEF QemuInv, QWorkerSound, QRunnable
  <2>12. c \notin qVms /\ \A k \in qRecovers' : k.claim # c
    BY <1>1, <2>2, <2>9 DEF QemuInv, QVmSound, QUncontested
  <2>13. QReportsSound'
    <3>4. qDb.outbox \in Seq(QClaims)
      BY DEF QemuInv, QTyped, QDbRows
    <3>5. \A i \in 1..Len(QWithout(qDb.outbox, c)) :
            \E j \in 1..Len(qDb.outbox) : QWithout(qDb.outbox, c)[i] = qDb.outbox[j]
      BY <3>4, WithoutKeeps
    <3>1. \A i \in 1..Len(qDb'.outbox) : \E j \in 1..Len(qDb.outbox) : qDb'.outbox[i] = qDb.outbox[j]
      BY <2>7, <3>5
    <3>2. \A d \in QClaims : qDb.claim[d].result => qDb'.claim[d].result
      BY <2>3, <2>7
    <3>3. \A j \in 1..Len(qDb.outbox) : qDb.outbox[j] \in QClaims /\ qDb.claim[qDb.outbox[j]].result
      BY DEF QemuInv, QTyped, QDbRows, QReportsSound
    <3> QED
      BY <1>3, <3>1, <3>2, <3>3 DEF QReportsSound
  <2>14. /\ qDb'.claim[c].lane = qDb.claim[c].lane /\ qDb'.claim[c].request = qDb.claim[c].request
         /\ qDb'.claim[c].state = "completed" /\ qDb'.claim[c].result
         /\ qDb.delivered \subseteq qDb'.delivered
         /\ UNCHANGED <<qAttempts, qStatuses, qJournal, qVms, qCalls, qRecovers, qWorker, qHeld>>
    BY <1>1, <2>3, <2>7
  <2> DEFINE lanes == {}
  <2>15. lanes \in SUBSET QLanes /\ lanes = {}
    OBVIOUS
  <2> HIDE DEF lanes
  <2>16. /\ \A m \in QLanes \ lanes : qWorker'[m] = qWorker[m] /\ qHeld'[m] = qHeld[m]
         /\ \A m \in QLanes \ lanes : qWorker[m] \in {"assigned", "prepare", "running", "ran"} => qHeld[m] # c
    BY <2>11, <2>14
  <2>17. /\ \A k \in qCalls' : k.awaited => k.lane \notin lanes
         /\ \A k \in qRecovers' : k.awaited => k.lane \notin lanes
         /\ \A d \in qVms : qDb.claim[d].lane \notin lanes
    BY <2>15
  <2>18. \A m \in lanes : QWorkerSound(m)'
    BY <2>15
  <2>19. qCalls' \subseteq qCalls /\ qRecovers' \subseteq qRecovers /\ QemuInv
    BY <2>14
  <2> QED
    BY <2>2, <2>7, <2>8, <2>10, <2>12, <2>13, <2>14, <2>15, <2>16, <2>17, <2>18, <2>19, RowKeeps
<1> QED
  BY <1>2, <1>4, <1>5 DEF QemuReportDone, QAcknowledge

-----------------------------------------------------------------------------
(* What reserve does to the store.                                         *)

\* A row that reserve leaves alone, or whose reservation ran out.
QKept(before, after, d) ==
  \/ after.claim[d] = before.claim[d]
  \/ before.claim[d].state = "reserved" /\ after.claim[d] = QFreeRow

\* The reports are as they were.
QSameReports(before, after) == after.outbox = before.outbox /\ after.delivered = before.delivered

LEMMA ExpireRows ==
  \A db \in QDbRows : /\ QExpire(db) \in QDbRows /\ QSameReports(db, QExpire(db))
                      /\ \A d \in QClaims : QKept(db, QExpire(db), d)
                      /\ \A d \in QClaims : QExpire(db).claim[d] =
                           IF db.claim[d].state = "reserved" /\ ~db.claim[d].lease THEN QFreeRow ELSE db.claim[d]
<1> SUFFICES ASSUME NEW db \in QDbRows
             PROVE  /\ QExpire(db) \in QDbRows /\ QSameReports(db, QExpire(db))
                    /\ \A d \in QClaims : QKept(db, QExpire(db), d)
                    /\ \A d \in QClaims : QExpire(db).claim[d] =
                         IF db.claim[d].state = "reserved" /\ ~db.claim[d].lease THEN QFreeRow ELSE db.claim[d]
  OBVIOUS
<1> DEFINE lapsed == {c \in QRows(db, {"reserved"}) : ~db.claim[c].lease}
           due == {db.claim[c].event : c \in lapsed}
           events == [e \in QEvents |-> IF e \in due THEN "queued" ELSE db.event[e]]
           claims == [c \in QClaims |-> IF c \in lapsed THEN QFreeRow ELSE db.claim[c]]
<1>1. QExpire(db) = [db EXCEPT !.event = events, !.claim = claims]
  BY DEF QExpire
<1>2. events \in [QEvents -> QEventStates]
  BY DEF QDbRows, QEventStates
<1>3. QFreeRow \in QClaimRow
  BY DEF QFreeRow, QClaimRow
<1>4. claims \in [QClaims -> QClaimRow]
  BY <1>3 DEF QDbRows
<1>5. \A d \in QClaims : claims[d] =
        IF db.claim[d].state = "reserved" /\ ~db.claim[d].lease THEN QFreeRow ELSE db.claim[d]
  BY DEF QRows
<1> HIDE DEF events, claims
<1>6. QExpire(db) \in QDbRows /\ QSameReports(db, QExpire(db)) /\ QExpire(db).claim = claims
  BY <1>1, <1>2, <1>4 DEF QDbRows, QSameReports
<1> QED
  BY <1>5, <1>6 DEF QKept

LEMMA OldestTyped ==
  \A db \in QDbRows : QOldest(db) \in QEvents \cup {QNone}
<1> SUFFICES ASSUME NEW db \in QDbRows PROVE QOldest(db) \in QEvents \cup {QNone}
  OBVIOUS
<1> DEFINE queued == {i \in 1..Len(db.order) : db.event[db.order[i]] = "queued"}
<1>1. CASE queued = {}
  BY <1>1 DEF QOldest
<1>2. CASE queued # {}
  <2>1. db.order \in Seq(QEvents) /\ Len(db.order) \in Nat
    BY DEF QDbRows
  <2>2. queued \in SUBSET Nat
    OBVIOUS
  <2> DEFINE i == CHOOSE i \in queued : \A j \in queued : i =< j
  <2>3. QOldest(db) = IF qEligible THEN db.order[i] ELSE QNone
    BY <1>2 DEF QOldest
  <2> HIDE DEF queued
  <2>4. \E x \in queued : \A y \in queued : x =< y
    BY <1>2, <2>2, LeastExists
  <2>5. i \in queued
    BY <2>4
  <2> HIDE DEF i
  <2>6. db.order[i] \in QEvents
    BY <2>1, <2>5 DEF queued
  <2> QED
    BY <2>3, <2>6
<1> QED
  BY <1>1, <1>2

\* What reserve answers: the reservation or claim the request already has, nothing,
\* or a new reservation.
QReplays(db, new, r) ==
  /\ new.claim \in QClaims /\ QKept(db, new.db, new.claim)
  /\ new.db.claim[new.claim].request = r /\ new.db.claim[new.claim].state \in {"reserved", "active"}
QDeclines(db, new, r) ==
  /\ new.claim = QNone
  /\ \/ \E d \in QClaims : db.claim[d].state = "completed" /\ db.claim[d].request = r
     \/ \A d \in QClaims : new.db.claim[d].state # "free" => new.db.claim[d].request # r
QTakes(db, new, l, r) ==
  /\ new.claim \in QUnused(QExpire(db))
  /\ new.db.claim[new.claim].state = "reserved" /\ new.db.claim[new.claim].event \in QEvents
  /\ new.db.claim[new.claim].lane = l /\ new.db.claim[new.claim].request = r
  /\ ~new.db.claim[new.claim].attempt /\ ~new.db.claim[new.claim].result
  /\ \A d \in QRows(new.db, {"reserved", "active"}) \ {new.claim} : new.db.claim[d].lane # l

LEMMA ReserveRows ==
  \A db \in QDbRows, l \in QLanes, r \in QRequests :
    QUnused(QExpire(db)) # {} =>
      /\ QReserve(db, l, r).db \in QDbRows /\ QSameReports(db, QReserve(db, l, r).db)
      /\ \A d \in QClaims \ {QReserve(db, l, r).claim} : QKept(db, QReserve(db, l, r).db, d)
      /\ \/ QReplays(db, QReserve(db, l, r), r)
         \/ QDeclines(db, QReserve(db, l, r), r)
         \/ QTakes(db, QReserve(db, l, r), l, r)
<1> SUFFICES ASSUME NEW db \in QDbRows, NEW l \in QLanes, NEW r \in QRequests, QUnused(QExpire(db)) # {}
             PROVE  /\ QReserve(db, l, r).db \in QDbRows /\ QSameReports(db, QReserve(db, l, r).db)
                    /\ \A d \in QClaims \ {QReserve(db, l, r).claim} : QKept(db, QReserve(db, l, r).db, d)
                    /\ \/ QReplays(db, QReserve(db, l, r), r)
                       \/ QDeclines(db, QReserve(db, l, r), r)
                       \/ QTakes(db, QReserve(db, l, r), l, r)
  OBVIOUS
<1> DEFINE after == QExpire(db)
           new == QReserve(db, l, r)
           replay == {c \in QRows(after, {"reserved", "active", "completed"}) : after.claim[c].request = r}
           fence == {c \in QRows(after, {"reserved", "active"}) : after.claim[c].lane = l}
           e == QOldest(after)
<1>1. /\ after \in QDbRows /\ QSameReports(db, after)
      /\ \A d \in QClaims : QKept(db, after, d)
  BY ExpireRows
<1>2. e \in QEvents \cup {QNone}
  BY <1>1, OldestTyped
<1>3. \A d \in QClaims : after.claim[d].state \in {"free", "reserved", "active", "completed"}
  BY <1>1 DEF QDbRows, QClaimRow
<1>4. CASE replay # {}
  <2> DEFINE c == CHOOSE x \in replay : TRUE
  <2>1. c \in replay
    BY <1>4
  <2>2. new = [db |-> after, claim |-> IF after.claim[c].state = "completed" THEN QNone ELSE c]
    BY <1>4 DEF QReserve
  <2> HIDE DEF c, after, new
  <2>3. /\ c \in QClaims /\ after.claim[c].request = r
        /\ after.claim[c].state \in {"reserved", "active", "completed"}
    BY <2>1 DEF QRows
  <2>4. CASE after.claim[c].state = "completed"
    <3>1. new.db = after /\ new.claim = QNone
      BY <2>2, <2>4
    <3>2. db.claim[c] = after.claim[c]
      BY <1>1, <2>3, <2>4 DEF QKept, QFreeRow
    <3>3. QDeclines(db, new, r)
      BY <2>3, <2>4, <3>1, <3>2 DEF QDeclines
    <3> QED
      BY <1>1, <3>1, <3>3 DEF new
  <2>5. CASE after.claim[c].state \in {"reserved", "active"}
    <3>1. new.db = after /\ new.claim = c
      BY <2>2, <2>5
    <3>2. QReplays(db, new, r)
      BY <1>1, <2>3, <2>5, <3>1 DEF QReplays
    <3> QED
      BY <1>1, <3>1, <3>2 DEF new
  <2> QED
    BY <2>3, <2>4, <2>5
<1>5. CASE replay = {} /\ (fence # {} \/ e = QNone)
  <2>1. new = [db |-> after, claim |-> QNone]
    BY <1>5 DEF QReserve
  <2>2. \A d \in QClaims : after.claim[d].state # "free" => after.claim[d].request # r
    BY <1>3, <1>5 DEF QRows
  <2> HIDE DEF after, new
  <2>3. new.db = after /\ new.claim = QNone
    BY <2>1
  <2>4. QDeclines(db, new, r)
    BY <2>2, <2>3 DEF QDeclines
  <2> QED
    BY <1>1, <2>3, <2>4 DEF new
<1>6. CASE replay = {} /\ fence = {} /\ e # QNone
  <2> DEFINE unused == QUnused(after)
             c == CHOOSE x \in unused : \A y \in unused : x =< y
             row == [QFreeRow EXCEPT !.state = "reserved", !.event = e, !.lane = l, !.request = r, !.lease = TRUE]
             events == [after.event EXCEPT ![e] = "reserved"]
             claims == [after.claim EXCEPT ![c] = row]
  <2>1. new = [db |-> [after EXCEPT !.event[e] = "reserved", !.claim[c] = row], claim |-> c]
    BY <1>6 DEF QReserve
  <2>2. \A d \in fence : FALSE
    BY <1>6
  <2>3. \A d \in QRows(after, {"reserved", "active"}) : after.claim[d].lane # l
    BY <2>2
  <2>4. unused # {} /\ unused \in SUBSET QClaims
    BY DEF QUnused
  <2>5. e \in QEvents
    BY <1>2, <1>6
  <2> HIDE DEF e
  <2>19. QFreeRow \in QClaimRow /\ ~QFreeRow.attempt /\ ~QFreeRow.result
    BY DEF QFreeRow, QClaimRow
  <2>6. /\ row.state = "reserved" /\ row.event = e /\ row.lane = l /\ row.request = r
        /\ ~row.attempt /\ ~row.result
    BY <2>19 DEF QClaimRow
  <2>7. row \in QClaimRow
    BY <2>5, <2>19 DEF QClaimRow
  <2> HIDE DEF unused, row, after, new
  <2>8. unused \in SUBSET Nat
    BY <2>4 DEF QClaims
  <2>9. \E x \in unused : \A y \in unused : x =< y
    BY <2>4, <2>8, LeastExists
  <2>10. c \in unused /\ c \in QClaims
    BY <2>4, <2>9
  <2> HIDE DEF c
  <2>11. events \in [QEvents -> QEventStates]
    BY <1>1, <2>5 DEF QDbRows, QEventStates
  <2>12. /\ claims \in [QClaims -> QClaimRow] /\ claims[c] = row
         /\ \A d \in QClaims \ {c} : claims[d] = after.claim[d]
    BY <1>1, <2>7, <2>10 DEF QDbRows
  <2>13. new.claim = c /\ new.db = [after EXCEPT !.event = events, !.claim = claims]
    BY <1>1, <2>1 DEF QDbRows
  <2> HIDE DEF events, claims
  <2>14. /\ new.db \in QDbRows /\ new.db.claim = claims /\ QSameReports(after, new.db)
    BY <1>1, <2>11, <2>12, <2>13 DEF QDbRows, QSameReports
  <2>15. \A d \in QClaims \ {new.claim} : QKept(db, new.db, d)
    BY <1>1, <2>12, <2>13, <2>14 DEF QKept
  <2>16. \A d \in QRows(new.db, {"reserved", "active"}) \ {new.claim} : new.db.claim[d].lane # l
    BY <2>3, <2>12, <2>13, <2>14 DEF QRows
  <2>17. new.claim \in QUnused(QExpire(db))
    BY <2>10, <2>13 DEF unused, after
  <2>18. QTakes(db, new, l, r)
    BY <2>5, <2>6, <2>12, <2>13, <2>14, <2>16, <2>17 DEF QTakes
  <2> QED
    BY <1>1, <2>14, <2>15, <2>18 DEF new, QSameReports
<1> QED
  BY <1>4, <1>5, <1>6

-----------------------------------------------------------------------------
(* A reservation keeps the invariant.                                      *)

\* A request still asked for has at most reservations and claims of its own capacity
\* that nobody journaled.
LEMMA AskedRows ==
  ASSUME QemuInv, NEW l \in QLanes, NEW r, QAsks(l, r)
  PROVE  \A d \in QClaims : qDb.claim[d].state # "free" /\ qDb.claim[d].request = r =>
           /\ qDb.claim[d].lane = l /\ qDb.claim[d].state \in {"reserved", "active"}
           /\ ~qDb.claim[d].result /\ qDb.claim[d].event \in QEvents
<1> SUFFICES ASSUME NEW d \in QClaims, qDb.claim[d].state # "free", qDb.claim[d].request = r
             PROVE  /\ qDb.claim[d].lane = l /\ qDb.claim[d].state \in {"reserved", "active"}
                    /\ ~qDb.claim[d].result /\ qDb.claim[d].event \in QEvents
  OBVIOUS
<1>1. QShape(qDb.claim[d]) /\ QOwned(d) /\ QAssignedOnce(d)
  BY DEF QemuInv, QClaimSound
<1>2. ~QJournaled(d)
  BY <1>1 DEF QAssignedOnce
<1>3. qDb.claim[d].state \in {"reserved", "active"} /\ ~qDb.claim[d].result
  BY <1>2, RowTyped DEF QemuInv, QJournaled
<1>4. qDb.claim[d].lane \in QLanes /\ qDb.claim[d].event \in QEvents
  BY <1>1 DEF QShape
<1>5. QAsks(qDb.claim[d].lane, r)
  BY <1>1, <1>2, <1>3, <1>4 DEF QOwned, QJournaled
<1>6. \A m \in QLanes : QAsks(m, r) => m = l
  BY DEF QemuInv, QJournalSound, QAsks
<1> QED
  BY <1>3, <1>4, <1>5, <1>6

\* What a new reservation of request r on capacity l is.
QFreshRow(after, n, l, r) ==
  /\ qDb.claim[n].state \in {"free", "reserved"} /\ qAttempts[n].state = "none"
  /\ \A k \in qCalls : k.claim # n
  /\ after.claim[n].state = "reserved" /\ after.claim[n].event \in QEvents
  /\ after.claim[n].lane = l /\ after.claim[n].request = r
  /\ ~after.claim[n].attempt /\ ~after.claim[n].result
  /\ \A d \in QRows(after, {"reserved", "active"}) \ {n} : after.claim[d].lane # l

LEMMA ReservesKeep ==
  ASSUME QemuInv, QTyped', NEW l \in QLanes, NEW r \in QRequests, QAsks(l, r),
         NEW n \in QClaims \cup {QNone},
         \A d \in QClaims \ {n} : QKept(qDb, qDb', d),
         n \in QClaims => QFreshRow(qDb', n, l, r),
         QSameReports(qDb, qDb'),
         UNCHANGED <<qReport, qAttempts, qStatuses, qJournal, qVms, qRecovers>>,
         \A m \in QLanes \ {l} : qWorker'[m] = qWorker[m] /\ qHeld'[m] = qHeld[m],
         \/ QWorkerSound(l)'
         \/ qWorker'[l] = qWorker[l] /\ qHeld'[l] = qHeld[l] /\ qWorker[l] # "refused",
         \A k \in qCalls' : QCallSound(k)' \/ (k \in qCalls /\ ~(k.awaited /\ k.lane = l)),
         \A k, m \in qCalls' : k.awaited /\ m.awaited /\ k.lane = m.lane => k = m
  PROVE  QemuInv'
<1>1. QFreeRow.state = "free" /\ ~QFreeRow.result /\ ~QFreeRow.attempt
  BY DEF QFreeRow
<1>2. \A d \in QClaims : QUncontested(d)' <=> QUncontested(d)
  BY DEF QUncontested
<1>3. \A d \in QClaims : qDb.claim[d].state \in {"active", "completed"} => qDb'.claim[d] = qDb.claim[d]
  <2> TAKE d \in QClaims
  <2>1. CASE d = n
    BY <2>1 DEF QFreshRow
  <2>2. CASE d # n
    BY <2>2 DEF QKept
  <2> QED
    BY <2>1, <2>2
<1>4. \A d \in QClaims : qDb.claim[d].result => qDb.claim[d].state \in {"active", "completed"}
  <2> TAKE d \in QClaims
  <2>1. QShape(qDb.claim[d])
    BY DEF QemuInv, QClaimSound
  <2> QED
    BY <2>1, RowTyped DEF QemuInv, QShape
<1>5. \A d \in QRows(qDb', {"reserved", "active"}) : d # n => d \in QRows(qDb, {"reserved", "active"}) /\ qDb'.claim[d] = qDb.claim[d]
  BY <1>1 DEF QRows, QKept
<1>6. \A m \in QLanes : QAsks(m, r) => m = l
  BY DEF QemuInv, QJournalSound, QAsks
<1>7. \A d \in QClaims : qDb.claim[d].state \in {"free", "reserved"} =>
        ~qDb.claim[d].result /\ d \notin qStatuses /\ QUncontested(d)
        /\ \A m \in QLanes : ~QNames(m, {"active", "result"}, d)
  <2> TAKE d \in QClaims
  <2>1. QClaimSound(d)
    BY DEF QemuInv
  <2>2. qDb.claim[d].state \in {"free", "reserved"} => \A k \in qRecovers : k.claim # d
    BY DEF QemuInv, QHandlersSound, QRecoverSound
  <2>3. qDb.claim[d].state \in {"free", "reserved"} => \A m \in QLanes : ~QNames(m, {"active", "result"}, d)
    BY DEF QemuInv, QJournalSound, QNames
  <2> QED
    BY <2>1, <2>2, <2>3 DEF QClaimSound, QShape, QEnds, QUncontested
<1>8. \A d \in QClaims : QClaimSound(d)'
  <2> TAKE d \in QClaims
  <2>1. CASE d = n
    <3>1. QFreshRow(qDb', d, l, r) /\ l \in QLanes /\ r \in QRequests
      BY <2>1
    <3>2. ~qDb.claim[d].result /\ d \notin qStatuses /\ QUncontested(d)
          /\ \A m \in QLanes : ~QNames(m, {"active", "result"}, d)
      BY <3>1, <1>7 DEF QFreshRow
    <3>3. QShape(qDb.claim[d])' /\ QEnds(d)'
      BY <3>1, <3>2 DEF QFreshRow, QShape, QEnds
    <3>4. QOwned(d)'
      BY <3>1 DEF QFreshRow, QOwned, QAsks
    <3>5. ~QJournaled(d)'
      BY <3>1, <3>2, <1>2 DEF QFreshRow, QJournaled, QNames
    <3> QED
      BY <3>3, <3>4, <3>5 DEF QClaimSound, QAssignedOnce
  <2>2. CASE d # n /\ qDb'.claim[d] = qDb.claim[d]
    <3>1. QClaimSound(d)
      BY DEF QemuInv
    <3>2. QEnds(d)' /\ QOwned(d)'
      BY <2>2, <3>1, <1>2 DEF QClaimSound, QEnds, QOwned, QAsks, QNames, QSameReports
    <3>3. QAssignedOnce(d)'
      BY <2>2, <3>1, <1>2 DEF QClaimSound, QAssignedOnce, QAsks, QJournaled, QNames
    <3> QED
      BY <2>2, <3>1, <3>2, <3>3 DEF QClaimSound
  <2>3. CASE d # n /\ qDb.claim[d].state = "reserved" /\ qDb'.claim[d] = QFreeRow
    <3>2. ~qDb.claim[d].result /\ d \notin qStatuses /\ QUncontested(d)
          /\ \A m \in QLanes : ~QNames(m, {"active", "result"}, d)
      BY <2>3, <1>7
    <3>3. QShape(qDb.claim[d])' /\ QEnds(d)' /\ QOwned(d)'
      BY <2>3, <3>2, <1>1 DEF QShape, QEnds, QOwned
    <3>5. ~QJournaled(d)'
      BY <2>3, <3>2, <1>1, <1>2 DEF QJournaled, QNames
    <3> QED
      BY <3>3, <3>5 DEF QClaimSound, QAssignedOnce
  <2> QED
    BY <2>1, <2>2, <2>3 DEF QKept
<1>9. QLanesFenced'
  <2> SUFFICES ASSUME NEW c \in QRows(qDb', {"reserved", "active"}), NEW d \in QRows(qDb', {"reserved", "active"}),
                      qDb'.claim[c].lane = qDb'.claim[d].lane
               PROVE  c = d
    BY DEF QLanesFenced
  <2>1. CASE c # n /\ d # n
    BY <2>1, <1>5 DEF QemuInv, QLanesFenced
  <2>2. CASE c = n /\ d # n
    BY <2>2 DEF QFreshRow, QRows
  <2>3. CASE d = n /\ c # n
    BY <2>3 DEF QFreshRow, QRows
  <2> QED
    BY <2>1, <2>2, <2>3
<1>10. \A m \in QLanes : QJournalSound(m)'
  BY <1>2, <1>3 DEF QemuInv, QJournalSound, QAsks
<1>11. ASSUME NEW m \in QLanes, qWorker'[m] = qWorker[m], qHeld'[m] = qHeld[m], m # l \/ qWorker[m] # "refused"
       PROVE  QWorkerSound(m)'
  <2>1. QWorkerSound(m) /\ QJournalSound(m)
    BY DEF QemuInv
  <2>2. QRunnable(m) => QRunnable(m)'
    BY <1>3, <1>11 DEF QRunnable
  <2>3. qWorker[m] = "assigned" => qHeld[m] \in QClaims /\ qDb'.claim[qHeld[m]] = qDb.claim[qHeld[m]]
    BY <2>1, <1>3 DEF QWorkerSound, QRunnable
  <2>4. qWorker[m] = "settled" => qHeld[m] \in QClaims /\ qDb'.claim[qHeld[m]] = qDb.claim[qHeld[m]]
    BY <2>1, <1>3 DEF QWorkerSound, QJournalSound, QNames
  <2>5. qWorker[m] = "refused" =>
          \A d \in QRows(qDb', {"reserved", "active"}) : qDb'.claim[d].request # qJournal[m].request
    <3> SUFFICES ASSUME qWorker[m] = "refused", NEW d \in QRows(qDb', {"reserved", "active"})
                 PROVE  qDb'.claim[d].request # qJournal[m].request
      OBVIOUS
    <3>1. CASE d # n
      BY <3>1, <2>1, <1>5 DEF QWorkerSound
    <3>2. CASE d = n
      BY <3>2, <2>1, <1>6, <1>11 DEF QWorkerSound, QFreshRow, QAsks, QRows
    <3> QED
      BY <3>1, <3>2
  <2>6. qWorker[m] \in {"prepare", "running", "ran"} => (QUncontested(qHeld[m]))'
    BY <2>1, <1>2, <1>11 DEF QWorkerSound, QRunnable
  <2> QED
    BY <2>1, <2>2, <2>3, <2>4, <2>5, <2>6, <1>11 DEF QWorkerSound, QNames
<1>12. \A m \in QLanes : QWorkerSound(m)'
  <2> TAKE m \in QLanes
  <2>1. CASE m # l
    BY <2>1, <1>11
  <2>2. CASE m = l /\ QWorkerSound(l)'
    BY <2>2
  <2>3. CASE m = l /\ qWorker'[l] = qWorker[l] /\ qHeld'[l] = qHeld[l] /\ qWorker[l] # "refused"
    BY <2>3, <1>11
  <2> QED
    BY <2>1, <2>2, <2>3
<1>13. QHandlersSound'
  <2>1. \A k \in qCalls' : QCallSound(k)'
    <3> SUFFICES ASSUME NEW k \in qCalls', k \in qCalls, ~(k.awaited /\ k.lane = l) PROVE QCallSound(k)'
      OBVIOUS
    <3>1. QCallSound(k) /\ k \in QCallRows /\ k.claim # n
      BY DEF QemuInv, QTyped, QHandlersSound, QFreshRow, QCallRows
    <3>2. k.claim \in QClaims /\ k.lane \in QLanes
      BY <3>1 DEF QCallRows
    <3>3. QKept(qDb, qDb', k.claim)
      BY <3>1, <3>2
    <3> QED
      BY <3>1, <3>2, <3>3, <1>1 DEF QCallSound, QKept, QAsks
  <2>2. \A k \in qRecovers' : QRecoverSound(k)'
    <3> TAKE k \in qRecovers'
    <3>1. QRecoverSound(k) /\ k \in QRecoverRows
      BY DEF QemuInv, QTyped, QHandlersSound
    <3>2. k.claim \in QClaims /\ k.lane \in QLanes
      BY <3>1 DEF QRecoverRows
    <3>3. k.awaited => k.lane # l
      BY <3>1, <3>2 DEF QemuInv, QRecoverSound, QWorkerSound, QNames, QAsks
    <3> QED
      BY <3>1, <3>2, <3>3, <1>3 DEF QRecoverSound
  <2> QED
    BY <2>1, <2>2 DEF QemuInv, QHandlersSound
<1>14. \A c \in qVms : qDb.claim[c].lane # l
  BY VmsElsewhere DEF QAsks
<1>15. \A c \in qVms' : QVmSound(c)'
  <2> TAKE c \in qVms'
  <2>1. c \in QClaims /\ QVmSound(c) /\ QShape(qDb.claim[c]) /\ qDb.claim[c].lane # l
    BY <1>14 DEF QemuInv, QTyped, QClaimSound
  <2>2. qDb.claim[c].lane \in QLanes /\ qDb'.claim[c] = qDb.claim[c]
    BY <2>1, <1>3 DEF QVmSound, QShape
  <2> QED
    BY <2>1, <2>2, <1>2 DEF QVmSound, QNames
<1>16. QReportsSound'
  <2>1. \A d \in QClaims : qDb.claim[d].result => qDb'.claim[d].result
    BY <1>3, <1>4
  <2>2. \A i \in 1..Len(qDb.outbox) : qDb.outbox[i] \in QClaims
    BY DEF QemuInv, QTyped, QDbRows
  <2> QED
    BY <2>1, <2>2 DEF QemuInv, QReportsSound, QSameReports
<1> QED
  BY <1>8, <1>9, <1>10, <1>12, <1>13, <1>15, <1>16 DEF QemuInv

LEMMA KeptTwice ==
  ASSUME NEW d \in QClaims
  PROVE  \A a, b, c \in QDbRows : QKept(a, b, d) /\ QKept(b, c, d) => QKept(a, c, d)
BY DEF QKept, QFreeRow

\* What reserve gives a request that is still asked for, after rows of the store were
\* at most freed.
QGrants(new, l, r) ==
  /\ new.db \in QDbRows /\ QSameReports(qDb, new.db)
  /\ \/ /\ new.claim = QNone /\ \A d \in QClaims : QKept(qDb, new.db, d)
        /\ \A d \in QClaims : new.db.claim[d].state # "free" => new.db.claim[d].request # r
     \/ /\ new.claim \in QClaims
        /\ new.db.claim[new.claim].lane = l /\ new.db.claim[new.claim].request = r
        /\ new.db.claim[new.claim].event \in QEvents
        /\ \A d \in QClaims \ {new.claim} : QKept(qDb, new.db, d)
        /\ QKept(qDb, new.db, new.claim) \/ QFreshRow(new.db, new.claim, l, r)

LEMMA AskedReserve ==
  ASSUME QemuInv, NEW l \in QLanes, NEW r \in QRequests, QAsks(l, r)
  PROVE  \A db \in QDbRows :
           /\ QSameReports(qDb, db) /\ \A d \in QClaims : QKept(qDb, db, d)
           /\ QUnused(QExpire(db)) # {}
           => QGrants(QReserve(db, l, r), l, r)
<1> SUFFICES ASSUME NEW db \in QDbRows, QSameReports(qDb, db), \A d \in QClaims : QKept(qDb, db, d),
                    QUnused(QExpire(db)) # {}
             PROVE  QGrants(QReserve(db, l, r), l, r)
  OBVIOUS
<1> DEFINE new == QReserve(db, l, r)
<1>1. /\ new.db \in QDbRows /\ QSameReports(db, new.db)
      /\ \A d \in QClaims \ {new.claim} : QKept(db, new.db, d)
      /\ QReplays(db, new, r) \/ QDeclines(db, new, r) \/ QTakes(db, new, l, r)
  BY ReserveRows
<1>2. QExpire(db) \in QDbRows /\ \A d \in QClaims : QKept(db, QExpire(db), d)
  BY ExpireRows
<1>3. qDb \in QDbRows
  BY DEF QemuInv, QTyped
<1> HIDE DEF new
<1>4. QSameReports(qDb, new.db)
  BY <1>1 DEF QSameReports
<1>5. \A d \in QClaims \ {new.claim} : QKept(qDb, new.db, d)
  BY <1>1, <1>3, KeptTwice
<1>6. QFreeRow.state = "free"
  BY DEF QFreeRow
<1>7. \A d \in QClaims : qDb.claim[d].state # "free" /\ qDb.claim[d].request = r =>
           /\ qDb.claim[d].lane = l /\ qDb.claim[d].state \in {"reserved", "active"}
           /\ ~qDb.claim[d].result /\ qDb.claim[d].event \in QEvents
  BY AskedRows
<1>8. CASE QReplays(db, new, r)
  <2>1. new.claim \in QClaims /\ QKept(qDb, new.db, new.claim)
    BY <1>1, <1>3, <1>8, KeptTwice DEF QReplays
  <2>2. new.db.claim[new.claim] = qDb.claim[new.claim]
    BY <1>6, <1>8, <2>1 DEF QKept, QReplays
  <2>3. new.db.claim[new.claim].request = r /\ new.db.claim[new.claim].state # "free"
    BY <1>8 DEF QReplays
  <2> QED
    BY <1>1, <1>4, <1>5, <1>7, <2>1, <2>2, <2>3 DEF QGrants, new
<1>9. CASE QDeclines(db, new, r)
  <2>1. new.claim = QNone
    BY <1>9 DEF QDeclines
  <2>2. \A d \in QClaims : d # QNone
    BY DEF QClaims, QNone
  <2>3. ~\E d \in QClaims : db.claim[d].state = "completed" /\ db.claim[d].request = r
    BY <1>6, <1>7 DEF QKept
  <2>4. \A d \in QClaims : new.db.claim[d].state # "free" => new.db.claim[d].request # r
    BY <1>9, <2>3 DEF QDeclines
  <2> QED
    BY <1>1, <1>4, <1>5, <2>1, <2>2, <2>4 DEF QGrants, new
<1>10. CASE QTakes(db, new, l, r)
  <2>1. /\ new.claim \in QClaims /\ QExpire(db).claim[new.claim].state = "free"
        /\ qAttempts[new.claim].state = "none" /\ \A k \in qCalls : k.claim # new.claim
    BY <1>10 DEF QTakes, QUnused
  <2>2. QKept(qDb, QExpire(db), new.claim)
    BY <1>2, <1>3, <2>1, KeptTwice
  <2>3. qDb.claim[new.claim].state \in {"free", "reserved"}
    BY <2>1, <2>2 DEF QKept
  <2>4. QFreshRow(new.db, new.claim, l, r)
    BY <1>10, <2>1, <2>3 DEF QTakes, QFreshRow
  <2> QED
    BY <1>1, <1>4, <1>5, <1>10, <2>1, <2>4 DEF QGrants, QTakes, new
<1> QED
  BY <1>1, <1>8, <1>9, <1>10

LEMMA ClaimKeeps ==
  ASSUME QemuInv, NEW l \in QLanes, QemuClaim(l)
  PROVE  QemuInv'
<1>1. /\ qWorker[l] = "idle" /\ qJournal[l].kind = "claim" /\ QUnused(QExpire(qDb)) # {}
      /\ UNCHANGED <<qEligible, qRecovers, qReport, authorityVars, qFaults>>
  BY DEF QemuClaim
<1>2. qJournal[l].request \in QRequests /\ QAsks(l, qJournal[l].request)
  BY <1>1 DEF QemuInv, QJournalSound, QAsks
<1> SUFFICES ASSUME NEW r \in QRequests, r = qJournal[l].request PROVE QemuInv'
  BY <1>2
<1>3. QTyped /\ qDb \in QDbRows /\ \A d \in QClaims : d # QNone
  BY DEF QemuInv, QTyped, QClaims, QNone
<1>4. \A d \in QClaims : qDb.claim[d].state # "free" /\ qDb.claim[d].request = r =>
           /\ qDb.claim[d].lane = l /\ qDb.claim[d].state \in {"reserved", "active"}
           /\ ~qDb.claim[d].result /\ qDb.claim[d].event \in QEvents
  BY <1>2, AskedRows
<1>5. \A k \in qCalls : ~(k.awaited /\ k.lane = l)
  BY <1>1 DEF QemuInv, QHandlersSound, QCallSound
<1>6. CASE QAssigned(qDb, l, r) # {}
  <2>1. \E c \in QAssigned(qDb, l, r) : QAnswer(l, c) /\ UNCHANGED <<qDb, qCalls>>
    <3> DEFINE c == CHOOSE c \in QAssigned(qDb, l, r) : TRUE
    <3>1. c \in QAssigned(qDb, l, r)
      BY <1>6
    <3>2. QAnswer(l, c) /\ UNCHANGED <<qDb, qCalls>>
      BY <1>6 DEF QemuClaim
    <3> HIDE DEF c
    <3> QED
      BY <3>1, <3>2
  <2>2. PICK c \in QAssigned(qDb, l, r) : QAnswer(l, c) /\ UNCHANGED <<qDb, qCalls>>
    BY <2>1
  <2>3. c \in QClaims /\ qDb.claim[c].state = "active" /\ qDb.claim[c].request = r /\ qDb.claim[c].lane = l
    BY DEF QAssigned, QRows
  <2>4. ~qDb.claim[c].result /\ c # QNone
    BY <1>3, <1>4, <2>3
  <2>5. /\ qHeld' = [qHeld EXCEPT ![l] = c] /\ qWorker' = [qWorker EXCEPT ![l] = "assigned"]
        /\ UNCHANGED <<qJournal, qVms>>
    BY <2>2, <2>4 DEF QAnswer
  <2>6. QTyped'
    BY <1>1, <1>3, <2>2, <2>3, <2>5 DEF QTyped, QStages
  <2>7. /\ qHeld'[l] = c /\ qWorker'[l] = "assigned"
        /\ \A m \in QLanes \ {l} : qWorker'[m] = qWorker[m] /\ qHeld'[m] = qHeld[m]
    BY <1>3, <2>5 DEF QTyped
  <2>8. QWorkerSound(l)'
    BY <1>1, <2>2, <2>3, <2>4, <2>5, <2>7 DEF QWorkerSound, QRunnable
  <2>9. \A d \in qVms' : d \in qVms /\ qDb.claim[d].lane # l
    BY <1>1, <2>5, VmsElsewhere
  <2> QED
    BY <1>1, <2>2, <2>5, <2>6, <2>7, <2>8, <2>9, WorkerMoves
<1>7. CASE QAssigned(qDb, l, r) = {}
  <2> DEFINE new == QReserve(qDb, l, r)
  <2>1. qDb' = new.db
    BY <1>7 DEF QemuClaim
  <2>2. \/ new.claim = QNone /\ QAnswer(l, QNone) /\ UNCHANGED qCalls
        \/ /\ new.claim # QNone
           /\ qCalls' = qCalls \cup {[lane |-> l, request |-> r, claim |-> new.claim,
                          event |-> new.db.claim[new.claim].event, stage |-> "issuing", awaited |-> TRUE]}
           /\ qWorker' = [qWorker EXCEPT ![l] = "claiming"]
           /\ UNCHANGED <<qJournal, qHeld, qVms>>
    BY <1>7 DEF QemuClaim
  <2>3. QGrants(new, l, r)
    <3>1. QSameReports(qDb, qDb) /\ \A d \in QClaims : QKept(qDb, qDb, d)
      BY DEF QSameReports, QKept
    <3> QED
      BY <1>1, <1>2, <1>3, <3>1, AskedReserve
  <2> HIDE DEF new
  <2>4. /\ qDb' \in QDbRows /\ QSameReports(qDb, qDb')
        /\ \A d \in QClaims \ {new.claim} : QKept(qDb, qDb', d)
    BY <2>1, <2>3 DEF QGrants
  <2>5. CASE new.claim = QNone
    <3>1. /\ qHeld' = [qHeld EXCEPT ![l] = QNone] /\ qWorker' = [qWorker EXCEPT ![l] = "refused"]
          /\ UNCHANGED <<qJournal, qVms, qCalls>>
      BY <2>2, <2>5 DEF QAnswer
    <3>2. QTyped'
      BY <1>1, <1>3, <2>4, <3>1 DEF QTyped, QStages
    <3>3. /\ qWorker'[l] = "refused"
          /\ \A m \in QLanes \ {l} : qWorker'[m] = qWorker[m] /\ qHeld'[m] = qHeld[m]
      BY <1>3, <3>1 DEF QTyped
    <3>4. \A d \in QClaims : qDb'.claim[d].state # "free" => qDb'.claim[d].request # r
      BY <1>3, <2>1, <2>3, <2>5 DEF QGrants
    <3>5. QWorkerSound(l)'
      BY <1>1, <3>1, <3>3, <3>4 DEF QWorkerSound, QRows
    <3>6. \A d \in QClaims \ {QNone} : QKept(qDb, qDb', d)
      BY <2>4, <2>5
    <3>7. /\ \A k \in qCalls' : k \in qCalls /\ ~(k.awaited /\ k.lane = l)
          /\ \A k, m \in qCalls' : k.awaited /\ m.awaited /\ k.lane = m.lane => k = m
      BY <1>5, <3>1 DEF QemuInv, QHandlersSound
    <3>8. QAsks(l, r) /\ QNone \in QClaims \cup {QNone} /\ (QNone \in QClaims => FALSE)
      BY <1>2, <1>3
    <3> QED
      BY <1>1, <2>4, <3>1, <3>2, <3>3, <3>5, <3>6, <3>7, <3>8, ReservesKeep
  <2>6. CASE new.claim # QNone
    <3>1. /\ new.claim \in QClaims
          /\ new.db.claim[new.claim].lane = l /\ new.db.claim[new.claim].request = r
          /\ new.db.claim[new.claim].event \in QEvents
          /\ QKept(qDb, new.db, new.claim) \/ QFreshRow(new.db, new.claim, l, r)
      BY <2>3, <2>6 DEF QGrants
    <3> SUFFICES ASSUME NEW c \in QClaims, c = new.claim, NEW e \in QEvents, e = new.db.claim[new.claim].event
                 PROVE  QemuInv'
      BY <3>1
    <3> DEFINE call == [lane |-> l, request |-> r, claim |-> c, event |-> e,
                        stage |-> "issuing", awaited |-> TRUE]
    <3>2. /\ qCalls' = qCalls \cup {call} /\ qWorker' = [qWorker EXCEPT ![l] = "claiming"]
          /\ UNCHANGED <<qJournal, qHeld, qVms>>
      BY <2>2, <2>6
    <3>3. call \in QCallRows
      BY DEF QCallRows
    <3>4. call.lane = l /\ call.request = r /\ call.claim = c /\ call.awaited
      OBVIOUS
    <3> HIDE DEF call
    <3>5. QTyped'
      BY <1>1, <1>3, <2>4, <3>2, <3>3 DEF QTyped, QStages
    <3>6. /\ qWorker'[l] = "claiming"
          /\ \A m \in QLanes \ {l} : qWorker'[m] = qWorker[m] /\ qHeld'[m] = qHeld[m]
      BY <1>3, <3>2 DEF QTyped
    <3>7. QWorkerSound(l)'
      BY <1>1, <3>2, <3>6 DEF QWorkerSound
    <3>8. QAsks(l, r) /\ QAsks(l, r)'
      BY <1>2, <3>2 DEF QAsks
    <3>9. QCallSound(call)'
      BY <2>1, <3>1, <3>4, <3>6, <3>8 DEF QCallSound
    <3>10. \A k \in qCalls' : QCallSound(k)' \/ (k \in qCalls /\ ~(k.awaited /\ k.lane = l))
      BY <1>5, <3>2, <3>9
    <3>11. \A k, m \in qCalls' : k.awaited /\ m.awaited /\ k.lane = m.lane => k = m
      BY <1>5, <3>2, <3>4 DEF QemuInv, QHandlersSound
    <3>12. CASE QFreshRow(new.db, new.claim, l, r)
      <4>1. QFreshRow(qDb', c, l, r)
        BY <2>1, <3>12
      <4>2. \A d \in QClaims \ {c} : QKept(qDb, qDb', d)
        BY <2>4
      <4> QED
        BY <1>1, <2>4, <3>2, <3>5, <3>6, <3>7, <3>8, <3>10, <3>11, <4>1, <4>2, ReservesKeep
    <3>13. CASE QKept(qDb, new.db, new.claim)
      <4>1. \A d \in QClaims \ {QNone} : QKept(qDb, qDb', d)
        BY <2>1, <2>4, <3>13
      <4>2. QNone \in QClaims \cup {QNone} /\ (QNone \in QClaims => FALSE)
        BY <1>3
      <4> QED
        BY <1>1, <2>4, <3>2, <3>5, <3>6, <3>7, <3>8, <3>10, <3>11, <4>1, <4>2, ReservesKeep
    <3> QED
      BY <3>1, <3>12, <3>13
  <2> QED
    BY <2>5, <2>6
<1> QED
  BY <1>6, <1>7

LEMMA SupersedeRows ==
  ASSUME QemuInv, NEW c \in QClaims, qDb.claim[c].state = "reserved"
  PROVE  /\ QSupersede(qDb, c) \in QDbRows /\ QSameReports(qDb, QSupersede(qDb, c))
         /\ \A d \in QClaims : QKept(qDb, QSupersede(qDb, c), d)
         /\ QUnused(QExpire(qDb)) \subseteq QUnused(QExpire(QSupersede(qDb, c)))
<1> DEFINE e == qDb.claim[c].event
           events == [qDb.event EXCEPT ![e] = "superseded"]
           claims == [qDb.claim EXCEPT ![c] = QFreeRow]
<1>1. qDb \in QDbRows /\ QShape(qDb.claim[c])
  BY DEF QemuInv, QTyped, QClaimSound
<1>2. e \in QEvents
  BY <1>1 DEF QShape
<1>3. QSupersede(qDb, c) = [qDb EXCEPT !.event = events, !.claim = claims]
  BY <1>1 DEF QSupersede, QDbRows
<1> HIDE DEF e
<1>4. events \in [QEvents -> QEventStates]
  BY <1>1, <1>2 DEF QDbRows, QEventStates
<1>5. QFreeRow \in QClaimRow
  BY DEF QFreeRow, QClaimRow
<1>6. /\ claims \in [QClaims -> QClaimRow] /\ claims[c] = QFreeRow
      /\ \A d \in QClaims \ {c} : claims[d] = qDb.claim[d]
  BY <1>1, <1>5 DEF QDbRows
<1> HIDE DEF events, claims
<1>7. /\ QSupersede(qDb, c) \in QDbRows /\ QSameReports(qDb, QSupersede(qDb, c))
      /\ QSupersede(qDb, c).claim = claims
  BY <1>1, <1>3, <1>4, <1>6 DEF QDbRows, QSameReports
<1>8. QFreeRow.state = "free"
  BY DEF QFreeRow
<1>9. \A d \in QClaims : QExpire(qDb).claim[d].state = "free" => QExpire(QSupersede(qDb, c)).claim[d].state = "free"
  BY <1>1, <1>6, <1>7, <1>8, ExpireRows
<1> QED
  BY <1>6, <1>7, <1>9 DEF QKept, QUnused

LEMMA RejectKeeps ==
  ASSUME QemuInv, NEW k \in qCalls, QemuReject(k)
  PROVE  QemuInv'
<1>1. k.stage = "rejected" /\ UNCHANGED <<qEligible, qReport, authorityVars, qFaults>>
  BY DEF QemuReject
<1>2. CASE qDb.claim[k.claim].state # "reserved"
  BY <1>1, <1>2, HandlerFailKeeps DEF QemuReject
<1>3. CASE qDb.claim[k.claim].state = "reserved"
  <2>1. QTyped /\ qDb \in QDbRows /\ k \in QCallRows /\ QCallSound(k)
    BY DEF QemuInv, QTyped, QHandlersSound
  <2> SUFFICES ASSUME NEW l \in QLanes, l = k.lane, NEW r \in QRequests, r = k.request PROVE QemuInv'
    BY <2>1 DEF QCallRows
  <2>2. k.claim \in QClaims /\ k.event \in QEvents
    BY <2>1 DEF QCallRows
  <2>3. qDb.claim[k.claim].lane = l /\ qDb.claim[k.claim].request = r /\ QOwned(k.claim)
    BY <1>3, <2>1, <2>2 DEF QCallSound, QemuInv, QClaimSound
  <2>4. QAsks(l, r)
    BY <1>3, <2>3 DEF QOwned
  <2>5. qJournal[l].kind = "claim" /\ qJournal[l].request = r
    BY <2>4 DEF QAsks
  <2>6. qWorker[l] # "refused"
    BY <1>3, <2>2, <2>3, <2>5 DEF QemuInv, QWorkerSound, QRows
  <2>7. k.awaited => qWorker[l] = "claiming"
    BY <2>1 DEF QCallSound
  <2>8. /\ QSupersede(qDb, k.claim) \in QDbRows /\ QSameReports(qDb, QSupersede(qDb, k.claim))
        /\ \A d \in QClaims : QKept(qDb, QSupersede(qDb, k.claim), d)
    BY <1>3, <2>2, SupersedeRows
  <2>16. \A d \in QUnused(QExpire(qDb)) : d \in QUnused(QExpire(QSupersede(qDb, k.claim)))
    BY <1>3, <2>2, SupersedeRows
  <2> DEFINE new == QReserve(QSupersede(qDb, k.claim), l, r)
  <2>9. /\ qDb' = new.db /\ UNCHANGED qRecovers
        /\ QUnused(QExpire(QSupersede(qDb, k.claim))) # {}
        /\ \/ /\ new.claim # QNone /\ UNCHANGED hostVars
              /\ qCalls' = (qCalls \ {k}) \cup
                    {[k EXCEPT !.claim = new.claim, !.stage = "issuing", !.event = new.db.claim[new.claim].event]}
           \/ /\ new.claim = QNone /\ qCalls' = qCalls \ {k}
              /\ IF k.awaited THEN QAnswer(l, QNone) ELSE UNCHANGED hostVars
    <3> DEFINE next == QReserve(QSupersede(qDb, k.claim), k.lane, k.request)
    <3>1. next = new
      OBVIOUS
    <3>6. qDb' = next.db /\ UNCHANGED qRecovers /\ QUnused(QExpire(qDb)) # {}
      BY <1>3 DEF QemuReject
    <3>2. qDb' = next.db /\ UNCHANGED qRecovers /\ QUnused(QExpire(QSupersede(qDb, k.claim))) # {}
      BY <2>16, <3>6
    <3>3. next.claim # QNone => /\ UNCHANGED hostVars
            /\ qCalls' = (qCalls \ {k}) \cup
                 {[k EXCEPT !.claim = next.claim, !.stage = "issuing", !.event = next.db.claim[next.claim].event]}
      BY <1>3 DEF QemuReject
    <3>4. next.claim = QNone => /\ qCalls' = qCalls \ {k}
                                /\ IF k.awaited THEN QAnswer(k.lane, QNone) ELSE UNCHANGED hostVars
      BY <1>3 DEF QemuReject
    <3> HIDE DEF next, new
    <3>5. k.lane = l
      OBVIOUS
    <3> QED
      BY <3>1, <3>2, <3>3, <3>4, <3>5
  <2>10. QGrants(new, l, r)
    BY <2>4, <2>8, <2>9, AskedReserve
  <2> HIDE DEF new
  <2>11. /\ qDb' \in QDbRows /\ QSameReports(qDb, qDb')
         /\ \A d \in QClaims \ {new.claim} : QKept(qDb, qDb', d)
    BY <2>9, <2>10 DEF QGrants
  <2>12. \A d \in QClaims : d # QNone
    BY DEF QClaims, QNone
  <2>13. \A j \in qCalls \ {k} : k.awaited => ~(j.awaited /\ j.lane = l)
    BY DEF QemuInv, QHandlersSound
  <2>14. CASE new.claim = QNone
    <3>1. qCalls' = qCalls \ {k} /\ IF k.awaited THEN QAnswer(l, QNone) ELSE UNCHANGED hostVars
      BY <2>9, <2>14
    <3>2. \A d \in QClaims \ {QNone} : QKept(qDb, qDb', d)
      BY <2>11, <2>14
    <3>3. \A j, m \in qCalls' : j.awaited /\ m.awaited /\ j.lane = m.lane => j = m
      BY <3>1 DEF QemuInv, QHandlersSound
    <3>4. QNone \in QClaims \cup {QNone} /\ (QNone \in QClaims => FALSE)
      BY <2>12
    <3>5. CASE k.awaited
      <4>1. /\ qHeld' = [qHeld EXCEPT ![l] = QNone] /\ qWorker' = [qWorker EXCEPT ![l] = "refused"]
            /\ UNCHANGED <<qJournal, qVms>>
        BY <3>1, <3>5 DEF QAnswer
      <4>2. QTyped'
        BY <1>1, <2>1, <2>9, <2>11, <3>1, <4>1 DEF QTyped, QStages
      <4>3. /\ qWorker'[l] = "refused"
            /\ \A m \in QLanes \ {l} : qWorker'[m] = qWorker[m] /\ qHeld'[m] = qHeld[m]
        BY <2>1, <4>1 DEF QTyped
      <4>4. \A d \in QClaims : qDb'.claim[d].state # "free" => qDb'.claim[d].request # r
        BY <2>9, <2>10, <2>12, <2>14 DEF QGrants
      <4>5. QWorkerSound(l)'
        BY <2>5, <4>1, <4>3, <4>4 DEF QWorkerSound, QRows
      <4>6. \A j \in qCalls' : j \in qCalls /\ ~(j.awaited /\ j.lane = l)
        BY <2>13, <3>1, <3>5
      <4> QED
        BY <1>1, <2>4, <2>9, <2>11, <3>2, <3>3, <3>4, <4>1, <4>2, <4>3, <4>5, <4>6, ReservesKeep
    <3>6. CASE ~k.awaited
      <4>1. UNCHANGED hostVars
        BY <3>1, <3>6
      <4>2. QTyped'
        BY <1>1, <2>1, <2>9, <2>11, <3>1, <4>1 DEF QTyped
      <4>3. \A j \in qCalls' : QCallSound(j)' \/ (j \in qCalls /\ ~(j.awaited /\ j.lane = l))
        <5> SUFFICES ASSUME NEW j \in qCalls', j.awaited, j.lane = l PROVE QCallSound(j)'
          BY <3>1
        <5>1. j \in qCalls /\ QCallSound(j) /\ j \in QCallRows
          BY <3>1, <2>1 DEF QemuInv, QHandlersSound, QTyped
        <5>2. j.claim \in QClaims /\ QKept(qDb, qDb', j.claim)
          BY <5>1, <3>2, <2>12 DEF QCallRows
        <5> QED
          BY <4>1, <5>1, <5>2 DEF QCallSound, QKept, QAsks, QFreeRow
      <4>4. \A m \in QLanes : qWorker'[m] = qWorker[m] /\ qHeld'[m] = qHeld[m]
        BY <4>1
      <4> QED
        BY <1>1, <2>4, <2>6, <2>9, <2>11, <3>2, <3>3, <3>4, <4>1, <4>2, <4>3, <4>4, ReservesKeep
    <3> QED
      BY <3>5, <3>6
  <2>15. CASE new.claim # QNone
    <3>1. /\ new.claim \in QClaims
          /\ new.db.claim[new.claim].lane = l /\ new.db.claim[new.claim].request = r
          /\ new.db.claim[new.claim].event \in QEvents
          /\ QKept(qDb, new.db, new.claim) \/ QFreshRow(new.db, new.claim, l, r)
      BY <2>10, <2>15 DEF QGrants
    <3> SUFFICES ASSUME NEW c \in QClaims, c = new.claim, NEW e \in QEvents, e = new.db.claim[new.claim].event
                 PROVE  QemuInv'
      BY <3>1
    <3> DEFINE call == [k EXCEPT !.claim = c, !.stage = "issuing", !.event = e]
    <3>2. qCalls' = (qCalls \ {k}) \cup {call} /\ UNCHANGED hostVars
      BY <2>9, <2>15
    <3>3. call \in QCallRows /\ call.lane = l /\ call.request = r /\ call.claim = c /\ call.awaited = k.awaited
      BY <2>1 DEF QCallRows
    <3> HIDE DEF call
    <3>4. QTyped'
      BY <1>1, <2>1, <2>9, <2>11, <3>2, <3>3 DEF QTyped
    <3>5. QAsks(l, r)'
      BY <2>4, <3>2 DEF QAsks
    <3>6. QCallSound(call)'
      BY <2>7, <2>9, <3>1, <3>2, <3>3, <3>5 DEF QCallSound
    <3>7. \A j \in qCalls' : QCallSound(j)' \/ (j \in qCalls /\ ~(j.awaited /\ j.lane = l))
      <4> SUFFICES ASSUME NEW j \in qCalls', j.awaited, j.lane = l PROVE QCallSound(j)'
        BY <3>2, <3>6
      <4>1. CASE j = call
        BY <4>1, <3>6
      <4>2. CASE j # call
        <5>1. j \in qCalls /\ QCallSound(j) /\ j \in QCallRows
          BY <3>2, <2>1, <4>2 DEF QemuInv, QHandlersSound, QTyped
        <5>2. j.claim \in QClaims
          BY <5>1 DEF QCallRows
        <5>3. QKept(qDb, qDb', j.claim)
          BY <2>9, <2>11, <3>1, <5>1, <5>2 DEF QFreshRow
        <5> QED
          BY <3>2, <5>1, <5>2, <5>3 DEF QCallSound, QKept, QAsks, QFreeRow
      <4> QED
        BY <4>1, <4>2
    <3>8. \A j, m \in qCalls' : j.awaited /\ m.awaited /\ j.lane = m.lane => j = m
      BY <2>13, <3>2, <3>3 DEF QemuInv, QHandlersSound
    <3>9. \A m \in QLanes : qWorker'[m] = qWorker[m] /\ qHeld'[m] = qHeld[m]
      BY <3>2
    <3>10. CASE QFreshRow(new.db, new.claim, l, r)
      <4>1. QFreshRow(qDb', c, l, r)
        BY <2>9, <3>10
      <4>2. \A d \in QClaims \ {c} : QKept(qDb, qDb', d)
        BY <2>11
      <4> QED
        BY <1>1, <2>4, <2>6, <2>9, <2>11, <3>2, <3>4, <3>7, <3>8, <3>9, <4>1, <4>2, ReservesKeep
    <3>11. CASE QKept(qDb, new.db, new.claim)
      <4>1. \A d \in QClaims \ {QNone} : QKept(qDb, qDb', d)
        BY <2>9, <2>11, <3>11
      <4>2. QNone \in QClaims \cup {QNone} /\ (QNone \in QClaims => FALSE)
        BY <2>12
      <4> QED
        BY <1>1, <2>4, <2>6, <2>9, <2>11, <3>2, <3>4, <3>7, <3>8, <3>9, <4>1, <4>2, ReservesKeep
    <3> QED
      BY <3>1, <3>10, <3>11
  <2> QED
    BY <2>14, <2>15
<1> QED
  BY <1>2, <1>3

LEMMA QemuStart ==
  ASSUME QemuInit
  PROVE  QemuInv
<1>1. QFreeRow \in QClaimRow /\ QFreeRow.state = "free" /\ ~QFreeRow.result /\ ~QFreeRow.attempt
  BY DEF QFreeRow, QClaimRow
<1>2. /\ qDb \in QDbRows /\ \A c \in QClaims : qDb.claim[c] = QFreeRow
      /\ qDb.outbox = <<>>
  BY <1>1 DEF QemuInit, QDbRows, QEventStates
<1>3. QTyped
  BY <1>2 DEF QemuInit, QTyped, QNoJournal, QJournals, QStages
<1>4. \A c \in QClaims : QClaimSound(c)
  BY <1>1, <1>2 DEF QemuInit, QClaimSound, QShape, QEnds, QOwned, QAssignedOnce, QAsks, QNoJournal
<1>5. QLanesFenced
  BY <1>1, <1>2 DEF QLanesFenced, QRows
<1>6. \A l \in QLanes : QJournalSound(l) /\ QWorkerSound(l)
  BY DEF QemuInit, QJournalSound, QWorkerSound, QNoJournal
<1>7. QHandlersSound /\ \A c \in qVms : QVmSound(c)
  BY DEF QemuInit, QHandlersSound
<1>8. QReportsSound
  BY <1>2 DEF QemuInit, QReportsSound
<1> QED
  BY <1>3, <1>4, <1>5, <1>6, <1>7, <1>8 DEF QemuInv

LEMMA QemuStep ==
  ASSUME QemuInv, QemuNext
  PROVE  QemuInv'
<1>1. CASE \E l \in QLanes : QemuWorker(l)
  <2> PICK l \in QLanes : QemuWorker(l)
    BY <1>1
  <2> QED
    BY JournalClaimKeeps, ClaimKeeps, JournalReplyKeeps, VmStartKeeps, RenewKeeps, VmEndKeeps,
       JournalResultKeeps, ResultKeeps, ReplayKeeps, RecoveryKeeps, ClearedKeeps DEF QemuWorker
<1>2. CASE \E c \in QClaims : QemuHandler(c)
  <2> PICK c \in QClaims : QemuHandler(c)
    BY <1>2
  <2> QED
    BY IssueKeeps, ActivateKeeps, RejectKeeps, RevokeKeeps, RecoveredKeeps DEF QemuHandler
<1>3. CASE QemuFaulty
  BY <1>3, ReporterKeeps, LeaseKeeps, LostCallKeeps, LostRevocationKeeps, RestartKeeps, CrashKeeps DEF QemuFaulty
<1>4. CASE QemuReporter
  BY <1>4, ReporterKeeps, ReportDoneKeeps DEF QemuReporter
<1> QED
  BY <1>1, <1>2, <1>3, <1>4, IntakeKeeps, StartKeeps DEF QemuNext

LEMMA QemuIdle ==
  ASSUME QemuInv, UNCHANGED qVars
  PROVE  QemuInv'
BY FewerKeep DEF qVars

\* The inductive invariant holds of every behaviour of the scheduler, its host and
\* native Git (NativeQemuSchedulerStore, runNativeQemuHost, the attempt store).
THEOREM QemuInductive == QemuSpec => []QemuInv
<1>1. QemuInit => QemuInv
  BY QemuStart
<1>2. QemuInv /\ [QemuNext]_qVars => QemuInv'
  BY QemuStep, QemuIdle
<1> QED
  BY <1>1, <1>2, PTL DEF QemuSpec

\* A claim of the scheduler ends one way, and a container runs only for a claim that
\* fences its capacity (acknowledgeResult and recover of nativeQemuSchedulerStore.ts,
\* the recovery handler, replayNativeQemuHostJournal).
THEOREM QemuClaimsEndOneWay == QemuSpec => []QemuOneWay
<1>1. QemuInv => QemuOneWay
  <2> SUFFICES ASSUME QemuInv PROVE QemuOneWay
    OBVIOUS
  <2>1. QemuVmFenced
    BY DEF QemuInv, QemuVmFenced, QVmSound
  <2>2. QemuSettledOneWay
    BY DEF QemuInv, QemuSettledOneWay, QClaimSound, QEnds
  <2> QED
    BY <2>1, <2>2 DEF QemuOneWay
<1> QED
  BY <1>1, QemuInductive, PTL

\* What the store's checks demand of its file when it opens (validateExisting of
\* nativeQemuSchedulerDatabase.ts) is true of every file the scheduler leaves: no
\* crash or restart makes the scheduler refuse to start.
THEOREM QemuFileReopens == QemuSpec => []QDatabaseValid(qDb)
<1>1. QemuInv => QDatabaseValid(qDb)
  <2> SUFFICES ASSUME QemuInv PROVE QDatabaseValid(qDb)
    OBVIOUS
  <2>1. \A c \in QClaims :
          /\ qDb.claim[c].state = "reserved" => ~qDb.claim[c].attempt
          /\ qDb.claim[c].state = "active" => qDb.claim[c].attempt
          /\ qDb.claim[c].state # "free" => qDb.claim[c].event \in QEvents
    BY DEF QemuInv, QClaimSound, QShape
  <2>2. \A l \in QLanes : \A c, d \in QRows(qDb, {"reserved", "active"}) :
          qDb.claim[c].lane = l /\ qDb.claim[d].lane = l => c = d
    BY DEF QemuInv, QLanesFenced
  <2>3. \A i \in 1..Len(qDb.outbox) : qDb.claim[qDb.outbox[i]].state # "free"
    BY DEF QemuInv, QTyped, QDbRows, QReportsSound, QClaimSound, QShape
  <2> QED
    BY <2>1, <2>2, <2>3 DEF QDatabaseValid
<1> QED
  BY <1>1, QemuInductive, PTL
=============================================================================
