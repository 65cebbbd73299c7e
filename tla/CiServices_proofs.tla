-------------------------- MODULE CiServices_proofs --------------------------
(***************************************************************************)
(* Proofs about the services around CI: the delivery of review events and  *)
(* the standalone review stack.  In both, an answer of one service may be  *)
(* stale when the other uses it; their invariants say what is still true   *)
(* of it then.                                                             *)
(***************************************************************************)
EXTENDS EventDelivery, StandaloneCi, WellFoundedInduction, TLAPS

-----------------------------------------------------------------------------
(***************************************************************************)
(* Event delivery.                                                         *)
(***************************************************************************)

DRows == DPlanes \X DEvents

DTyped ==
  /\ dHead \in Nat /\ dKnown \subseteq DEvents
  /\ dPlane \in DPlanes
  /\ dAdmission \in [plane : Nat, seq : Nat, ttl : Nat]
  /\ dReceipts \subseteq DRows
  /\ dDemands \in [DRows -> {"none", "queued", "superseded"}]
  /\ dHandlers \subseteq [event : DEvents, stage : {"begin", "policy", "register", "proof", "commit"},
                          seq : Nat, awaited : BOOLEAN]

\* No receipt, demand or admission is of a generation to come.
DPast ==
  /\ dAdmission.plane =< dPlane
  /\ \A r \in dReceipts : r[1] =< dPlane
  /\ \A p \in DPlanes, e \in DEvents : dDemands[<<p, e>>] = "queued" => p =< dPlane

\* The admitted root of a generation only moves on: what was received is not newer.
DReceivedBefore ==
  \A e \in DEvents : <<dPlane, e>> \in dReceipts => dAdmission.plane = dPlane /\ DHeadOf[e] =< dAdmission.seq

DeliveryInv == DTyped /\ DPast /\ DReceivedBefore /\ DDemandsFollowRoot

DHandlerRows == [event : DEvents, stage : {"begin", "policy", "register", "proof", "commit"},
                 seq : Nat, awaited : BOOLEAN]

USE DEF dVars, nativeGitVars, dispatcherVars, intakeVars

\* The order of the natural numbers is well founded.
Less == {ss \in Nat \X Nat : ss[1] < ss[2]}

LEMMA LessWellFounded == IsWellFoundedOn(Less, Nat)
BY NatLessThanWellFounded, Zenon DEF OpToRel, Less

\* There is an oldest pending event.
LEMMA OldestPending ==
  ASSUME DTyped, DPending # {}
  PROVE  DOldestPending \in DEvents
<1>1. DPending \subseteq DEvents /\ DPending \subseteq Nat
  BY DeliveryAssumption DEF DPending, DTyped
<1>2. PICK x \in DPending : \A y \in DPending : ~(<<y, x>> \in Less)
  BY <1>1, WFMin, LessWellFounded, Zenon
<1>3. ASSUME NEW y \in DPending PROVE x =< y
  <2>1. x \in Nat /\ y \in Nat
    BY <1>1
  <2>2. ~(y < x)
    BY <1>2, <2>1 DEF Less
  <2> QED
    BY <2>1, <2>2
<1>4. DOldestPending \in DPending
  BY <1>3 DEF DOldestPending
<1> QED
  BY <1>1, <1>4

\* What the handlers in flight may become.
LEMMA HandlersKept ==
  ASSUME DTyped
  PROVE  /\ DForsake(dHandlers) \subseteq DHandlerRows
         /\ \A h \in dHandlers, stage \in {"begin", "policy", "register", "proof", "commit"}, seq \in Nat :
              [h EXCEPT !.stage = stage, !.seq = seq] \in DHandlerRows
<1>1. dHandlers \subseteq DHandlerRows
  BY DEF DTyped, DHandlerRows
<1> QED
  BY <1>1 DEF DForsake, DHandlerRows

LEMMA GoesOnKept ==
  ASSUME DTyped, NEW h \in dHandlers, NEW stage \in {"begin", "policy", "register", "proof", "commit"},
         NEW seq \in Nat, DGoesOn(h, stage, seq)
  PROVE  dHandlers' \subseteq DHandlerRows
<1>1. dHandlers \subseteq DHandlerRows /\ [h EXCEPT !.stage = stage, !.seq = seq] \in DHandlerRows
  BY HandlersKept DEF DTyped, DHandlerRows
<1> QED
  BY <1>1 DEF DGoesOn

LEMMA AnswerKept ==
  ASSUME DTyped, NEW h \in dHandlers, NEW stage, NEW ttl, DAnswer(h, stage, ttl)
  PROVE  dHandlers' \subseteq DHandlerRows
BY DEF DTyped, DHandlerRows, DAnswer

\* A step that leaves the rows and the admitted root alone keeps the invariant.
LEMMA RowsKept ==
  ASSUME DeliveryInv, UNCHANGED <<dPlane, dReceipts, dDemands>>,
         dAdmission' \in [plane : Nat, seq : Nat, ttl : Nat],
         dAdmission'.plane = dAdmission.plane, dAdmission'.seq = dAdmission.seq,
         dHead' \in Nat, dKnown' \subseteq DEvents, dHandlers' \subseteq DHandlerRows
  PROVE  DeliveryInv'
<1>1. DTyped'
  BY DEF DeliveryInv, DTyped, DHandlerRows
<1>2. DPast' /\ DReceivedBefore'
  BY DEF DeliveryInv, DPast, DReceivedBefore
<1>3. DDemandsFollowRoot'
  BY DEF DeliveryInv, DDemandsFollowRoot, DQueuedIsAdmittedRoot, DReceiptKeepsDemand
<1> QED
  BY <1>1, <1>2, <1>3 DEF DeliveryInv

\* Native Git, the dispatcher, and the handlers that write nothing.
LEMMA QuietDelivery ==
  ASSUME DeliveryInv,
         \/ \E e \in DEvents : DReview(e)
         \/ DPromote \/ DDeliver \/ DAcknowledge \/ DSupersede \/ DRetry \/ DTimeout \/ DTick \/ DCrash
         \/ \E h \in dHandlers : DProofUnavailable(h) \/ DIntake(h) \/ DPolicyProof(h) \/ DReviewProof(h)
  PROVE  DeliveryInv'
<1>0. DTyped /\ dHandlers \subseteq DHandlerRows
  BY DEF DeliveryInv, DTyped, DHandlerRows
<1>1. ASSUME NEW e \in DEvents, DReview(e) PROVE DeliveryInv'
  BY <1>0, <1>1, RowsKept DEF DReview, DTyped
<1>2. CASE DPromote
  <2>1. dHead + 1 \in Nat
    BY <1>0 DEF DTyped
  <2> QED
    BY <1>0, <1>2, <2>1, RowsKept DEF DPromote, DTyped
<1>3. CASE DDeliver
  <2>1. [event |-> DOldestPending, stage |-> "begin", seq |-> 0, awaited |-> TRUE] \in DHandlerRows
    BY <1>0, <1>3, OldestPending DEF DDeliver, DHandlerRows
  <2>2. dHandlers' \subseteq DHandlerRows
    BY <1>0, <1>3, <2>1 DEF DDeliver
  <2> QED
    BY <1>0, <1>3, <2>2, RowsKept DEF DDeliver, DTyped
<1>4. CASE DAcknowledge \/ DSupersede \/ DRetry
  BY <1>0, <1>4, RowsKept DEF DAcknowledge, DSupersede, DRetry, DTyped
<1>5. CASE DTimeout \/ DCrash
  <2>1. dHandlers' \subseteq DHandlerRows
    BY <1>0, <1>5, HandlersKept DEF DTimeout, DCrash
  <2> QED
    BY <1>0, <1>5, <2>1, RowsKept DEF DTimeout, DCrash, DTyped
<1>6. CASE DTick
  <2>1. DDown(dAdmission.ttl) \in Nat
    BY <1>0 DEF DDown, DTyped
  <2>2. dAdmission' \in [plane : Nat, seq : Nat, ttl : Nat] /\ dAdmission'.plane = dAdmission.plane
        /\ dAdmission'.seq = dAdmission.seq
    BY <1>0, <1>6, <2>1 DEF DTick, DTyped
  <2> QED
    BY <1>0, <1>6, <2>2, RowsKept DEF DTick, DTyped
<1>7. ASSUME NEW h \in dHandlers, DProofUnavailable(h) \/ DIntake(h) \/ DPolicyProof(h) \/ DReviewProof(h)
      PROVE  DeliveryInv'
  <2>1. UNCHANGED <<dHead, dKnown, dPlane, dAdmission, dReceipts, dDemands>>
    BY <1>7 DEF DProofUnavailable, DIntake, DPolicyProof, DReviewProof
  <2>2. dHandlers' \subseteq DHandlerRows
    <3>1. CASE DProofUnavailable(h)
      BY <1>0, <3>1, AnswerKept DEF DProofUnavailable
    <3>2. CASE DIntake(h)
      BY <1>0, <3>2, AnswerKept, GoesOnKept DEF DIntake
    <3>3. CASE DPolicyProof(h)
      BY <1>0, <3>3, GoesOnKept DEF DPolicyProof, DTyped
    <3>4. CASE DReviewProof(h)
      BY <1>0, <3>4, AnswerKept, GoesOnKept DEF DReviewProof, DTyped
    <3> QED
      BY <1>7, <3>1, <3>2, <3>3, <3>4
  <2> QED
    BY <1>0, <2>1, <2>2, RowsKept DEF DTyped
<1> QED
  BY <1>1, <1>2, <1>3, <1>4, <1>5, <1>6, <1>7

\* A registration: the demands of the root that is left are superseded.
LEMMA RegisterKeeps ==
  ASSUME DeliveryInv, NEW h \in dHandlers, DRegister(h)
  PROVE  DeliveryInv'
<1>0. DTyped /\ DPast /\ DReceivedBefore /\ DQueuedIsAdmittedRoot /\ DReceiptKeepsDemand
  BY DEF DeliveryInv, DDemandsFollowRoot
<1>1. UNCHANGED <<dHead, dKnown, dPlane, dReceipts>> /\ h.seq \in Nat /\ DLease \in Nat
  BY <1>0, DeliveryAssumption DEF DRegister, DTyped
<1>2. dHandlers' \subseteq DHandlerRows
  BY <1>0, AnswerKept, GoesOnKept DEF DRegister
<1>3. CASE ~DRegisters(h.seq)
  <2>1. UNCHANGED <<dAdmission, dDemands>>
    BY <1>3 DEF DRegister
  <2> QED
    BY <1>0, <1>1, <1>2, <2>1, RowsKept DEF DTyped
<1>4. CASE DRegisters(h.seq)
  <2>1. dAdmission' = [plane |-> dPlane, seq |-> h.seq, ttl |-> DLease]
        /\ dDemands' = [r \in DOMAIN dDemands |->
                          IF r \in DSupersededBy(h.seq) THEN "superseded" ELSE dDemands[r]]
    BY <1>4 DEF DRegister
  <2>2. DOMAIN dDemands = DRows /\ dPlane \in Nat /\ dPlane \in DPlanes
    BY <1>0, DeliveryAssumption DEF DTyped, DPlanes
  <2>3. dAdmission' \in [plane : Nat, seq : Nat, ttl : Nat] /\ dAdmission'.plane = dPlane
        /\ dAdmission'.seq = h.seq
    BY <1>1, <2>1, <2>2
  <2>4. dDemands' \in [DRows -> {"none", "queued", "superseded"}]
    BY <1>0, <2>1, <2>2 DEF DTyped
  <2>5. ASSUME NEW p \in DPlanes, NEW e \in DEvents, dDemands'[<<p, e>>] = "queued"
        PROVE  dDemands[<<p, e>>] = "queued" /\ <<p, e>> \notin DSupersededBy(h.seq)
    BY <2>1, <2>2, <2>5 DEF DRows
  <2>6. DTyped'
    BY <1>0, <1>1, <1>2, <2>3, <2>4 DEF DTyped, DHandlerRows
  <2>7. DPast'
    BY <1>0, <1>1, <2>2, <2>3, <2>5 DEF DPast
  \* Under the generation's admission the root does not go back; under another one
  \* nothing was received yet.
  <2>8. ASSUME NEW e \in DEvents, <<dPlane, e>> \in dReceipts
        PROVE  dAdmission.plane = dPlane /\ DHeadOf[e] =< dAdmission.seq /\ dAdmission.seq =< h.seq
               /\ DHeadOf[e] \in Nat /\ dAdmission.seq \in Nat
    <3>1. dAdmission.plane = dPlane /\ DHeadOf[e] =< dAdmission.seq
      BY <1>0, <2>8 DEF DReceivedBefore
    <3>2. DHeadOf[e] \in Nat /\ dAdmission.seq \in Nat
      BY <1>0, DeliveryAssumption DEF DTyped
    <3>3. dAdmission.seq =< h.seq
      BY <1>1, <1>4, <3>1, <3>2 DEF DRegisters
    <3> QED
      BY <3>1, <3>2, <3>3
  <2>9. DReceivedBefore'
    BY <1>1, <2>3, <2>8 DEF DReceivedBefore
  <2>10. DQueuedIsAdmittedRoot'
    <3> SUFFICES ASSUME NEW e \in DEvents, dDemands'[<<dPlane, e>>] = "queued"
                 PROVE  DHeadOf[e] = h.seq
      BY <1>1, <2>3 DEF DQueuedIsAdmittedRoot
    <3>1. dDemands[<<dPlane, e>>] = "queued" /\ <<dPlane, e>> \notin DSupersededBy(h.seq)
      BY <2>2, <2>5
    <3>2. dAdmission.plane = dPlane /\ DHeadOf[e] = dAdmission.seq /\ dAdmission.seq \in Nat
      BY <1>0, <3>1 DEF DQueuedIsAdmittedRoot, DTyped
    <3>3. ~(h.seq > dAdmission.seq)
      BY <2>2, <3>1, <3>2 DEF DSupersededBy, DRows
    <3>4. ~(h.seq < dAdmission.seq)
      BY <1>4, <3>2 DEF DRegisters
    <3> QED
      BY <1>1, <3>2, <3>3, <3>4
  <2>11. DReceiptKeepsDemand'
    <3> SUFFICES ASSUME NEW e \in DEvents, <<dPlane, e>> \in dReceipts, DHeadOf[e] = h.seq
                 PROVE  dDemands'[<<dPlane, e>>] = "queued"
      BY <1>1, <2>3 DEF DReceiptKeepsDemand
    <3>1. dAdmission.seq = h.seq
      BY <1>1, <2>8
    <3>2. dDemands[<<dPlane, e>>] = "queued"
      BY <1>0, <3>1 DEF DReceiptKeepsDemand
    <3>3. DSupersededBy(h.seq) = {}
      BY <1>1, <3>1 DEF DSupersededBy
    <3>4. <<dPlane, e>> \in DOMAIN dDemands
      BY <2>2 DEF DRows
    <3> QED
      BY <2>1, <3>2, <3>3, <3>4
  <2> QED
    BY <2>6, <2>7, <2>9, <2>10, <2>11 DEF DeliveryInv, DDemandsFollowRoot
<1> QED
  BY <1>3, <1>4

\* A receipt and its demand, only for the admitted root.
LEMMA CommitKeeps ==
  ASSUME DeliveryInv, NEW h \in dHandlers, DCommit(h)
  PROVE  DeliveryInv'
<1>0. DTyped /\ DPast /\ DReceivedBefore /\ DQueuedIsAdmittedRoot /\ DReceiptKeepsDemand
  BY DEF DeliveryInv, DDemandsFollowRoot
<1> DEFINE r == <<dPlane, h.event>>
<1>1. UNCHANGED <<dHead, dKnown, dPlane, dAdmission>> /\ h.event \in DEvents
  BY <1>0 DEF DCommit, DTyped
<1>2. dHandlers' \subseteq DHandlerRows
  <2>1. PICK stage, ttl : DAnswer(h, stage, ttl)
    BY DEF DCommit
  <2> QED
    BY <1>0, <2>1, AnswerKept
<1>3. CASE ~(DActive /\ r \notin dReceipts /\ DProofMatches(h))
  <2>1. UNCHANGED <<dReceipts, dDemands>>
    BY <1>3 DEF DCommit
  <2> QED
    BY <1>0, <1>1, <1>2, <2>1, RowsKept DEF DTyped
<1>4. CASE DActive /\ r \notin dReceipts /\ DProofMatches(h)
  <2>1. dReceipts' = dReceipts \cup {r} /\ dDemands' = [dDemands EXCEPT ![r] = "queued"]
    BY <1>4 DEF DCommit
  <2>2. dAdmission.plane = dPlane /\ DHeadOf[h.event] = dAdmission.seq
    BY <1>4 DEF DActive, DProofMatches, DEventMatches
  <2>3. dPlane \in DPlanes /\ dPlane \in Nat /\ r \in DRows /\ dAdmission.seq \in Nat
    BY <1>0, <1>1, DeliveryAssumption DEF DTyped, DPlanes, DRows
  <2>4. \A e \in DEvents : e # h.event => /\ dDemands'[<<dPlane, e>>] = dDemands[<<dPlane, e>>]
                                          /\ <<dPlane, e>> \in dReceipts' => <<dPlane, e>> \in dReceipts
    BY <1>0, <2>1, <2>3 DEF DTyped, DRows
  <2>5. dDemands'[r] = "queued"
    BY <1>0, <2>1, <2>3 DEF DTyped
  <2>6. DTyped'
    BY <1>0, <1>1, <1>2, <2>1, <2>3 DEF DTyped, DHandlerRows
  <2>7. DPast'
    <3>1. \A x \in dReceipts' : x[1] =< dPlane
      BY <1>0, <2>1, <2>3 DEF DPast
    <3>2. ASSUME NEW p \in DPlanes, NEW e \in DEvents, dDemands'[<<p, e>>] = "queued" PROVE p =< dPlane
      <4>1. CASE <<p, e>> = r
        BY <2>3, <4>1
      <4>2. CASE <<p, e>> # r
        BY <1>0, <2>1, <3>2, <4>2 DEF DTyped, DRows, DPast
      <4> QED
        BY <4>1, <4>2
    <3> QED
      BY <1>0, <1>1, <3>1, <3>2 DEF DPast
  <2>8. DReceivedBefore'
    BY <1>0, <1>1, <2>2, <2>3, <2>4 DEF DReceivedBefore
  <2>9. DQueuedIsAdmittedRoot'
    BY <1>0, <1>1, <2>2, <2>4 DEF DQueuedIsAdmittedRoot
  <2>10. DReceiptKeepsDemand'
    BY <1>0, <1>1, <2>4, <2>5 DEF DReceiptKeepsDemand
  <2> QED
    BY <2>6, <2>7, <2>8, <2>9, <2>10 DEF DeliveryInv, DDemandsFollowRoot
<1> QED
  BY <1>3, <1>4

\* A new generation begins with nothing received and nothing queued.
LEMMA RolloverKeeps ==
  ASSUME DeliveryInv, NEW moved \in BOOLEAN, DRollover(moved)
  PROVE  DeliveryInv'
<1>0. DTyped /\ DPast
  BY DEF DeliveryInv
<1>1. dPlane \in Nat /\ dPlane' = dPlane + 1 /\ dPlane' \in DPlanes /\ dPlane' \in Nat
  BY <1>0, DeliveryAssumption DEF DRollover, DTyped, DPlanes
<1>2. UNCHANGED <<dHead, dKnown, dAdmission, dReceipts>> /\ dHandlers' = {}
      /\ dDemands' = [r \in DOMAIN dDemands |-> IF dDemands[r] = "queued" THEN "superseded" ELSE dDemands[r]]
  BY DEF DRollover
<1>3. dDemands' \in [DRows -> {"none", "queued", "superseded"}] /\ \A r \in DRows : dDemands'[r] # "queued"
  BY <1>0, <1>2 DEF DTyped
<1>4. DTyped'
  BY <1>0, <1>1, <1>2, <1>3 DEF DTyped
<1>5. \A p \in DPlanes, e \in DEvents : dDemands'[<<p, e>>] # "queued"
  BY <1>3 DEF DRows
<1>6. \A r \in dReceipts : r[1] \in Nat
  BY <1>0, DeliveryAssumption DEF DTyped, DRows, DPlanes
<1>7. \A e \in DEvents : <<dPlane', e>> \notin dReceipts'
  BY <1>0, <1>1, <1>2 DEF DPast
<1>8. dAdmission.plane \in Nat
  BY <1>0 DEF DTyped
<1>9. DPast'
  BY <1>0, <1>1, <1>2, <1>5, <1>6, <1>8 DEF DPast
<1>10. DReceivedBefore' /\ DReceiptKeepsDemand'
  BY <1>7 DEF DReceivedBefore, DReceiptKeepsDemand
<1>11. DQueuedIsAdmittedRoot'
  BY <1>1, <1>5 DEF DQueuedIsAdmittedRoot
<1> QED
  BY <1>4, <1>9, <1>10, <1>11 DEF DeliveryInv, DDemandsFollowRoot

\* DeliveryInv holds initially and every step keeps it.
THEOREM DeliveryInductive ==
  DeliverySpec => []DeliveryInv
<1>1. DeliveryInit => DeliveryInv
  <2> SUFFICES ASSUME DeliveryInit PROVE DeliveryInv
    OBVIOUS
  <2>1. dDemands \in [DRows -> {"none", "queued", "superseded"}] /\ \A r \in DRows : dDemands[r] = "none"
    BY DEF DeliveryInit, DRows
  <2>2. 1 \in DPlanes
    BY DeliveryAssumption DEF DPlanes
  <2>3. DTyped
    BY <2>1, <2>2 DEF DeliveryInit, DTyped, DNoAdmission
  <2>4. \A p \in DPlanes, e \in DEvents : dDemands[<<p, e>>] # "queued"
    BY <2>1 DEF DRows
  <2>5. DPast /\ DReceivedBefore /\ DReceiptKeepsDemand
    BY <2>4 DEF DeliveryInit, DPast, DReceivedBefore, DReceiptKeepsDemand, DNoAdmission
  <2>6. DQueuedIsAdmittedRoot
    BY <2>2, <2>4 DEF DeliveryInit, DQueuedIsAdmittedRoot
  <2> QED
    BY <2>3, <2>5, <2>6 DEF DeliveryInv, DDemandsFollowRoot
<1>2. DeliveryInv /\ [DeliveryNext]_dVars => DeliveryInv'
  <2> SUFFICES ASSUME DeliveryInv, [DeliveryNext]_dVars PROVE DeliveryInv'
    OBVIOUS
  <2>1. CASE UNCHANGED dVars
    BY <2>1, RowsKept DEF DeliveryInv, DTyped, DHandlerRows
  <2>2. ASSUME NEW e \in DEvents, NEW awaited \in BOOLEAN, DHandler(e, awaited) PROVE DeliveryInv'
    BY <2>2, QuietDelivery, RegisterKeeps, CommitKeeps DEF DHandler
  <2>3. CASE DeliveryNext
    BY <2>2, <2>3, QuietDelivery, RolloverKeeps DEF DeliveryNext, DDispatcher
  <2> QED
    BY <2>1, <2>3
<1> QED
  BY <1>1, <1>2, PTL DEF DeliverySpec

\* The queue of the serving generation is the work of its admitted root, no more and
\* no less, however handlers that proved their event before a promotion interleave
\* with the registration of a newer root (nativeRootCiEventReceipt, registerMutation).
THEOREM QueueFollowsRoot ==
  DeliverySpec => []DDemandsFollowRoot
<1>1. DeliveryInv => DDemandsFollowRoot
  BY DEF DeliveryInv
<1> QED
  BY <1>1, DeliveryInductive, PTL

-----------------------------------------------------------------------------
(***************************************************************************)
(* Standalone review stack.                                                *)
(***************************************************************************)

AStates == {"unused", "empty", "preparing", "active", "reported", "recovering", "released"}
AHostStages == {"down", "idle", "asking", "waiting", "starting", "active", "running", "report", "recover",
                "revoke", "complete"}
AJournals == {"none", "claim", "active", "result", "recovery"}
AHandlerStages == {"none", "issue", "issuing", "prove", "activate", "undo", "release"}
AClaimFields == {"state", "lane", "review", "gen", "result", "recovered"}
AHostRows == [stage : AHostStages, journal : AJournals, claim : Nat, result : {"none", "success", "failure"}]
AHandlerRows == [stage : AHandlerStages, claim : Nat, epoch : Nat]

\* Which review a claim is for, and its admission, make no difference to what follows.
ATyped ==
  /\ DOMAIN aClaims = AClaimIds /\ DOMAIN aOutbox = AClaimIds /\ DOMAIN aStatus = AClaimIds
  /\ \A n \in AClaimIds : /\ DOMAIN aClaims[n] = AClaimFields
                          /\ aClaims[n].state \in AStates /\ aClaims[n].recovered \in BOOLEAN
  /\ aHost \in [ALanes -> AHostRows]
  /\ aHandler \in [ASlots -> AHandlerRows]
  /\ aEpoch \in Nat
  /\ \A l \in ALanes : aHost[l].claim \in {0} \cup AClaimIds
  /\ \A i \in ASlots : aHandler[i].stage # "none" => aHandler[i].claim \in AClaimIds

\* A claim is of one host; from its start to its end no one else ends it, and its
\* container is on record in the journal.
AGuarded(l) == aHost[l].stage \in {"starting", "active", "running"} \/ aHost[l].journal = "active"

AHostsSound ==
  /\ \A l, k \in ALanes : l # k /\ aHost[l].claim # 0 => aHost[l].claim # aHost[k].claim
  /\ \A l \in ALanes :
       /\ aHost[l].stage \notin {"down", "idle"} \/ aHost[l].journal # "none" => aHost[l].claim # 0
       /\ AGuarded(l) => aClaims[aHost[l].claim].state \in {"active", "recovering"}
       /\ aHost[l].stage = "complete" => aHost[l].claim \in aRevoked
       /\ aHost[l].journal = "active" => aHost[l].stage \in {"active", "running", "down"}
  /\ \A n \in aContainers : \E l \in ALanes : aHost[l].claim = n /\ aHost[l].journal = "active"

\* A result is of a claim that is neither active nor recovered.
AClaimsSound ==
  /\ \A n \in AClaimIds :
       /\ aOutbox[n] # "none" => aClaims[n].state \in {"reported", "released"}
       /\ aStatus[n] # "none" => aOutbox[n] # "none"
       /\ aClaims[n].recovered => /\ aClaims[n].state = "released" /\ aOutbox[n] = "none"
                                  /\ n \in aRevoked /\ aStatus[n] = "none"
  /\ aReporter # 0 => aReporter \in AClaimIds /\ aOutbox[aReporter] # "none"
  /\ aRecording.stage \in {"prove", "save", "done"} =>
        aRecording.claim \in AClaimIds /\ aOutbox[aRecording.claim] # "none"

\* Whoever is between check and write holds the protected ref's key, and a promotion's
\* evidence is untouched meanwhile.
ALocked ==
  /\ aPromotion.stage \in {"prove", "swap"} => aLock = "promote" /\ AEvidence(aPromotion.review)
  /\ aRecording.stage \in {"prove", "save"} => aLock = "report"
  /\ \A i \in ASlots : aHandler[i].stage = "issuing" => aLock = "issue"
  /\ \A i, j \in ASlots : aHandler[i].stage = "issuing" /\ aHandler[j].stage = "issuing" => i = j

StandaloneInv == ATyped /\ AHostsSound /\ AClaimsSound /\ ALocked

USE DEF aVars, aGitVars, aIntakeVars, aClaimVars, aHostVars

LEMMA ClaimNumbers == AClaimIds \subseteq Nat /\ 0 \notin AClaimIds
BY StandaloneAssumption DEF AClaimIds

\* A claim whose container may run keeps its capacity.
AKeepsFence ==
  \A n \in AClaimIds : aClaims[n].state \in {"active", "recovering"} => aClaims'[n].state \in {"active", "recovering"}

LEMMA HostsFrame ==
  ASSUME ATyped, AHostsSound, UNCHANGED <<aHost, aContainers>>, aRevoked \subseteq aRevoked', AKeepsFence
  PROVE  AHostsSound'
<1>1. ASSUME NEW l \in ALanes, AGuarded(l) PROVE aHost[l].claim \in AClaimIds
  BY <1>1 DEF ATyped, AHostsSound, AGuarded
<1>2. \A l \in ALanes : AGuarded(l)' = AGuarded(l)
  BY DEF AGuarded
<1> QED
  BY <1>1, <1>2 DEF AHostsSound, AKeepsFence

\* One host moves on with its claim.
LEMMA HostMoves ==
  ASSUME ATyped, AHostsSound, NEW l \in ALanes, NEW v \in AHostRows, aHost' = [aHost EXCEPT ![l] = v],
         v.claim = aHost[l].claim,
         v.stage \notin {"down", "idle"} \/ v.journal # "none" => v.claim # 0,
         v.stage \in {"starting", "active", "running"} \/ v.journal = "active" =>
            aClaims'[v.claim].state \in {"active", "recovering"},
         v.stage = "complete" => v.claim \in aRevoked',
         v.journal = "active" => v.stage \in {"active", "running", "down"},
         aRevoked \subseteq aRevoked',
         \A n \in AClaimIds : n # v.claim /\ aClaims[n].state \in {"active", "recovering"} =>
                                aClaims'[n].state \in {"active", "recovering"},
         \A n \in aContainers' : (n \in aContainers /\ n # v.claim) \/ (n = v.claim /\ v.journal = "active")
  PROVE  AHostsSound' /\ aHost' \in [ALanes -> AHostRows] /\ \A k \in ALanes : aHost'[k].claim = aHost[k].claim
<1>0. aHost \in [ALanes -> AHostRows]
  BY DEF ATyped
<1>1. aHost' \in [ALanes -> AHostRows] /\ aHost'[l] = v /\ \A k \in ALanes : k # l => aHost'[k] = aHost[k]
  BY <1>0
<1>2. \A k \in ALanes : aHost'[k].claim = aHost[k].claim
  BY <1>1
<1>3. ASSUME NEW k \in ALanes, k # l, AGuarded(k)
      PROVE  aHost[k].claim \in AClaimIds /\ aHost[k].claim # v.claim
  BY <1>3 DEF ATyped, AHostsSound, AGuarded
<1>4. ASSUME NEW k \in ALanes, AGuarded(k)' PROVE aClaims'[aHost'[k].claim].state \in {"active", "recovering"}
  <2>1. CASE k = l
    BY <1>1, <1>4, <2>1 DEF AGuarded
  <2>2. CASE k # l
    <3>1. AGuarded(k) /\ aHost'[k].claim = aHost[k].claim
      BY <1>1, <1>4, <2>2 DEF AGuarded
    <3>2. aClaims[aHost[k].claim].state \in {"active", "recovering"}
      BY <3>1 DEF AHostsSound
    <3> QED
      BY <1>3, <2>2, <3>1, <3>2
  <2> QED
    BY <2>1, <2>2
<1>5. ASSUME NEW k \in ALanes
      PROVE  /\ aHost'[k].stage \notin {"down", "idle"} \/ aHost'[k].journal # "none" => aHost'[k].claim # 0
             /\ aHost'[k].stage = "complete" => aHost'[k].claim \in aRevoked'
             /\ aHost'[k].journal = "active" => aHost'[k].stage \in {"active", "running", "down"}
  <2>1. CASE k = l
    BY <1>1, <2>1
  <2>2. CASE k # l
    BY <1>1, <2>2 DEF AHostsSound
  <2> QED
    BY <2>1, <2>2
<1>6. ASSUME NEW n \in aContainers' PROVE \E k \in ALanes : aHost'[k].claim = n /\ aHost'[k].journal = "active"
  <2>1. CASE n \in aContainers /\ n # v.claim
    <3>1. PICK k \in ALanes : aHost[k].claim = n /\ aHost[k].journal = "active"
      BY <2>1 DEF AHostsSound
    <3> QED
      BY <1>1, <2>1, <3>1
  <2>2. CASE n = v.claim /\ v.journal = "active"
    BY <1>1, <2>2
  <2> QED
    BY <1>6, <2>1, <2>2
<1>7. \A j, k \in ALanes : j # k /\ aHost'[j].claim # 0 => aHost'[j].claim # aHost'[k].claim
  BY <1>2 DEF AHostsSound
<1>8. AHostsSound'
  BY <1>4, <1>5, <1>6, <1>7 DEF AHostsSound
<1> QED
  BY <1>1, <1>2, <1>8

\* Hosts that wait for an answer are told.
LEMMA HostsTold ==
  ASSUME ATyped, AHostsSound, NEW W \in SUBSET ALanes, NEW stage \in {"idle", "down", "waiting", "starting"},
         \A l \in W : aHost[l].stage \in {"asking", "waiting"},
         aHost' = [l \in ALanes |-> IF l \in W THEN [aHost[l] EXCEPT !.stage = stage] ELSE aHost[l]],
         UNCHANGED aContainers, aRevoked \subseteq aRevoked', AKeepsFence,
         stage = "starting" => \A l \in W : aClaims'[aHost[l].claim].state \in {"active", "recovering"}
  PROVE  AHostsSound' /\ aHost' \in [ALanes -> AHostRows] /\ \A k \in ALanes : aHost'[k].claim = aHost[k].claim
<1>0. aHost \in [ALanes -> AHostRows]
  BY DEF ATyped
<1>1. \A l \in ALanes : l \notin W => aHost'[l] = aHost[l]
  OBVIOUS
<1>2. ASSUME NEW l \in W
      PROVE  /\ aHost'[l] \in AHostRows /\ aHost'[l].stage = stage
             /\ aHost'[l].journal = aHost[l].journal /\ aHost'[l].claim = aHost[l].claim
  BY <1>0, <1>2 DEF AHostRows, AHostStages
<1>3. aHost' \in [ALanes -> AHostRows]
  <2>1. DOMAIN aHost' = ALanes /\ aHost' = [l \in ALanes |-> aHost'[l]]
    OBVIOUS
  <2>2. \A l \in ALanes : aHost'[l] \in AHostRows
    BY <1>0, <1>1, <1>2
  <2> QED
    BY <2>1, <2>2
<1>4. \A l \in ALanes : aHost'[l].claim = aHost[l].claim /\ aHost'[l].journal = aHost[l].journal
  BY <1>1, <1>2
<1>5. ASSUME NEW l \in ALanes
      PROVE  /\ aHost'[l].stage \notin {"down", "idle"} \/ aHost'[l].journal # "none" => aHost'[l].claim # 0
             /\ AGuarded(l)' => aClaims'[aHost'[l].claim].state \in {"active", "recovering"}
             /\ aHost'[l].stage = "complete" => aHost'[l].claim \in aRevoked'
             /\ aHost'[l].journal = "active" => aHost'[l].stage \in {"active", "running", "down"}
  <2>0. AGuarded(l) => aHost[l].claim \in AClaimIds
    BY DEF ATyped, AHostsSound, AGuarded
  <2>1. CASE l \in W
    <3>1. aHost'[l].stage = stage /\ aHost'[l].journal # "active" /\ aHost'[l].claim # 0
          /\ aHost'[l].claim = aHost[l].claim
      <4>1. aHost[l].stage \in {"asking", "waiting"} /\ aHost[l].journal # "active" /\ aHost[l].claim # 0
        BY <2>1 DEF AHostsSound
      <4> QED
        BY <1>2, <2>1, <4>1
    <3> QED
      BY <2>1, <3>1 DEF AGuarded
  <2>2. CASE l \notin W
    <3>1. aHost'[l] = aHost[l] /\ AGuarded(l)' = AGuarded(l)
      BY <1>1, <2>2 DEF AGuarded
    <3> QED
      BY <2>0, <3>1 DEF AHostsSound, AKeepsFence
  <2> QED
    BY <2>1, <2>2
<1>6. AHostsSound'
  <2>1. \A k \in aContainers' : \E l \in ALanes : aHost'[l].claim = k /\ aHost'[l].journal = "active"
    BY <1>4 DEF AHostsSound
  <2>2. \A j, k \in ALanes : j # k /\ aHost'[j].claim # 0 => aHost'[j].claim # aHost'[k].claim
    BY <1>4 DEF AHostsSound
  <2> QED
    BY <1>5, <2>1, <2>2 DEF AHostsSound
<1> QED
  BY <1>3, <1>4, <1>6

\* The answer to a request moves the host that waits for it.
LEMMA AnswersKeep ==
  ASSUME ATyped, AHostsSound, NEW n \in AClaimIds, NEW stage \in {"idle", "down", "waiting", "starting"},
         AAnswers(n, stage), UNCHANGED aContainers, aRevoked \subseteq aRevoked', AKeepsFence,
         stage = "starting" => aClaims'[n].state \in {"active", "recovering"}
  PROVE  AHostsSound' /\ aHost' \in [ALanes -> AHostRows] /\ \A k \in ALanes : aHost'[k].claim = aHost[k].claim
<1> DEFINE W == {l \in ALanes : aHost[l].stage \in {"asking", "waiting"} /\ aHost[l].claim = n}
<1>1. aHost' = [l \in ALanes |-> IF l \in W THEN [aHost[l] EXCEPT !.stage = stage] ELSE aHost[l]]
  BY DEF AAnswers
<1>2. W \in SUBSET ALanes /\ \A l \in W : aHost[l].stage \in {"asking", "waiting"} /\ aHost[l].claim = n
  OBVIOUS
<1> HIDE DEF W
<1>3. stage = "starting" => \A l \in W : aClaims'[aHost[l].claim].state \in {"active", "recovering"}
  BY <1>2
<1> QED
  BY <1>1, <1>2, <1>3, HostsTold

\* Nothing that the holders of the key rely on changes.
LEMMA LockFrame ==
  ASSUME ALocked, UNCHANGED <<aPromotion, aLock, aApproved, aAttempts, aRevoked, aStatus, aRecording>>,
         \A i \in ASlots : aHandler'[i].stage = "issuing" => aHandler[i].stage = "issuing"
  PROVE  ALocked'
BY DEF ALocked, AEvidence, ACurrentAttempt

\* While the key is free nobody relies on anything.
LEMMA FreeKey ==
  ASSUME ALocked, aLock = "free"
  PROVE  /\ aPromotion.stage \notin {"prove", "swap"} /\ aRecording.stage \notin {"prove", "save"}
         /\ \A i \in ASlots : aHandler[i].stage # "issuing"
BY DEF ALocked

LEMMA FreeFrame ==
  ASSUME ALocked, aLock = "free", UNCHANGED <<aPromotion, aRecording>>,
         \A i \in ASlots : aHandler'[i].stage = "issuing" => aHandler[i].stage = "issuing"
  PROVE  ALocked'
BY FreeKey DEF ALocked

\* The claims and their results stay as they are.
LEMMA ClaimsFrame ==
  ASSUME AClaimsSound, UNCHANGED <<aClaims, aOutbox, aStatus>>, aRevoked \subseteq aRevoked',
         aReporter' \in {0, aReporter},
         aRecording'.stage \in {"prove", "save", "done"} => aRecording' = aRecording
  PROVE  AClaimsSound'
BY DEF AClaimsSound

\* A handler's slot takes another row.
LEMMA HandlerMoves ==
  ASSUME ATyped, NEW i \in ASlots, NEW v \in AHandlerRows, aHandler' = [aHandler EXCEPT ![i] = v],
         v.stage # "none" => v.claim \in AClaimIds
  PROVE  /\ aHandler' \in [ASlots -> AHandlerRows] /\ aHandler'[i] = v
         /\ \A j \in ASlots : j # i => aHandler'[j] = aHandler[j]
         /\ \A j \in ASlots : aHandler'[j].stage # "none" => aHandler'[j].claim \in AClaimIds
BY DEF ATyped

\* Types of the claims, the results and the statuses.
AClaimsTyped ==
  /\ DOMAIN aClaims = AClaimIds /\ DOMAIN aOutbox = AClaimIds /\ DOMAIN aStatus = AClaimIds
  /\ \A n \in AClaimIds : /\ DOMAIN aClaims[n] = AClaimFields
                          /\ aClaims[n].state \in AStates /\ aClaims[n].recovered \in BOOLEAN

\* Types of the hosts and the handlers.
AActorsTyped ==
  /\ aHost \in [ALanes -> AHostRows]
  /\ aHandler \in [ASlots -> AHandlerRows]
  /\ aEpoch \in Nat
  /\ \A l \in ALanes : aHost[l].claim \in {0} \cup AClaimIds
  /\ \A i \in ASlots : aHandler[i].stage # "none" => aHandler[i].claim \in AClaimIds

LEMMA TypedParts == ATyped <=> AClaimsTyped /\ AActorsTyped
BY DEF ATyped, AClaimsTyped, AActorsTyped

LEMMA ClaimsTypedFrame ==
  ASSUME AClaimsTyped, UNCHANGED <<aClaims, aOutbox, aStatus>>
  PROVE  AClaimsTyped'
BY DEF AClaimsTyped

LEMMA ActorsTypedFrame ==
  ASSUME AActorsTyped, UNCHANGED <<aHost, aHandler, aEpoch>>
  PROVE  AActorsTyped'
BY DEF AActorsTyped

\* A claim changes its state.
LEMMA StateMoves ==
  ASSUME AClaimsTyped, NEW n \in AClaimIds, NEW s \in AStates,
         aClaims' = [aClaims EXCEPT ![n].state = s]
  PROVE  /\ DOMAIN aClaims' = AClaimIds
         /\ \A m \in AClaimIds : /\ DOMAIN aClaims'[m] = AClaimFields
                                 /\ aClaims'[m].state \in AStates /\ aClaims'[m].recovered \in BOOLEAN
                                 /\ aClaims'[m].recovered = aClaims[m].recovered
                                 /\ m # n => aClaims'[m] = aClaims[m]
         /\ aClaims'[n].state = s
<1> DEFINE v == [aClaims[n] EXCEPT !.state = s]
<1>1. DOMAIN v = AClaimFields /\ v.state = s /\ v.recovered = aClaims[n].recovered
  BY DEF AClaimsTyped, AClaimFields
<1>2. aClaims' = [aClaims EXCEPT ![n] = v]
  BY DEF AClaimsTyped
<1> HIDE DEF v
<1>3. DOMAIN aClaims' = AClaimIds /\ aClaims'[n] = v /\ \A m \in AClaimIds : m # n => aClaims'[m] = aClaims[m]
  BY <1>2 DEF AClaimsTyped
<1> QED
  BY <1>1, <1>3 DEF AClaimsTyped

\* Steps that touch neither claims, hosts nor handlers.
LEMMA QuietFrame ==
  ASSUME StandaloneInv, ALocked',
         UNCHANGED <<aClaims, aOutbox, aStatus, aHost, aContainers, aHandler, aEpoch, aRevoked, aReporter>>,
         aRecording'.stage \in {"prove", "save", "done"} => aRecording' = aRecording
  PROVE  StandaloneInv'
<1>1. ATyped'
  BY TypedParts, ClaimsTypedFrame, ActorsTypedFrame DEF StandaloneInv, ATyped
<1>2. AHostsSound'
  BY HostsFrame DEF StandaloneInv, AKeepsFence
<1>3. AClaimsSound'
  BY ClaimsFrame DEF StandaloneInv
<1> QED
  BY <1>1, <1>2, <1>3 DEF StandaloneInv

LEMMA ReviewSteps ==
  ASSUME StandaloneInv, AReviewing \/ APromoting \/ ADelivering
  PROVE  StandaloneInv'
<1>0. ALocked
  BY DEF StandaloneInv
<1>1. ASSUME NEW r \in AReviews, ACreate(r) \/ APush(r) PROVE StandaloneInv'
  <2>1. UNCHANGED <<aPromotion, aLock, aApproved, aAttempts, aRevoked, aStatus, aRecording, aHandler, aClaims, aOutbox,
                    aHost, aContainers, aEpoch, aReporter>>
    BY <1>1 DEF ACreate, APush
  <2> QED
    BY <1>0, <2>1, LockFrame, QuietFrame
<1>2. ASSUME NEW r \in AReviews, AApprove(r) \/ ARevokeApproval(r) PROVE StandaloneInv'
  <2>1. aLock = "free" /\ UNCHANGED <<aPromotion, aLock, aAttempts, aRevoked, aStatus, aRecording, aHandler, aClaims,
                                      aOutbox, aHost, aContainers, aEpoch, aReporter>>
    BY <1>2 DEF AApprove, ARevokeApproval, ADecision
  <2> QED
    BY <1>0, <2>1, FreeFrame, QuietFrame
<1>p. ASSUME NEW stage, NEW r, NEW lock, APromotes(stage, r, lock)
      PROVE  /\ aPromotion'.stage = stage /\ aPromotion'.review = r /\ aLock' = lock
             /\ UNCHANGED <<aApproved, aAttempts, aRevoked, aStatus, aRecording, aHandler, aClaims, aOutbox, aHost,
                            aContainers, aEpoch, aReporter>>
  BY <1>p DEF APromotes
<1>3. ASSUME NEW r \in AReviews, APromoteCheck(r) PROVE StandaloneInv'
  <2>1. aLock = "free" /\ APromotes("prove", r, "promote") /\ AEvidence(r)
    BY <1>3 DEF APromoteCheck
  <2>2. ALocked'
    BY <1>0, <1>p, <2>1, FreeKey DEF ALocked, AEvidence, ACurrentAttempt
  <2> QED
    BY <1>p, <2>1, <2>2, QuietFrame
<1>4. ASSUME APromoteProve \/ APromoteSwap PROVE StandaloneInv'
  <2>1. aPromotion.stage \in {"prove", "swap"}
    BY <1>4 DEF APromoteProve, APromoteSwap
  <2>2. aLock = "promote" /\ AEvidence(aPromotion.review) /\ aRecording.stage \notin {"prove", "save"}
        /\ \A i \in ASlots : aHandler[i].stage # "issuing"
    BY <1>0, <2>1 DEF ALocked
  <2>3. APromotes("swap", aPromotion.review, "promote") \/ APromotes("none", 0, "free")
    BY <1>4 DEF APromoteProve, APromoteSwap
  <2>4. CASE APromotes("swap", aPromotion.review, "promote")
    <3>1. ALocked'
      BY <1>p, <2>2, <2>4 DEF ALocked, AEvidence, ACurrentAttempt
    <3> QED
      BY <1>p, <2>4, <3>1, QuietFrame
  <2>5. CASE APromotes("none", 0, "free")
    <3>1. ALocked'
      BY <1>p, <2>2, <2>5 DEF ALocked
    <3> QED
      BY <1>p, <2>5, <3>1, QuietFrame
  <2> QED
    BY <2>3, <2>4, <2>5
<1>5. CASE ADelivering
  <2>1. UNCHANGED <<aPromotion, aLock, aApproved, aAttempts, aRevoked, aStatus, aRecording, aHandler, aClaims, aOutbox,
                    aHost, aContainers, aEpoch, aReporter>>
    <3>1. CASE AOffer \/ AAdmit \/ AOfferLost
      BY <3>1 DEF AOffer, AAdmit, AOfferLost, AIntakes
    <3>2. CASE AAccept
      <4>1. UNCHANGED <<aGitVars, aReporter, aHandler, aEpoch, aHostVars, aClaims, aOutbox>>
        BY <3>2 DEF AAccept, AIntakes
      <4> QED
        BY <4>1
    <3>3. CASE AAcknowledge \/ AAdmissionExpires
      BY <3>3 DEF AAcknowledge, AAdmissionExpires
    <3> QED
      BY <1>5, <3>1, <3>2, <3>3 DEF ADelivering
  <2> QED
    BY <1>0, <2>1, LockFrame, QuietFrame
<1> QED
  BY <1>1, <1>2, <1>3, <1>4, <1>5 DEF AReviewing, APromoting

\* A request is served: it gets its claim, an answer, or a handler.
LEMMA ReserveStep ==
  ASSUME StandaloneInv, NEW l \in ALanes, NEW i \in ASlots, AReserve(l, i)
  PROVE  StandaloneInv'
<1> DEFINE n == aHost[l].claim
<1>0. ATyped /\ AHostsSound /\ AClaimsSound /\ ALocked /\ AClaimsTyped /\ AActorsTyped
  BY TypedParts DEF StandaloneInv
<1>1. n \in AClaimIds /\ n \in Nat
  BY <1>0, ClaimNumbers DEF AReserve, AHostsSound, AActorsTyped
<1>2. UNCHANGED <<aPromotion, aLock, aApproved, aAttempts, aRevoked, aStatus, aRecording, aEpoch, aOutbox,
                  aContainers, aReporter>>
  BY DEF AReserve
<1> HIDE DEF n
<1>h. aHandler' = aHandler \/ AServes(i, n, "issue")
  BY DEF AReserve, n
<1>3. /\ aHandler' \in [ASlots -> AHandlerRows]
      /\ \A j \in ASlots : aHandler'[j].stage # "none" => aHandler'[j].claim \in AClaimIds
      /\ \A j \in ASlots : aHandler'[j].stage = "issuing" => aHandler[j].stage = "issuing"
  <2>1. CASE aHandler' = aHandler
    BY <1>0, <2>1 DEF AActorsTyped
  <2>2. CASE AServes(i, n, "issue")
    <3> DEFINE v == [stage |-> "issue", claim |-> n, epoch |-> aEpoch]
    <3>1. v \in AHandlerRows /\ v.stage = "issue" /\ v.claim = n
      BY <1>0, <1>1 DEF AHandlerRows, AHandlerStages, AActorsTyped
    <3>2. aHandler' = [aHandler EXCEPT ![i] = v]
      BY <2>2 DEF AServes
    <3> HIDE DEF v
    <3> QED
      BY <1>0, <1>1, <3>1, <3>2, HandlerMoves
  <2> QED
    BY <1>h, <2>1, <2>2
<1>4. ALocked'
  BY <1>0, <1>2, <1>3, LockFrame
<1>c. \/ UNCHANGED aClaims
      \/ aClaims[n].state = "unused" /\ \E s \in {"preparing", "empty"} : \E r, g : aClaims' = [aClaims EXCEPT ![n] = AClaimRow(s, l, r, g)]
  BY DEF AReserve, n
<1>a. \E stage \in {"idle", "down", "waiting", "starting"} :
        AAnswers(n, stage) /\ (stage = "starting" => aClaims[n].state = "active" /\ UNCHANGED aClaims)
  BY DEF AReserve, n
<1>5. /\ AClaimsTyped'
      /\ \A m \in AClaimIds : m # n => aClaims'[m] = aClaims[m]
      /\ aClaims'[n] = aClaims[n] \/ (aClaims[n].state = "unused" /\ aClaims'[n].recovered = FALSE)
  <2>1. CASE UNCHANGED aClaims
    <3>1. AClaimsTyped'
      BY <1>0, <1>2, <2>1, ClaimsTypedFrame
    <3>2. aClaims'[n] = aClaims[n] /\ \A m \in AClaimIds : m # n => aClaims'[m] = aClaims[m]
      BY <2>1
    <3> QED
      BY <3>1, <3>2, Zenon
  <2>2. CASE aClaims' # aClaims
    <3>0. PICK s \in {"preparing", "empty"} : \E r, g : aClaims' = [aClaims EXCEPT ![n] = AClaimRow(s, l, r, g)]
      BY <1>c, <2>2
    <3>1. PICK r, g : aClaims' = [aClaims EXCEPT ![n] = AClaimRow(s, l, r, g)]
      BY <3>0
    <3> DEFINE v == AClaimRow(s, l, r, g)
    <3>2. DOMAIN v = AClaimFields /\ v.state = s /\ v.recovered = FALSE
      BY DEF AClaimRow, ANoClaim, AClaimFields
    <3>3. aClaims' = [aClaims EXCEPT ![n] = v]
      BY <3>1
    <3> HIDE DEF v
    <3>4. DOMAIN aClaims' = AClaimIds /\ aClaims'[n] = v /\ \A m \in AClaimIds : m # n => aClaims'[m] = aClaims[m]
      BY <1>0, <1>1, <3>3 DEF AClaimsTyped
    <3>5. AClaimsTyped'
      BY <1>0, <1>2, <3>2, <3>4 DEF AClaimsTyped, AStates
    <3> QED
      BY <1>c, <2>2, <3>2, <3>4, <3>5
  <2> QED
    BY <2>1, <2>2
<1>6. AKeepsFence
  BY <1>5 DEF AKeepsFence
<1>7. AHostsSound' /\ aHost' \in [ALanes -> AHostRows] /\ \A k \in ALanes : aHost'[k].claim = aHost[k].claim
  BY <1>0, <1>1, <1>2, <1>6, <1>a, AnswersKeep
<1>8. AActorsTyped'
  BY <1>0, <1>2, <1>3, <1>7 DEF AActorsTyped
<1>9. AClaimsSound'
  BY <1>0, <1>2, <1>5 DEF AClaimsSound
<1> QED
  BY <1>4, <1>5, <1>7, <1>8, <1>9, TypedParts DEF StandaloneInv, ATyped, AClaimsTyped, AActorsTyped

\* The stages of a claim request: issue, prove, activate, or take back.
LEMMA ServingSteps ==
  ASSUME StandaloneInv, NEW i \in ASlots, AServing(i)
  PROVE  StandaloneInv'
<1> DEFINE n == aHandler[i].claim
<1>0. ATyped /\ AHostsSound /\ AClaimsSound /\ ALocked /\ AClaimsTyped /\ AActorsTyped
  BY TypedParts DEF StandaloneInv
<1>1. aHandler[i].stage # "none" /\ UNCHANGED <<aEpoch, aOutbox, aStatus, aContainers, aReporter, aRecording,
                                                  aPromotion, aApproved>>
  BY DEF AServing, AIssueCheck, AIssueWrite, AProve, AActivate, AUndo, ARelease, AHandlerFails
<1>2. n \in AClaimIds /\ aHandler[i] \in AHandlerRows
  BY <1>0, <1>1 DEF AActorsTyped
<1> HIDE DEF n
\* What happens to the handler, the hosts, the claims, the attempts.
<1>h. ASSUME NEW stage \in AHandlerStages \ {"none"}, AHandles(i, stage)
      PROVE  /\ aHandler' \in [ASlots -> AHandlerRows]
             /\ \A j \in ASlots : aHandler'[j].stage # "none" => aHandler'[j].claim \in AClaimIds
             /\ aHandler'[i].stage = stage /\ \A j \in ASlots : j # i => aHandler'[j] = aHandler[j]
  <2> DEFINE v == [aHandler[i] EXCEPT !.stage = stage]
  <2>1. v \in AHandlerRows /\ v.stage = stage /\ v.claim = n
    BY <1>2 DEF AHandlerRows, n
  <2>2. aHandler' = [aHandler EXCEPT ![i] = v]
    BY <1>0, <1>h DEF AHandles, AActorsTyped
  <2> HIDE DEF v
  <2> QED
    BY <1>0, <1>2, <2>1, <2>2, HandlerMoves
<1>e. ASSUME AHandlerEnds(i)
      PROVE  /\ aHandler' \in [ASlots -> AHandlerRows]
             /\ \A j \in ASlots : aHandler'[j].stage # "none" => aHandler'[j].claim \in AClaimIds
             /\ aHandler'[i].stage = "none" /\ \A j \in ASlots : j # i => aHandler'[j] = aHandler[j]
  <2>1. AFree \in AHandlerRows /\ AFree.stage = "none"
    BY DEF AFree, AHandlerRows, AHandlerStages
  <2> QED
    BY <1>0, <1>e, <2>1, HandlerMoves DEF AHandlerEnds
\* The hosts stay, or the one that waits is answered.
<1>a. ASSUME aRevoked \subseteq aRevoked', AKeepsFence,
             \/ UNCHANGED aHost
             \/ AAnswers(n, "down")
             \/ AAnswers(n, "starting") /\ aClaims'[n].state \in {"active", "recovering"}
      PROVE  AHostsSound' /\ aHost' \in [ALanes -> AHostRows] /\ \A k \in ALanes : aHost'[k].claim = aHost[k].claim
  <2>1. CASE UNCHANGED aHost
    BY <1>0, <1>1, <1>a, <2>1, HostsFrame DEF AActorsTyped
  <2>2. CASE AAnswers(n, "down")
    BY <1>0, <1>1, <1>2, <1>a, <2>2, AnswersKeep
  <2>3. CASE AAnswers(n, "starting") /\ aClaims'[n].state \in {"active", "recovering"}
    BY <1>0, <1>1, <1>2, <1>a, <2>3, AnswersKeep
  <2> QED
    BY <1>a, <2>1, <2>2, <2>3
\* Everything together, for a step that leaves the claims alone.
<1>q. ASSUME UNCHANGED aClaims, aRevoked \subseteq aRevoked', ALocked',
             aHandler' \in [ASlots -> AHandlerRows],
             \A j \in ASlots : aHandler'[j].stage # "none" => aHandler'[j].claim \in AClaimIds,
             \/ UNCHANGED aHost
             \/ AAnswers(n, "down")
             \/ AAnswers(n, "starting") /\ aClaims[n].state = "active"
      PROVE  StandaloneInv'
  <2>1. AKeepsFence
    BY <1>q DEF AKeepsFence
  <2>2. AHostsSound' /\ aHost' \in [ALanes -> AHostRows] /\ \A k \in ALanes : aHost'[k].claim = aHost[k].claim
    BY <1>a, <1>q, <2>1
  <2>3. AActorsTyped'
    BY <1>0, <1>1, <1>q, <2>2 DEF AActorsTyped
  <2>4. AClaimsSound'
    BY <1>0, <1>1, <1>q, ClaimsFrame
  <2>5. AClaimsTyped'
    BY <1>0, <1>1, <1>q, ClaimsTypedFrame
  <2>6. ATyped'
    BY <2>3, <2>5 DEF ATyped, AClaimsTyped, AActorsTyped
  <2> QED
    BY <1>q, <2>2, <2>4, <2>6 DEF StandaloneInv
\* The same for one that moves a claim that is not active on.
<1>m. ASSUME NEW s \in AStates, aClaims' = [aClaims EXCEPT ![n].state = s],
             aClaims[n].state = "preparing", s \in {"active", "released"}, UNCHANGED aRevoked, ALocked',
             aHandler' \in [ASlots -> AHandlerRows],
             \A j \in ASlots : aHandler'[j].stage # "none" => aHandler'[j].claim \in AClaimIds,
             AAnswers(n, "down") \/ (AAnswers(n, "starting") /\ s = "active")
      PROVE  StandaloneInv'
  <2>1. /\ DOMAIN aClaims' = AClaimIds
        /\ \A m \in AClaimIds : /\ DOMAIN aClaims'[m] = AClaimFields
                                /\ aClaims'[m].state \in AStates /\ aClaims'[m].recovered \in BOOLEAN
                                /\ aClaims'[m].recovered = aClaims[m].recovered
                                /\ m # n => aClaims'[m] = aClaims[m]
        /\ aClaims'[n].state = s
    BY <1>0, <1>2, <1>m, StateMoves
  <2>2. AKeepsFence
    BY <1>m, <2>1 DEF AKeepsFence
  <2>3. AHostsSound' /\ aHost' \in [ALanes -> AHostRows] /\ \A k \in ALanes : aHost'[k].claim = aHost[k].claim
    BY <1>a, <1>m, <2>1, <2>2
  <2>4. AActorsTyped'
    BY <1>0, <1>1, <1>m, <2>3 DEF AActorsTyped
  <2>5. AClaimsTyped'
    BY <1>0, <1>1, <2>1 DEF AClaimsTyped
  <2>6. AClaimsSound'
    BY <1>0, <1>1, <1>m, <2>1 DEF AClaimsSound
  <2>7. ATyped'
    BY <2>4, <2>5 DEF ATyped, AClaimsTyped, AActorsTyped
  <2> QED
    BY <1>m, <2>3, <2>6, <2>7 DEF StandaloneInv
<1>3. CASE AIssueCheck(i)
  <2>1. aLock = "free" /\ UNCHANGED <<aClaims, aRevoked, aAttempts>>
    BY <1>3 DEF AIssueCheck
  <2>2. CASE AHandles(i, "issuing") /\ aLock' = "issue" /\ UNCHANGED aHost
    <3>1. "issuing" \in AHandlerStages \ {"none"}
      BY DEF AHandlerStages
    <3>2. ALocked'
      BY <1>0, <1>1, <1>h, <2>1, <2>2, <3>1, FreeKey DEF ALocked
    <3> QED
      BY <1>h, <1>q, <2>1, <2>2, <3>1, <3>2
  <2>3. CASE AHandles(i, "release") /\ UNCHANGED <<aLock, aHost>>
    <3>1. "release" \in AHandlerStages \ {"none"}
      BY DEF AHandlerStages
    <3>2. ALocked'
      BY <1>0, <1>1, <1>h, <2>1, <2>3, <3>1, FreeFrame
    <3> QED
      BY <1>h, <1>q, <2>1, <2>3, <3>1, <3>2
  <2>4. CASE AHandlerEnds(i) /\ AAnswers(n, "down") /\ UNCHANGED aLock
    <3>1. ALocked'
      BY <1>0, <1>1, <1>e, <2>1, <2>4, FreeFrame
    <3> QED
      BY <1>e, <1>q, <2>1, <2>4, <3>1
  <2> QED
    BY <1>3, <2>2, <2>3, <2>4 DEF AIssueCheck, n
<1>4. CASE AIssueWrite(i)
  <2>1. aHandler[i].stage = "issuing" /\ aLock' = "free" /\ UNCHANGED <<aClaims, aRevoked, aHost>>
    BY <1>4 DEF AIssueWrite
  <2>2. PICK stage \in {"release", "prove"} : AHandles(i, stage)
    BY <1>4 DEF AIssueWrite
  <2>3. stage \in AHandlerStages \ {"none"}
    BY DEF AHandlerStages
  <2>4. aLock = "issue" /\ \A j \in ASlots : j # i => aHandler[j].stage # "issuing"
    BY <1>0, <2>1 DEF ALocked
  <2>5. ALocked'
    BY <1>0, <1>1, <1>h, <2>1, <2>2, <2>3, <2>4 DEF ALocked
  <2> QED
    BY <1>h, <1>q, <2>1, <2>2, <2>3, <2>5
<1>5. CASE AProve(i)
  <2>1. aLock = "free" /\ UNCHANGED <<aClaims, aRevoked, aHost, aLock>>
    BY <1>5 DEF AProve
  <2>2. PICK stage \in {"activate", "undo"} : AHandles(i, stage)
    BY <1>5 DEF AProve
  <2>3. stage \in AHandlerStages \ {"none"}
    BY DEF AHandlerStages
  <2>4. ALocked'
    BY <1>0, <1>1, <1>h, <2>1, <2>2, <2>3, FreeFrame
  <2> QED
    BY <1>h, <1>q, <2>1, <2>2, <2>3, <2>4
<1>6. CASE AActivate(i)
  <2>1. UNCHANGED <<aRevoked, aLock, aAttempts>>
    BY <1>6 DEF AActivate
  <2>e. ASSUME AHandlerEnds(i) PROVE ALocked'
    BY <1>0, <1>1, <1>e, <2>1, <2>e, LockFrame
  <2>2. CASE AHandlerEnds(i) /\ AAnswers(n, "down") /\ UNCHANGED <<aClaims, aDemand>>
    BY <1>e, <1>q, <2>1, <2>2, <2>e
  <2>3. CASE AHandlerEnds(i) /\ AAnswers(n, "starting") /\ UNCHANGED <<aClaims, aDemand>> /\ aClaims[n].state = "active"
    BY <1>e, <1>q, <2>1, <2>3, <2>e
  <2>4. CASE /\ aClaims[n].state = "preparing" /\ aClaims' = [aClaims EXCEPT ![n].state = "active"]
             /\ AHandlerEnds(i) /\ AAnswers(n, "starting")
    <3>1. "active" \in AStates
      BY DEF AStates
    <3> QED
      BY <1>e, <1>m, <2>1, <2>4, <2>e, <3>1
  <2>5. CASE AHandles(i, "undo") /\ UNCHANGED <<aClaims, aDemand, aHost>>
    <3>1. "undo" \in AHandlerStages \ {"none"}
      BY DEF AHandlerStages
    <3>2. ALocked'
      BY <1>0, <1>1, <1>h, <2>1, <2>5, <3>1, LockFrame
    <3> QED
      BY <1>h, <1>q, <2>1, <2>5, <3>1, <3>2
  <2> QED
    BY <1>6, <2>2, <2>3, <2>4, <2>5 DEF AActivate, n
<1>7. CASE AUndo(i)
  <2>1. aLock = "free" /\ UNCHANGED <<aClaims, aLock>> /\ aRevoked \subseteq aRevoked'
    BY <1>7 DEF AUndo
  <2>2. CASE AHandles(i, "release") /\ UNCHANGED aHost
    <3>1. "release" \in AHandlerStages \ {"none"}
      BY DEF AHandlerStages
    <3>2. ALocked'
      BY <1>0, <1>1, <1>h, <2>1, <2>2, <3>1, FreeFrame
    <3> QED
      BY <1>h, <1>q, <2>1, <2>2, <3>1, <3>2
  <2>3. CASE AHandlerEnds(i) /\ AAnswers(n, "down")
    <3>1. ALocked'
      BY <1>0, <1>1, <1>e, <2>1, <2>3, FreeFrame
    <3> QED
      BY <1>e, <1>q, <2>1, <2>3, <3>1
  <2> QED
    BY <1>7, <2>2, <2>3 DEF AUndo, n
<1>8. CASE ARelease(i)
  <2>1. UNCHANGED <<aRevoked, aLock, aAttempts>> /\ AHandlerEnds(i) /\ AAnswers(n, "down")
    BY <1>8 DEF ARelease, n
  <2>2. ALocked'
    BY <1>0, <1>1, <1>e, <2>1, LockFrame
  <2>3. CASE aClaims[n].state = "preparing"
    <3>1. "released" \in AStates /\ aClaims' = [aClaims EXCEPT ![n].state = "released"]
      BY <1>8, <2>3 DEF AStates, ARelease, n
    <3> QED
      BY <1>e, <1>m, <2>1, <2>2, <2>3, <3>1
  <2>4. CASE aClaims[n].state # "preparing"
    <3>1. UNCHANGED aClaims
      BY <1>8, <2>4 DEF ARelease, n
    <3> QED
      BY <1>e, <1>q, <2>1, <2>2, <3>1
  <2> QED
    BY <2>3, <2>4
<1>9. CASE AHandlerFails(i)
  <2>1. UNCHANGED <<aRevoked, aLock, aAttempts, aClaims>> /\ AHandlerEnds(i) /\ AAnswers(n, "down")
    BY <1>9 DEF AHandlerFails, n
  <2>2. ALocked'
    BY <1>0, <1>1, <1>e, <2>1, LockFrame
  <2> QED
    BY <1>e, <1>q, <2>1, <2>2
<1> QED
  BY <1>3, <1>4, <1>5, <1>6, <1>7, <1>8, <1>9 DEF AServing


\* What time, a restart or a delivery does to a claim: an active one is fenced, a
\* reported one is released.
AMovesOn(m) ==
  \/ /\ aClaims'[m].state = aClaims[m].state
     /\ aOutbox'[m] = aOutbox[m] \/ (aOutbox[m] # "none" /\ aOutbox'[m] # "none")
  \/ aClaims[m].state = "active" /\ aClaims'[m].state = "recovering" /\ aOutbox'[m] = aOutbox[m]
  \/ aClaims[m].state = "reported" /\ aClaims'[m].state = "released" /\ aOutbox'[m] # "none"

LEMMA MovesOn ==
  ASSUME StandaloneInv, ALocked', UNCHANGED <<aHost, aContainers, aHandler, aRevoked, aStatus>>, aEpoch' \in Nat,
         DOMAIN aClaims' = AClaimIds, DOMAIN aOutbox' = AClaimIds,
         \A m \in AClaimIds : /\ DOMAIN aClaims'[m] = AClaimFields /\ aClaims'[m].recovered = aClaims[m].recovered
                              /\ AMovesOn(m),
         aReporter' # 0 => aReporter' \in AClaimIds /\ aOutbox'[aReporter'] # "none",
         aRecording'.stage \in {"prove", "save", "done"} =>
            aRecording'.claim \in AClaimIds /\ aOutbox'[aRecording'.claim] # "none"
  PROVE  StandaloneInv'
<1>0. ATyped /\ AHostsSound /\ AClaimsSound /\ AClaimsTyped /\ AActorsTyped
  BY TypedParts DEF StandaloneInv
<1>1. \A m \in AClaimIds : aClaims'[m].state \in AStates
  BY <1>0 DEF AMovesOn, AStates, AClaimsTyped
<1>2. AClaimsTyped'
  <2>1. \A m \in AClaimIds : aClaims'[m].recovered \in BOOLEAN
    BY <1>0 DEF AClaimsTyped
  <2>2. DOMAIN aStatus' = AClaimIds
    BY <1>0 DEF AClaimsTyped
  <2> QED
    BY <1>1, <2>1, <2>2 DEF AClaimsTyped
<1>3. AActorsTyped'
  BY <1>0 DEF AActorsTyped
<1>4. AKeepsFence
  BY DEF AKeepsFence, AMovesOn
<1>5. AHostsSound'
  BY <1>0, <1>4, HostsFrame
<1>6. ASSUME NEW m \in AClaimIds
      PROVE  /\ aOutbox'[m] # "none" => aClaims'[m].state \in {"reported", "released"}
             /\ aStatus'[m] # "none" => aOutbox'[m] # "none"
             /\ aClaims'[m].recovered => /\ aClaims'[m].state = "released" /\ aOutbox'[m] = "none"
                                         /\ m \in aRevoked' /\ aStatus'[m] = "none"
  <2>1. aOutbox'[m] # "none" => aClaims'[m].state \in {"reported", "released"}
    BY <1>0 DEF AClaimsSound, AMovesOn
  <2>2. aStatus'[m] # "none" => aOutbox'[m] # "none"
    BY <1>0 DEF AClaimsSound, AMovesOn
  <2>3. ASSUME aClaims'[m].recovered
        PROVE  aClaims'[m].state = "released" /\ aOutbox'[m] = "none" /\ m \in aRevoked' /\ aStatus'[m] = "none"
    <3>1. aClaims[m].recovered
      BY <2>3, Zenon
    <3>2. aClaims[m].state = "released" /\ aOutbox[m] = "none" /\ m \in aRevoked /\ aStatus[m] = "none"
      BY <1>0, <3>1 DEF AClaimsSound
    <3> QED
      BY <3>2 DEF AMovesOn
  <2> QED
    BY <2>1, <2>2, <2>3
<1>7. AClaimsSound'
  BY <1>6 DEF AClaimsSound
<1> QED
  BY <1>2, <1>3, <1>5, <1>7 DEF StandaloneInv, ATyped, AClaimsTyped, AActorsTyped

\* Fencing leaves the rows what they are and turns active claims into recovering ones.
LEMMA FencedRows ==
  ASSUME AClaimsTyped, NEW set
  PROVE  /\ DOMAIN AFenced(aClaims, set) = AClaimIds
         /\ \A m \in AClaimIds :
              /\ DOMAIN AFenced(aClaims, set)[m] = AClaimFields
              /\ AFenced(aClaims, set)[m].recovered = aClaims[m].recovered
              /\ AFenced(aClaims, set)[m].state = IF m \in set /\ aClaims[m].state = "active" THEN "recovering"
                                                  ELSE aClaims[m].state
BY DEF AFenced, AClaimsTyped, AClaimFields

LEMMA LeaseStep ==
  ASSUME StandaloneInv, NEW n \in AClaimIds, ALeaseExpires(n)
  PROVE  StandaloneInv'
<1>0. ALocked /\ AClaimsSound /\ AClaimsTyped /\ AActorsTyped
  BY TypedParts DEF StandaloneInv
<1>1. UNCHANGED <<aPromotion, aLock, aApproved, aAttempts, aRevoked, aStatus, aRecording, aHandler, aHost, aContainers,
                  aEpoch, aReporter, aOutbox>> /\ aClaims' = AFenced(aClaims, {n})
  BY DEF ALeaseExpires
<1>2. ALocked'
  BY <1>0, <1>1, LockFrame
<1>3. /\ DOMAIN aClaims' = AClaimIds
      /\ \A m \in AClaimIds : /\ DOMAIN aClaims'[m] = AClaimFields /\ aClaims'[m].recovered = aClaims[m].recovered
                              /\ AMovesOn(m)
  BY <1>0, <1>1, FencedRows DEF AMovesOn
<1>4. DOMAIN aOutbox' = AClaimIds /\ aEpoch' \in Nat
  BY <1>0, <1>1 DEF AClaimsTyped, AActorsTyped
<1>5. /\ aReporter' # 0 => aReporter' \in AClaimIds /\ aOutbox'[aReporter'] # "none"
      /\ aRecording'.stage \in {"prove", "save", "done"} =>
            aRecording'.claim \in AClaimIds /\ aOutbox'[aRecording'.claim] # "none"
  BY <1>0, <1>1 DEF AClaimsSound
<1> QED
  BY <1>1, <1>2, <1>3, <1>4, <1>5, MovesOn

LEMMA RestartStep ==
  ASSUME StandaloneInv, NEW changed \in BOOLEAN, ARestart(changed)
  PROVE  StandaloneInv'
<1> DEFINE fenced == AFenced(aClaims, AClaimIds)
<1>0. ALocked /\ AClaimsSound /\ AClaimsTyped /\ AActorsTyped
  BY TypedParts DEF StandaloneInv
<1>1. UNCHANGED <<aPromotion, aLock, aApproved, aAttempts, aRevoked, aStatus, aRecording, aHandler, aHost, aContainers>>
      /\ aReporter' = 0 /\ aEpoch' = aEpoch + 1
  BY DEF ARestart, ABeginsEpoch
<1>2. ALocked'
  BY <1>0, <1>1, LockFrame
<1>e. aEpoch' \in Nat
  BY <1>0, <1>1 DEF AActorsTyped
<1>f. /\ DOMAIN fenced = AClaimIds
      /\ \A m \in AClaimIds :
              /\ DOMAIN fenced[m] = AClaimFields /\ fenced[m].recovered = aClaims[m].recovered
              /\ \/ fenced[m].state = aClaims[m].state
                 \/ aClaims[m].state = "active" /\ fenced[m].state = "recovering"
  BY <1>0, FencedRows
<1>c. (aClaims' = fenced /\ UNCHANGED aOutbox) \/ AInvalidates(fenced)
  BY DEF ARestart, ABeginsEpoch
<1> HIDE DEF fenced
<1>3. /\ DOMAIN aClaims' = AClaimIds /\ DOMAIN aOutbox' = AClaimIds
      /\ \A m \in AClaimIds : /\ DOMAIN aClaims'[m] = AClaimFields /\ aClaims'[m].recovered = aClaims[m].recovered
                              /\ AMovesOn(m)
      /\ \A m \in AClaimIds : aOutbox[m] # "none" => aOutbox'[m] # "none"
  <2>1. CASE aClaims' = fenced /\ UNCHANGED aOutbox
    BY <1>0, <1>f, <2>1 DEF AMovesOn, AClaimsTyped
  <2>2. CASE AInvalidates(fenced)
    <3> DEFINE denied == {m \in AClaimIds : fenced[m].gen = aAdmission.gen /\ fenced[m].state = "reported"}
    <3>1. aClaims' = [m \in AClaimIds |-> IF m \in denied THEN [fenced[m] EXCEPT !.state = "released"] ELSE fenced[m]]
      BY <2>2 DEF AInvalidates
    <3>2. aOutbox' = [m \in AClaimIds |-> IF m \in denied THEN "denied" ELSE aOutbox[m]]
      BY <2>2 DEF AInvalidates
    <3>3. \A m \in denied : fenced[m].state = "reported"
      OBVIOUS
    <3> HIDE DEF denied
    <3>4. ASSUME NEW m \in AClaimIds, m \in denied
          PROVE  /\ DOMAIN aClaims'[m] = AClaimFields /\ aClaims'[m].recovered = aClaims[m].recovered
                 /\ AMovesOn(m) /\ aOutbox'[m] = "denied"
      <4>1. aClaims'[m] = [fenced[m] EXCEPT !.state = "released"] /\ aOutbox'[m] = "denied" /\ fenced[m].state = "reported"
        BY <3>1, <3>2, <3>3, <3>4
      <4>2. DOMAIN aClaims'[m] = AClaimFields /\ aClaims'[m].recovered = fenced[m].recovered
            /\ aClaims'[m].state = "released"
        BY <1>f, <4>1 DEF AClaimFields
      <4>3. aClaims[m].state = "reported"
        BY <1>f, <4>1
      <4>4. AMovesOn(m)
        BY <4>1, <4>2, <4>3 DEF AMovesOn
      <4> QED
        BY <1>f, <4>1, <4>2, <4>4
    <3>5. ASSUME NEW m \in AClaimIds, m \notin denied
          PROVE  /\ DOMAIN aClaims'[m] = AClaimFields /\ aClaims'[m].recovered = aClaims[m].recovered
                 /\ AMovesOn(m) /\ aOutbox'[m] = aOutbox[m]
      <4>1. aClaims'[m] = fenced[m] /\ aOutbox'[m] = aOutbox[m]
        BY <3>1, <3>2, <3>5
      <4>2. AMovesOn(m)
        BY <1>f, <4>1 DEF AMovesOn
      <4> QED
        BY <1>f, <4>1, <4>2
    <3>6. DOMAIN aClaims' = AClaimIds /\ DOMAIN aOutbox' = AClaimIds
      BY <3>1, <3>2
    <3> QED
      BY <3>4, <3>5, <3>6
  <2> QED
    BY <1>c, <2>1, <2>2
<1>4. aRecording'.stage \in {"prove", "save", "done"} =>
            aRecording'.claim \in AClaimIds /\ aOutbox'[aRecording'.claim] # "none"
  BY <1>0, <1>1, <1>3 DEF AClaimsSound
<1> QED
  BY <1>1, <1>2, <1>e, <1>3, <1>4, MovesOn

\* The end of a delivery releases the claim.
LEMMA SettleRows ==
  ASSUME AClaimsTyped, AClaimsSound, NEW n \in AClaimIds, NEW outcome \in {"denied", "delivered"}, ASettle(n, outcome)
  PROVE  /\ DOMAIN aClaims' = AClaimIds /\ DOMAIN aOutbox' = AClaimIds
         /\ \A m \in AClaimIds : /\ DOMAIN aClaims'[m] = AClaimFields /\ aClaims'[m].recovered = aClaims[m].recovered
                                 /\ AMovesOn(m)
         /\ \A m \in AClaimIds : aOutbox[m] # "none" => aOutbox'[m] # "none"
<1>1. CASE UNCHANGED aClaimVars
  BY <1>1 DEF AClaimsTyped, AMovesOn
<1>2. CASE /\ aClaims[n].state = "reported" /\ aOutbox' = [aOutbox EXCEPT ![n] = outcome]
           /\ aClaims' = [aClaims EXCEPT ![n].state = "released"]
  <2>1. "released" \in AStates
    BY DEF AStates
  <2>2. /\ DOMAIN aClaims' = AClaimIds
        /\ \A m \in AClaimIds : /\ DOMAIN aClaims'[m] = AClaimFields
                                /\ aClaims'[m].recovered = aClaims[m].recovered
                                /\ m # n => aClaims'[m] = aClaims[m]
        /\ aClaims'[n].state = "released"
    BY <1>2, <2>1, StateMoves
  <2>3. DOMAIN aOutbox' = AClaimIds /\ aOutbox'[n] = outcome /\ \A m \in AClaimIds : m # n => aOutbox'[m] = aOutbox[m]
    BY <1>2 DEF AClaimsTyped
  <2>4. \A m \in AClaimIds : AMovesOn(m)
    BY <1>2, <2>2, <2>3 DEF AMovesOn
  <2> QED
    BY <2>2, <2>3, <2>4
<1> QED
  BY <1>1, <1>2 DEF ASettle

LEMMA TakeStep ==
  ASSUME StandaloneInv, NEW n \in AClaimIds, ATakeDue(n)
  PROVE  StandaloneInv'
<1>0. ALocked /\ AClaimsSound /\ AClaimsTyped /\ AActorsTyped
  BY TypedParts DEF StandaloneInv
<1>1. UNCHANGED <<aPromotion, aLock, aApproved, aAttempts, aRevoked, aStatus, aRecording, aHandler, aHost, aContainers,
                  aEpoch>> /\ aReporter = 0 /\ aOutbox[n] \in {"pending", "delivering"}
  BY DEF ATakeDue
<1>2. ALocked' /\ aEpoch' \in Nat
  BY <1>0, <1>1, LockFrame DEF AActorsTyped
<1>3. /\ DOMAIN aClaims' = AClaimIds /\ DOMAIN aOutbox' = AClaimIds
      /\ \A m \in AClaimIds : /\ DOMAIN aClaims'[m] = AClaimFields /\ aClaims'[m].recovered = aClaims[m].recovered
                              /\ AMovesOn(m)
      /\ \A m \in AClaimIds : aOutbox[m] # "none" => aOutbox'[m] # "none"
  <2>1. CASE aOutbox' = [aOutbox EXCEPT ![n] = "delivering"] /\ UNCHANGED aClaims
    <3>1. DOMAIN aOutbox' = AClaimIds /\ aOutbox'[n] = "delivering" /\ \A m \in AClaimIds : m # n => aOutbox'[m] = aOutbox[m]
      BY <1>0, <2>1 DEF AClaimsTyped
    <3>2. \A m \in AClaimIds : AMovesOn(m)
      BY <1>1, <2>1, <3>1 DEF AMovesOn
    <3> QED
      BY <1>0, <2>1, <3>1, <3>2 DEF AClaimsTyped
  <2>2. CASE ASettle(n, "denied")
    BY <1>0, <2>2, SettleRows
  <2> QED
    BY <2>1, <2>2 DEF ATakeDue
<1>4. aReporter' # 0 => aReporter' \in AClaimIds /\ aOutbox'[aReporter'] # "none"
  <2>1. aReporter' \in {0, n}
    BY <1>1 DEF ATakeDue
  <2> QED
    BY <1>1, <1>3, <2>1
<1>5. aRecording'.stage \in {"prove", "save", "done"} =>
            aRecording'.claim \in AClaimIds /\ aOutbox'[aRecording'.claim] # "none"
  BY <1>0, <1>1, <1>3 DEF AClaimsSound
<1> QED
  BY <1>1, <1>2, <1>3, <1>4, <1>5, MovesOn

\* Git serves a report: check, proof, record, acknowledgement.
LEMMA ReportSteps ==
  ASSUME StandaloneInv, AReporting
  PROVE  StandaloneInv'
<1>0. ATyped /\ AHostsSound /\ ALocked /\ AClaimsSound /\ AClaimsTyped /\ AActorsTyped
  BY TypedParts DEF StandaloneInv
<1>1. UNCHANGED <<aPromotion, aApproved, aAttempts, aRevoked, aHandler, aHost, aContainers, aEpoch>>
  BY DEF AReporting, AReportCheck, AReportProve, AReportSave, AReportDone, AReportLost, ARecords
<1>e. aEpoch' \in Nat
  BY <1>0, <1>1 DEF AActorsTyped
<1>r. ASSUME NEW stage, NEW n, NEW lock, ARecords(stage, n, lock)
      PROVE  aRecording'.stage = stage /\ aRecording'.claim = n /\ aLock' = lock
  BY <1>r DEF ARecords
<1>u. ASSUME UNCHANGED aClaimVars
      PROVE  /\ DOMAIN aClaims' = AClaimIds /\ DOMAIN aOutbox' = AClaimIds
             /\ \A m \in AClaimIds : /\ DOMAIN aClaims'[m] = AClaimFields /\ aClaims'[m].recovered = aClaims[m].recovered
                                     /\ AMovesOn(m)
  BY <1>0, <1>u DEF AClaimsTyped, AMovesOn
<1>2. CASE AReportCheck
  <2> DEFINE n == aReporter
  <2>1. aReporter # 0 /\ aLock = "free" /\ UNCHANGED aStatus
    BY <1>2 DEF AReportCheck
  <2>2. n \in AClaimIds /\ aOutbox[n] # "none"
    BY <1>0, <2>1 DEF AClaimsSound
  <2>3. /\ aPromotion.stage \notin {"prove", "swap"} /\ aRecording.stage \notin {"prove", "save"}
        /\ \A i \in ASlots : aHandler[i].stage # "issuing"
    BY <1>0, <2>1, FreeKey
  <2>4. CASE ARecords("prove", n, "report") /\ UNCHANGED <<aClaimVars, aReporter>>
    <3>1. ALocked'
      BY <1>1, <1>r, <2>3, <2>4 DEF ALocked
    <3>2. UNCHANGED aClaimVars
      BY <2>4
    <3> QED
      BY <1>1, <1>e, <1>r, <1>u, <2>1, <2>2, <2>4, <3>1, <3>2, MovesOn
  <2>5. CASE ASettle(n, "denied") /\ aReporter' = 0 /\ ARecords("none", 0, "free")
    <3>1. ALocked'
      BY <1>1, <1>r, <2>3, <2>5 DEF ALocked
    <3>2. /\ DOMAIN aClaims' = AClaimIds /\ DOMAIN aOutbox' = AClaimIds
          /\ \A m \in AClaimIds : /\ DOMAIN aClaims'[m] = AClaimFields /\ aClaims'[m].recovered = aClaims[m].recovered
                                  /\ AMovesOn(m)
      BY <1>0, <2>2, <2>5, SettleRows
    <3> QED
      BY <1>1, <1>e, <1>r, <2>1, <2>5, <3>1, <3>2, MovesOn
  <2> QED
    BY <1>2, <2>4, <2>5 DEF AReportCheck
<1>3. CASE AReportProve
  <2> DEFINE n == aRecording.claim
  <2>1. aRecording.stage = "prove" /\ UNCHANGED <<aClaimVars, aStatus>>
    BY <1>3 DEF AReportProve
  <2>2. n \in AClaimIds /\ aOutbox[n] # "none"
    BY <1>0, <2>1 DEF AClaimsSound
  <2>3. aPromotion.stage \notin {"prove", "swap"} /\ \A i \in ASlots : aHandler[i].stage # "issuing"
    BY <1>0, <2>1 DEF ALocked
  <2>4. aReporter' \in {0, aReporter} /\ (ARecords("save", n, "report") \/ ARecords("none", 0, "free"))
    BY <1>3 DEF AReportProve
  <2>5. ALocked'
    BY <1>1, <1>r, <2>3, <2>4 DEF ALocked
  <2>6. aReporter' # 0 => aReporter' \in AClaimIds /\ aOutbox'[aReporter'] # "none"
    BY <1>0, <2>1, <2>4 DEF AClaimsSound
  <2>7. aRecording'.stage \in {"prove", "save", "done"} =>
            aRecording'.claim \in AClaimIds /\ aOutbox'[aRecording'.claim] # "none"
    BY <1>r, <2>1, <2>2, <2>4
  <2>8. UNCHANGED aClaimVars
    BY <2>1
  <2> QED
    BY <1>1, <1>e, <1>u, <2>1, <2>5, <2>6, <2>7, <2>8, MovesOn
<1>4. CASE AReportSave
  <2> DEFINE n == aRecording.claim
  <2>1. aRecording.stage = "save" /\ UNCHANGED <<aClaims, aOutbox, aReporter>> /\ ARecords("done", n, "free")
        /\ aStatus' = [aStatus EXCEPT ![n] = aClaims[n].result]
    BY <1>4 DEF AReportSave
  <2>2. n \in AClaimIds /\ aOutbox[n] # "none"
    BY <1>0, <2>1 DEF AClaimsSound
  <2>3. aPromotion.stage \notin {"prove", "swap"} /\ \A i \in ASlots : aHandler[i].stage # "issuing"
    BY <1>0, <2>1 DEF ALocked
  <2>4. aRecording'.stage = "done" /\ aRecording'.claim = n
    BY <1>r, <2>1
  <2>5. ALocked'
    BY <1>1, <2>3, <2>4 DEF ALocked
  <2> HIDE DEF n
  <2>6. DOMAIN aStatus' = AClaimIds /\ \A m \in AClaimIds : m # n => aStatus'[m] = aStatus[m]
    BY <1>0, <2>1 DEF AClaimsTyped
  <2>7. AClaimsTyped'
    BY <1>0, <2>1, <2>6 DEF AClaimsTyped
  <2>8. AClaimsSound'
    BY <1>0, <1>1, <2>1, <2>2, <2>4, <2>6 DEF AClaimsSound
  <2>9. AHostsSound'
    BY <1>0, <1>1, <2>1, HostsFrame DEF AKeepsFence
  <2>10. AActorsTyped'
    BY <1>0, <1>1, ActorsTypedFrame
  <2> QED
    BY <2>5, <2>7, <2>8, <2>9, <2>10 DEF StandaloneInv, ATyped, AClaimsTyped, AActorsTyped
<1>5. CASE AReportDone
  <2>1. aRecording'.stage = "none" /\ UNCHANGED <<aLock, aStatus>>
    BY <1>5 DEF AReportDone
  <2>2. ALocked'
    BY <1>0, <1>1, <2>1 DEF ALocked, AEvidence, ACurrentAttempt
  <2>3. CASE aReporter = aRecording.claim
    <3>1. aReporter \in AClaimIds
      BY <1>0, <1>5, <2>3 DEF AClaimsSound, AReportDone
    <3>2. ASettle(aReporter, "delivered") /\ aReporter' = 0
      BY <1>5, <2>3 DEF AReportDone
    <3>3. /\ DOMAIN aClaims' = AClaimIds /\ DOMAIN aOutbox' = AClaimIds
          /\ \A m \in AClaimIds : /\ DOMAIN aClaims'[m] = AClaimFields /\ aClaims'[m].recovered = aClaims[m].recovered
                                  /\ AMovesOn(m)
      BY <1>0, <3>1, <3>2, SettleRows
    <3> QED
      BY <1>1, <1>e, <2>1, <2>2, <3>2, <3>3, MovesOn
  <2>4. CASE aReporter # aRecording.claim
    <3>1. UNCHANGED aClaimVars /\ UNCHANGED aReporter
      BY <1>5, <2>4 DEF AReportDone
    <3>2. aReporter' # 0 => aReporter' \in AClaimIds /\ aOutbox'[aReporter'] # "none"
      BY <1>0, <3>1 DEF AClaimsSound
    <3> QED
      BY <1>1, <1>e, <1>u, <2>1, <2>2, <3>1, <3>2, MovesOn
  <2> QED
    BY <2>3, <2>4
<1>6. CASE AReportLost
  <2>1. UNCHANGED <<aLock, aStatus, aRecording, aClaimVars>> /\ aReporter' = 0
    BY <1>6 DEF AReportLost
  <2>2. ALocked'
    BY <1>0, <1>1, <2>1, LockFrame
  <2>3. UNCHANGED aClaimVars
    BY <2>1
  <2>4. aRecording'.stage \in {"prove", "save", "done"} =>
            aRecording'.claim \in AClaimIds /\ aOutbox'[aRecording'.claim] # "none"
    BY <1>0, <2>1 DEF AClaimsSound
  <2> QED
    BY <1>1, <1>e, <1>u, <2>1, <2>2, <2>3, <2>4, MovesOn
<1> QED
  BY <1>2, <1>3, <1>4, <1>5, <1>6 DEF AReporting

\* A container is of the host that has it in its journal.
LEMMA NoContainer ==
  ASSUME AHostsSound, NEW l \in ALanes, aHost[l].journal # "active"
  PROVE  aHost[l].claim \notin aContainers
BY DEF AHostsSound

\* A host changes stage and journal.
LEMMA HostGoes ==
  ASSUME ATyped, AHostsSound, NEW l \in ALanes, NEW stage \in AHostStages, NEW journal \in AJournals,
         AHostGoes(l, stage, journal),
         aHost[l].claim # 0 \/ (stage \in {"down", "idle"} /\ journal = "none"),
         stage \in {"starting", "active", "running"} \/ journal = "active" =>
            aClaims'[aHost[l].claim].state \in {"active", "recovering"},
         stage = "complete" => aHost[l].claim \in aRevoked',
         journal = "active" => stage \in {"active", "running", "down"},
         aRevoked \subseteq aRevoked',
         \A n \in AClaimIds : n # aHost[l].claim /\ aClaims[n].state \in {"active", "recovering"} =>
                                aClaims'[n].state \in {"active", "recovering"},
         \A n \in aContainers' : \/ n \in aContainers /\ n # aHost[l].claim
                                 \/ n = aHost[l].claim /\ journal = "active"
  PROVE  AHostsSound' /\ aHost' \in [ALanes -> AHostRows] /\ \A k \in ALanes : aHost'[k].claim = aHost[k].claim
<1> DEFINE v == [aHost[l] EXCEPT !.stage = stage, !.journal = journal]
<1>1. aHost[l] \in AHostRows /\ DOMAIN aHost = ALanes
  BY DEF ATyped
<1>2. v \in AHostRows /\ v.stage = stage /\ v.journal = journal /\ v.claim = aHost[l].claim
  BY <1>1 DEF AHostRows
<1>3. aHost' = [aHost EXCEPT ![l] = v]
  BY <1>1 DEF AHostGoes
<1> HIDE DEF v
<1>4. /\ v.stage \notin {"down", "idle"} \/ v.journal # "none" => v.claim # 0
      /\ v.stage \in {"starting", "active", "running"} \/ v.journal = "active" =>
            aClaims'[v.claim].state \in {"active", "recovering"}
      /\ v.stage = "complete" => v.claim \in aRevoked'
      /\ v.journal = "active" => v.stage \in {"active", "running", "down"}
  BY <1>2
<1>5. \A n \in AClaimIds : n # v.claim /\ aClaims[n].state \in {"active", "recovering"} =>
                              aClaims'[n].state \in {"active", "recovering"}
  BY <1>2
<1>6. \A n \in aContainers' : (n \in aContainers /\ n # v.claim) \/ (n = v.claim /\ v.journal = "active")
  BY <1>2
<1> QED
  BY <1>2, <1>3, <1>4, <1>5, <1>6, HostMoves

\* Steps of one host that leave the claims to themselves.
LEMMA HostOnly ==
  ASSUME StandaloneInv, AHostOnly, AHostsSound', aHost' \in [ALanes -> AHostRows],
         \A k \in ALanes : aHost'[k].claim = aHost[k].claim
  PROVE  StandaloneInv'
<1>0. ALocked /\ AClaimsSound /\ AClaimsTyped /\ AActorsTyped
  BY TypedParts DEF StandaloneInv
<1>1. ALocked'
  BY <1>0, LockFrame DEF AHostOnly
<1>2. AClaimsSound'
  BY <1>0, ClaimsFrame DEF AHostOnly
<1>3. AClaimsTyped'
  BY <1>0, ClaimsTypedFrame DEF AHostOnly
<1>4. AActorsTyped'
  BY <1>0 DEF AHostOnly, AActorsTyped
<1> QED
  BY <1>1, <1>2, <1>3, <1>4 DEF StandaloneInv, ATyped, AClaimsTyped, AActorsTyped

\* Start, launch, result, failure and crash of a host.
LEMMA HostSteps ==
  ASSUME StandaloneInv, NEW l \in ALanes,
         \/ AHostStarts(l) \/ AHostJournals(l) \/ AHostLaunches(l) \/ AHostAborts(l) \/ AHostCrashes(l)
         \/ \E result \in AOutcomes : AHostFinishes(l, result)
  PROVE  StandaloneInv'
<1> DEFINE n == aHost[l].claim
           Held == aClaims[n].state \in {"active", "recovering"}
<1>0. ATyped /\ AHostsSound
  BY DEF StandaloneInv
<1>1. AHostOnly
  BY DEF AHostStarts, AHostJournals, AHostLaunches, AHostAborts, AHostCrashes, AHostFinishes
<1>2. UNCHANGED <<aRevoked, aClaims>>
  BY <1>1 DEF AHostOnly
<1>3. aHost[l] \in AHostRows /\ aHost[l].stage \in AHostStages /\ aHost[l].journal \in AJournals
  BY <1>0 DEF ATyped, AHostRows
<1>4. aHost[l].stage \in {"starting", "active", "running"} \/ aHost[l].journal = "active" => Held
  BY <1>0 DEF AHostsSound, AGuarded
<1>5. aHost[l].stage \notin {"down", "idle"} \/ aHost[l].journal # "none" => n # 0
  BY <1>0 DEF AHostsSound
<1>6. aHost[l].journal = "active" => aHost[l].stage \in {"active", "running", "down"}
  BY <1>0 DEF AHostsSound
<1>7. aHost[l].journal # "active" => n \notin aContainers
  BY <1>0, NoContainer
<1>g. ASSUME NEW stage \in AHostStages, NEW journal \in AJournals, AHostGoes(l, stage, journal),
             n # 0 \/ (stage \in {"down", "idle"} /\ journal = "none"),
             stage \in {"starting", "active", "running"} \/ journal = "active" => Held,
             stage # "complete",
             journal = "active" => stage \in {"active", "running", "down"},
             \A m \in aContainers' : (m \in aContainers /\ m # n) \/ (m = n /\ journal = "active")
      PROVE  StandaloneInv'
  <2>1. AHostsSound' /\ aHost' \in [ALanes -> AHostRows] /\ \A k \in ALanes : aHost'[k].claim = aHost[k].claim
    BY <1>0, <1>2, <1>g, HostGoes
  <2> QED
    BY <1>1, <2>1, HostOnly
<1>s. /\ {"idle", "asking", "report", "recover", "active", "running", "down"} \subseteq AHostStages
      /\ {"none", "claim", "result", "recovery", "active"} \subseteq AJournals
  BY DEF AHostStages, AJournals
<1> HIDE DEF n, Held
<1>8. CASE AHostStarts(l)
  <2>1. CASE aHost[l].journal = "none"
    <3>1. AHostGoes(l, "idle", "none") /\ aContainers' = aContainers
      BY <1>8, <2>1 DEF AHostStarts, ACleanedForReplay
    <3>2. "idle" \in AHostStages /\ "none" \in AJournals
      BY <1>s
    <3>3. \A m \in aContainers' : m \in aContainers /\ m # n
      BY <1>7, <2>1, <3>1
    <3> QED
      BY <1>g, <3>1, <3>2, <3>3
  <2>2. CASE aHost[l].journal = "claim"
    <3>1. AHostGoes(l, "asking", "claim") /\ aContainers' = aContainers
      BY <1>8, <2>2 DEF AHostStarts, ACleanedForReplay
    <3>2. "asking" \in AHostStages /\ "claim" \in AJournals
      BY <1>s
    <3>3. n # 0 /\ \A m \in aContainers' : m \in aContainers /\ m # n
      BY <1>5, <1>7, <2>2, <3>1
    <3> QED
      BY <1>g, <3>1, <3>2, <3>3
  <2>3. CASE aHost[l].journal = "result"
    <3>1. AHostGoes(l, "report", "result") /\ aContainers' = aContainers \ {n}
      BY <1>8, <2>3 DEF AHostStarts, ACleanedForReplay, n
    <3>2. "report" \in AHostStages /\ "result" \in AJournals
      BY <1>s
    <3>3. n # 0 /\ \A m \in aContainers' : m \in aContainers /\ m # n
      BY <1>5, <1>7, <2>3, <3>1
    <3> QED
      BY <1>g, <3>1, <3>2, <3>3
  <2>4. CASE aHost[l].journal \in {"active", "recovery"}
    <3>1. AHostGoes(l, "recover", "recovery") /\ aContainers' = aContainers \ {n}
      BY <1>8, <2>4 DEF AHostStarts, ACleanedForReplay, n
    <3>2. "recover" \in AHostStages /\ "recovery" \in AJournals
      BY <1>s
    <3>3. n # 0 /\ \A m \in aContainers' : m \in aContainers /\ m # n
      BY <1>5, <2>4, <3>1
    <3> QED
      BY <1>g, <3>1, <3>2, <3>3
  <2> QED
    BY <1>3, <2>1, <2>2, <2>3, <2>4 DEF AJournals
<1>9. CASE AHostJournals(l)
  <2>1. aHost[l].stage = "starting" /\ AHostGoes(l, "active", "active") /\ aContainers' = aContainers
    BY <1>9 DEF AHostJournals
  <2>2. "active" \in AHostStages /\ "active" \in AJournals /\ n # 0 /\ Held
    BY <1>s, <1>4, <1>5, <2>1
  <2>3. \A m \in aContainers' : (m \in aContainers /\ m # n) \/ m = n
    BY <2>1
  <2> QED
    BY <1>g, <2>1, <2>2, <2>3
<1>10. CASE AHostLaunches(l)
  <2>1. aHost[l].stage = "active" /\ AHostGoes(l, "running", "active") /\ aContainers' = aContainers \cup {n}
    BY <1>10 DEF AHostLaunches, n
  <2>2. "running" \in AHostStages /\ "active" \in AJournals /\ n # 0 /\ Held
    BY <1>s, <1>4, <1>5, <2>1
  <2>3. \A m \in aContainers' : (m \in aContainers /\ m # n) \/ m = n
    BY <2>1
  <2> QED
    BY <1>g, <2>1, <2>2, <2>3
<1>11. CASE AHostAborts(l)
  <2>1. aHost[l].stage \in {"active", "running"} /\ AHostGoes(l, "recover", "recovery") /\ aContainers' = aContainers \ {n}
    BY <1>11 DEF AHostAborts, ARemoved, n
  <2>2. "recover" \in AHostStages /\ "recovery" \in AJournals /\ n # 0
    BY <1>s, <1>5, <2>1
  <2>3. \A m \in aContainers' : m \in aContainers /\ m # n
    BY <2>1
  <2> QED
    BY <1>g, <2>1, <2>2, <2>3
<1>12. CASE AHostCrashes(l)
  <2>1. AHostGoes(l, "down", aHost[l].journal) /\ aContainers' = aContainers
    BY <1>12 DEF AHostCrashes
  <2>2. "down" \in AHostStages /\ (n # 0 \/ aHost[l].journal = "none")
    BY <1>s, <1>5
  <2>3. \A m \in aContainers' : (m \in aContainers /\ m # n) \/ (m = n /\ aHost[l].journal = "active")
    BY <1>7, <2>1
  <2> QED
    BY <1>3, <1>4, <1>g, <2>1, <2>2, <2>3
<1>13. ASSUME NEW result \in AOutcomes, AHostFinishes(l, result) PROVE StandaloneInv'
  <2> DEFINE v == [aHost[l] EXCEPT !.stage = "report", !.journal = "result", !.result = result]
  <2>1. v \in AHostRows /\ v.stage = "report" /\ v.journal = "result" /\ v.claim = n
    BY <1>3 DEF AHostRows, AHostStages, AJournals, AOutcomes, n
  <2>2. aHost' = [aHost EXCEPT ![l] = v] /\ aHost[l].stage = "running" /\ aContainers' = aContainers \ {n}
    BY <1>0, <1>13 DEF AHostFinishes, ARemoved, ATyped, n
  <2> HIDE DEF v
  <2>3. n # 0
    BY <1>5, <2>2
  <2>h. /\ v.stage \notin {"down", "idle"} \/ v.journal # "none" => v.claim # 0
        /\ v.stage \in {"starting", "active", "running"} \/ v.journal = "active" =>
              aClaims'[v.claim].state \in {"active", "recovering"}
        /\ v.stage = "complete" => v.claim \in aRevoked'
        /\ v.journal = "active" => v.stage \in {"active", "running", "down"}
        /\ v.claim = aHost[l].claim
    BY <2>1, <2>3 DEF n
  <2>i. \A m \in AClaimIds : m # v.claim /\ aClaims[m].state \in {"active", "recovering"} =>
                                aClaims'[m].state \in {"active", "recovering"}
    BY <1>2
  <2>j. \A m \in aContainers' : (m \in aContainers /\ m # v.claim) \/ (m = v.claim /\ v.journal = "active")
    BY <2>1, <2>2
  <2>4. AHostsSound' /\ aHost' \in [ALanes -> AHostRows] /\ \A k \in ALanes : aHost'[k].claim = aHost[k].claim
    BY <1>0, <1>2, <2>1, <2>2, <2>h, <2>i, <2>j, HostMoves
  <2> QED
    BY <1>1, <2>4, HostOnly
<1> QED
  BY <1>8, <1>9, <1>10, <1>11, <1>12, <1>13

\* A host asks with the number of a claim that nobody used.
LEMMA AskStep ==
  ASSUME StandaloneInv, NEW l \in ALanes, AHostAsks(l)
  PROVE  StandaloneInv'
<1>0. ATyped /\ AHostsSound /\ ALocked /\ AClaimsSound /\ AClaimsTyped /\ AActorsTyped
  BY TypedParts DEF StandaloneInv
<1>1. PICK n \in AClaimIds : /\ \A k \in ALanes : aHost[k].claim # n
                             /\ aHost' = [aHost EXCEPT ![l] = [stage |-> "asking", journal |-> "claim", claim |-> n, result |-> "none"]]
  BY DEF AHostAsks
<1>2. AHostOnly /\ UNCHANGED aContainers /\ aHost[l].stage = "idle"
  BY DEF AHostAsks
<1> DEFINE v == [stage |-> "asking", journal |-> "claim", claim |-> n, result |-> "none"]
<1>3. v \in AHostRows /\ v.stage = "asking" /\ v.journal = "claim" /\ v.claim = n /\ n # 0
  BY ClaimNumbers DEF AHostRows, AHostStages, AJournals
<1>4. aHost' = [aHost EXCEPT ![l] = v]
  BY <1>1
<1> HIDE DEF v
<1>5. aHost' \in [ALanes -> AHostRows] /\ aHost'[l] = v /\ \A k \in ALanes : k # l => aHost'[k] = aHost[k]
  BY <1>0, <1>3, <1>4 DEF ATyped
<1>6. AHostsSound'
  <2>1. \A j, k \in ALanes : j # k /\ aHost'[j].claim # 0 => aHost'[j].claim # aHost'[k].claim
    BY <1>0, <1>1, <1>3, <1>5 DEF AHostsSound
  <2>2. ASSUME NEW k \in ALanes
        PROVE  /\ aHost'[k].stage \notin {"down", "idle"} \/ aHost'[k].journal # "none" => aHost'[k].claim # 0
               /\ AGuarded(k)' => aClaims'[aHost'[k].claim].state \in {"active", "recovering"}
               /\ aHost'[k].stage = "complete" => aHost'[k].claim \in aRevoked'
               /\ aHost'[k].journal = "active" => aHost'[k].stage \in {"active", "running", "down"}
    <3>1. CASE k = l
      BY <1>3, <1>5, <3>1 DEF AGuarded
    <3>2. CASE k # l
      BY <1>0, <1>2, <1>5, <3>2 DEF AHostsSound, AGuarded, AHostOnly
    <3> QED
      BY <3>1, <3>2
  <2>3. ASSUME NEW m \in aContainers' PROVE \E k \in ALanes : aHost'[k].claim = m /\ aHost'[k].journal = "active"
    <3>1. PICK k \in ALanes : aHost[k].claim = m /\ aHost[k].journal = "active"
      BY <1>0, <1>2, <2>3 DEF AHostsSound
    <3>2. k # l
      BY <1>0, <1>2, <3>1 DEF AHostsSound
    <3> QED
      BY <1>5, <3>1, <3>2
  <2> QED
    BY <2>1, <2>2, <2>3 DEF AHostsSound
<1>7. ALocked'
  BY <1>0, <1>2, LockFrame DEF AHostOnly
<1>8. AClaimsSound'
  BY <1>0, <1>2, ClaimsFrame DEF AHostOnly
<1>9. AClaimsTyped'
  BY <1>0, <1>2, ClaimsTypedFrame DEF AHostOnly
<1>10. AActorsTyped'
  BY <1>0, <1>1, <1>2, <1>3, <1>5 DEF AHostOnly, AActorsTyped
<1> QED
  BY <1>6, <1>7, <1>8, <1>9, <1>10 DEF StandaloneInv, ATyped, AClaimsTyped, AActorsTyped

\* A host changes the row of its own claim.
LEMMA OwnClaim ==
  ASSUME StandaloneInv, NEW n \in AClaimIds, ALocked', AHostsSound', aHost' \in [ALanes -> AHostRows],
         \A k \in ALanes : aHost'[k].claim = aHost[k].claim,
         UNCHANGED <<aHandler, aEpoch, aStatus, aReporter, aRecording, aRevoked>>, AClaimsTyped',
         \A m \in AClaimIds : m # n => aClaims'[m] = aClaims[m] /\ aOutbox'[m] = aOutbox[m],
         aOutbox[n] # "none" => aOutbox'[n] # "none",
         aOutbox'[n] # "none" => aClaims'[n].state \in {"reported", "released"},
         aClaims'[n].recovered => /\ aClaims'[n].state = "released" /\ aOutbox'[n] = "none"
                                  /\ n \in aRevoked /\ aStatus[n] = "none"
  PROVE  StandaloneInv'
<1>0. AClaimsSound /\ AActorsTyped
  BY TypedParts DEF StandaloneInv
<1>1. AActorsTyped'
  BY <1>0 DEF AActorsTyped
<1>2. \A m \in AClaimIds : aOutbox[m] # "none" => aOutbox'[m] # "none"
  OBVIOUS
<1>3. ASSUME NEW m \in AClaimIds
      PROVE  /\ aOutbox'[m] # "none" => aClaims'[m].state \in {"reported", "released"}
             /\ aStatus'[m] # "none" => aOutbox'[m] # "none"
             /\ aClaims'[m].recovered => /\ aClaims'[m].state = "released" /\ aOutbox'[m] = "none"
                                         /\ m \in aRevoked' /\ aStatus'[m] = "none"
  <2>1. CASE m = n
    BY <1>0, <2>1 DEF AClaimsSound
  <2>2. CASE m # n
    BY <1>0, <2>2 DEF AClaimsSound
  <2> QED
    BY <2>1, <2>2
<1>4. /\ aReporter' # 0 => aReporter' \in AClaimIds /\ aOutbox'[aReporter'] # "none"
      /\ aRecording'.stage \in {"prove", "save", "done"} =>
            aRecording'.claim \in AClaimIds /\ aOutbox'[aRecording'.claim] # "none"
  BY <1>0, <1>2 DEF AClaimsSound
<1>5. AClaimsSound'
  BY <1>3, <1>4 DEF AClaimsSound
<1> QED
  BY <1>1, <1>5 DEF StandaloneInv, ATyped, AClaimsTyped, AActorsTyped

\* A claim is of the host that has it: what happens to it is no one else's matter.
LEMMA HostEnds ==
  ASSUME StandaloneInv, NEW l \in ALanes, aHost[l].stage \in {"report", "recover", "revoke", "complete"},
         NEW stage \in {"idle", "down", "recover", "revoke", "complete"}, NEW journal \in {"none", "result", "recovery"},
         AHostGoes(l, stage, journal), UNCHANGED aContainers, aRevoked \subseteq aRevoked',
         stage = "complete" => aHost[l].claim \in aRevoked',
         \A m \in AClaimIds : m # aHost[l].claim => aClaims'[m] = aClaims[m]
  PROVE  /\ aHost[l].claim \in AClaimIds
         /\ AHostsSound' /\ aHost' \in [ALanes -> AHostRows] /\ \A k \in ALanes : aHost'[k].claim = aHost[k].claim
<1>0. ATyped /\ AHostsSound
  BY DEF StandaloneInv
<1>1. aHost[l].claim # 0 /\ aHost[l].claim \in AClaimIds /\ aHost[l].journal # "active"
  BY <1>0 DEF AHostsSound, ATyped
<1>2. aHost[l].claim \notin aContainers
  BY <1>0, <1>1, NoContainer
<1>3. stage \in AHostStages /\ journal \in AJournals
  BY DEF AHostStages, AJournals
<1>4. \A m \in aContainers' : \/ m \in aContainers /\ m # aHost[l].claim
                              \/ m = aHost[l].claim /\ journal = "active"
  BY <1>2
<1>5. \A m \in AClaimIds : m # aHost[l].claim /\ aClaims[m].state \in {"active", "recovering"} =>
                                aClaims'[m].state \in {"active", "recovering"}
  OBVIOUS
<1>6. ~(stage \in {"starting", "active", "running"} \/ journal = "active")
  OBVIOUS
<1> QED
  BY <1>0, <1>1, <1>3, <1>4, <1>5, <1>6, HostGoes

\* Result, recovery, revocation: how a host gets rid of its claim.
LEMMA EndSteps ==
  ASSUME StandaloneInv, NEW l \in ALanes,
         AResult(l) \/ AResultLost(l) \/ ARecover(l) \/ ARevokeAttempt(l) \/ ACompleteRecovery(l)
  PROVE  StandaloneInv'
<1> DEFINE n == aHost[l].claim
<1>0. ATyped /\ AHostsSound /\ AClaimsSound /\ ALocked /\ AClaimsTyped /\ AActorsTyped
  BY TypedParts DEF StandaloneInv
<1>1. aHost[l].stage \in {"report", "recover", "revoke", "complete"} /\ UNCHANGED aContainers
      /\ UNCHANGED <<aHandler, aEpoch, aStatus, aReporter, aRecording, aPromotion, aLock, aApproved, aAttempts>>
  BY DEF AResult, AResultLost, ARecover, ARevokeAttempt, ACompleteRecovery
<1>2. n # 0 /\ n \in AClaimIds
  BY <1>0, <1>1 DEF AHostsSound, ATyped
<1>w. ASSUME UNCHANGED aRevoked PROVE ALocked'
  BY <1>0, <1>1, <1>w, LockFrame
<1> HIDE DEF n
\* Only the host moves.
<1>g. ASSUME NEW stage \in {"idle", "down", "recover"}, NEW journal \in {"none", "result", "recovery"},
             AHostGoes(l, stage, journal), AHostOnly
      PROVE  StandaloneInv'
  <2>1. AHostsSound' /\ aHost' \in [ALanes -> AHostRows] /\ \A k \in ALanes : aHost'[k].claim = aHost[k].claim
    BY <1>1, <1>g, HostEnds DEF AHostOnly
  <2> QED
    BY <1>g, <2>1, HostOnly
\* The result is stored.
<1>t. ASSUME NEW result, AStored(n, result), aClaims[n].state = "active", UNCHANGED aRevoked,
             AHostGoes(l, "idle", "none") \/ AHostGoes(l, "down", "result")
      PROVE  StandaloneInv'
  <2> DEFINE v == [aClaims[n] EXCEPT !.state = "reported", !.result = result]
  <2>1. DOMAIN v = AClaimFields /\ v.state = "reported" /\ v.recovered = aClaims[n].recovered
    BY <1>0, <1>2 DEF AClaimsTyped, AClaimFields
  <2>2. aClaims' = [aClaims EXCEPT ![n] = v] /\ aOutbox' = [aOutbox EXCEPT ![n] = "pending"]
    BY <1>0, <1>2, <1>t DEF AStored, AClaimsTyped
  <2> HIDE DEF v
  <2>3. /\ DOMAIN aClaims' = AClaimIds /\ aClaims'[n] = v
        /\ \A m \in AClaimIds : m # n => aClaims'[m] = aClaims[m]
    BY <1>0, <1>2, <2>2 DEF AClaimsTyped
  <2>4. /\ DOMAIN aOutbox' = AClaimIds /\ aOutbox'[n] = "pending"
        /\ \A m \in AClaimIds : m # n => aOutbox'[m] = aOutbox[m]
    BY <1>0, <1>2, <2>2 DEF AClaimsTyped
  <2>5. AClaimsTyped'
    BY <1>0, <1>1, <1>2, <2>1, <2>3, <2>4 DEF AClaimsTyped, AStates
  <2>6. AHostsSound' /\ aHost' \in [ALanes -> AHostRows] /\ \A k \in ALanes : aHost'[k].claim = aHost[k].claim
    BY <1>1, <1>t, <2>3, HostEnds DEF n
  <2>7. ~aClaims'[n].recovered
    <3>1. ~aClaims[n].recovered
      BY <1>0, <1>2, <1>t DEF AClaimsSound
    <3> QED
      BY <2>1, <2>3, <3>1, Zenon
  <2> QED
    BY <1>1, <1>2, <1>t, <1>w, <2>1, <2>3, <2>4, <2>5, <2>6, <2>7, OwnClaim
<1>3. CASE AResult(l)
  <2>1. UNCHANGED <<aGitVars, aIntakeVars, aReporter, aHandler>>
    BY <1>3 DEF AResult
  <2>2. CASE aOutbox[n] # "none"
    BY <1>3, <1>g, <2>1, <2>2 DEF AResult, AHostOnly, n
  <2>3. CASE aOutbox[n] = "none" /\ aClaims[n].state = "active"
    <3>1. AStored(n, aHost[l].result) /\ AHostGoes(l, "idle", "none") /\ UNCHANGED aRevoked
      BY <1>3, <2>3 DEF AResult, n
    <3> QED
      BY <1>t, <2>3, <3>1
  <2>4. CASE aOutbox[n] = "none" /\ aClaims[n].state # "active"
    <3>1. AHostGoes(l, "recover", "recovery") /\ UNCHANGED aClaimVars
      BY <1>3, <2>4 DEF AResult, n
    <3> QED
      BY <1>g, <2>1, <3>1 DEF AHostOnly
  <2> QED
    BY <2>2, <2>3, <2>4
<1>4. CASE AResultLost(l)
  <2>1. AStored(n, aHost[l].result) /\ AHostGoes(l, "down", "result") /\ UNCHANGED aRevoked /\ aClaims[n].state = "active"
    BY <1>4 DEF AResultLost, n
  <2> QED
    BY <1>t, <2>1
<1>5. CASE ARecover(l)
  <2>1. UNCHANGED <<aGitVars, aIntakeVars, aDemand, aOutbox, aReporter, aHandler>>
    BY <1>5 DEF ARecover
  <2>2. CASE aClaims[n].state \in ARecoverable
    <3>1. aClaims' = [aClaims EXCEPT ![n].state = "recovering"] /\ AHostGoes(l, "revoke", "recovery") /\ UNCHANGED aRevoked
      BY <1>5, <2>1, <2>2 DEF ARecover, n
    <3>2. "recovering" \in AStates
      BY DEF AStates
    <3>3. /\ DOMAIN aClaims' = AClaimIds
          /\ \A m \in AClaimIds : /\ DOMAIN aClaims'[m] = AClaimFields
                                  /\ aClaims'[m].state \in AStates /\ aClaims'[m].recovered \in BOOLEAN
                                  /\ aClaims'[m].recovered = aClaims[m].recovered
                                  /\ m # n => aClaims'[m] = aClaims[m]
          /\ aClaims'[n].state = "recovering"
      BY <1>0, <1>2, <3>1, <3>2, StateMoves
    <3>4. AClaimsTyped'
      BY <1>0, <1>1, <2>1, <3>3 DEF AClaimsTyped
    <3>5. AHostsSound' /\ aHost' \in [ALanes -> AHostRows] /\ \A k \in ALanes : aHost'[k].claim = aHost[k].claim
      BY <1>1, <3>1, <3>3, HostEnds DEF n
    <3>6. ~aClaims'[n].recovered /\ aOutbox[n] = "none"
      <4>1. ~aClaims[n].recovered /\ aOutbox[n] = "none"
        BY <1>0, <1>2, <2>2 DEF AClaimsSound, ARecoverable
      <4> QED
        BY <1>2, <3>3, <4>1, Zenon
    <3>7. aOutbox' = aOutbox
      BY <2>1
    <3> QED
      BY <1>1, <1>2, <1>w, <3>1, <3>3, <3>4, <3>5, <3>6, <3>7, OwnClaim
  <2>3. CASE aClaims[n].state \notin ARecoverable
    <3>1. (AHostGoes(l, "idle", "none") \/ AHostGoes(l, "down", "recovery")) /\ UNCHANGED aClaims
      BY <1>5, <2>3 DEF ARecover, n
    <3>2. AHostOnly
      BY <2>1, <3>1 DEF AHostOnly
    <3> QED
      BY <1>g, <3>1, <3>2
  <2> QED
    BY <2>2, <2>3
<1>6. CASE ARevokeAttempt(l)
  <2>1. aLock = "free" /\ UNCHANGED <<aClaims, aOutbox, aReporter, aHandler>> /\ aRevoked \subseteq aRevoked'
    BY <1>6 DEF ARevokeAttempt
  <2>2. (AHostGoes(l, "complete", "recovery") /\ n \in aRevoked') \/ AHostGoes(l, "down", "recovery")
    BY <1>6 DEF ARevokeAttempt, n
  <2>3. ALocked'
    BY <1>0, <1>1, <2>1, FreeFrame
  <2>4. AHostsSound' /\ aHost' \in [ALanes -> AHostRows] /\ \A k \in ALanes : aHost'[k].claim = aHost[k].claim
    <3>1. CASE AHostGoes(l, "complete", "recovery") /\ n \in aRevoked'
      BY <1>1, <2>1, <3>1, HostEnds DEF n
    <3>2. CASE AHostGoes(l, "down", "recovery")
      BY <1>1, <2>1, <3>2, HostEnds DEF n
    <3> QED
      BY <2>2, <3>1, <3>2
  <2>5. AClaimsSound'
    BY <1>0, <1>1, <2>1, ClaimsFrame
  <2>6. AClaimsTyped'
    BY <1>0, <1>1, <2>1, ClaimsTypedFrame
  <2>7. AActorsTyped'
    BY <1>0, <1>1, <2>1, <2>4 DEF AActorsTyped
  <2> QED
    BY <2>3, <2>4, <2>5, <2>6, <2>7 DEF StandaloneInv, ATyped, AClaimsTyped, AActorsTyped
<1>7. CASE ACompleteRecovery(l)
  <2>1. UNCHANGED <<aGitVars, aIntakeVars, aOutbox, aReporter, aHandler>> /\ aHost[l].stage = "complete"
    BY <1>7 DEF ACompleteRecovery
  <2>2. CASE aClaims[n].state = "recovering"
    <3> DEFINE v == [aClaims[n] EXCEPT !.state = "released", !.recovered = TRUE]
    <3>1. DOMAIN v = AClaimFields /\ v.state = "released" /\ v.recovered = TRUE
      BY <1>0, <1>2 DEF AClaimsTyped, AClaimFields
    <3>2. aClaims' = [aClaims EXCEPT ![n] = v] /\ AHostGoes(l, "idle", "none")
      BY <1>0, <1>2, <1>7, <2>2 DEF ACompleteRecovery, AClaimsTyped, n
    <3> HIDE DEF v
    <3>3. /\ DOMAIN aClaims' = AClaimIds /\ aClaims'[n] = v
          /\ \A m \in AClaimIds : m # n => aClaims'[m] = aClaims[m]
      BY <1>0, <1>2, <3>2 DEF AClaimsTyped
    <3>4. UNCHANGED <<aOutbox, aRevoked>> /\ n \in aRevoked
      BY <1>0, <2>1 DEF AHostsSound, n
    <3>5. AClaimsTyped'
      BY <1>0, <1>1, <1>2, <3>1, <3>3, <3>4 DEF AClaimsTyped, AStates
    <3>6. AHostsSound' /\ aHost' \in [ALanes -> AHostRows] /\ \A k \in ALanes : aHost'[k].claim = aHost[k].claim
      BY <1>1, <3>2, <3>3, <3>4, HostEnds DEF n
    <3>7. aOutbox[n] = "none" /\ aStatus[n] = "none"
      BY <1>0, <1>2, <2>2 DEF AClaimsSound
    <3>8. aClaims'[n].state = "released" /\ aOutbox'[n] = "none"
      BY <3>1, <3>3, <3>4, <3>7
    <3> QED
      BY <1>1, <1>2, <1>w, <3>3, <3>4, <3>5, <3>6, <3>7, <3>8, OwnClaim
  <2>3. CASE aClaims[n].state # "recovering"
    <3>1. AHostGoes(l, "down", "recovery") /\ UNCHANGED <<aClaims, aDemand>>
      BY <1>7, <2>3 DEF ACompleteRecovery, n
    <3> QED
      BY <1>g, <2>1, <3>1 DEF AHostOnly
  <2> QED
    BY <2>2, <2>3
<1> QED
  BY <1>3, <1>4, <1>5, <1>6, <1>7

\* Git restarts: what it was serving is forgotten.
LEMMA GitStep ==
  ASSUME StandaloneInv, AGitRestarts
  PROVE  StandaloneInv'
<1> DEFINE W == {l \in ALanes : \E i \in ASlots : /\ aHandler[i].stage = "issuing" /\ aHandler[i].claim = aHost[l].claim
                                                  /\ aHost[l].stage = "waiting"}
<1>0. ATyped /\ AHostsSound /\ AClaimsSound /\ ALocked /\ AClaimsTyped /\ AActorsTyped
  BY TypedParts DEF StandaloneInv
<1>1. /\ UNCHANGED <<aClaims, aOutbox, aStatus, aRevoked, aReporter, aEpoch, aContainers>>
      /\ aPromotion'.stage = "none" /\ aRecording'.stage = "none"
  BY DEF AGitRestarts, AIdle
<1>2. aHost' = [l \in ALanes |-> IF l \in W THEN [aHost[l] EXCEPT !.stage = "down"] ELSE aHost[l]]
  BY DEF AGitRestarts
<1>3. W \in SUBSET ALanes /\ \A l \in W : aHost[l].stage \in {"asking", "waiting"}
  OBVIOUS
<1> HIDE DEF W
<1>4. AHostsSound' /\ aHost' \in [ALanes -> AHostRows] /\ \A k \in ALanes : aHost'[k].claim = aHost[k].claim
  <2>1. AKeepsFence
    BY <1>1 DEF AKeepsFence
  <2> QED
    BY <1>0, <1>1, <1>2, <1>3, <2>1, HostsTold
<1>5. AFree \in AHandlerRows /\ AFree.stage = "none"
  BY DEF AFree, AHandlerRows, AHandlerStages
<1>6. \A i \in ASlots : \/ aHandler'[i] = AFree
                        \/ aHandler'[i] = aHandler[i] /\ aHandler[i].stage # "issuing"
  BY DEF AGitRestarts
<1>7. aHandler' \in [ASlots -> AHandlerRows]
  <2>1. aHandler' = [i \in ASlots |-> aHandler'[i]]
    BY DEF AGitRestarts
  <2>2. \A i \in ASlots : aHandler'[i] \in AHandlerRows
    BY <1>0, <1>5, <1>6 DEF AActorsTyped
  <2> QED
    BY <2>1, <2>2
<1>8. AActorsTyped'
  BY <1>0, <1>1, <1>4, <1>5, <1>6, <1>7 DEF AActorsTyped
<1>9. ALocked'
  BY <1>1, <1>5, <1>6 DEF ALocked
<1>10. AClaimsSound'
  BY <1>0, <1>1, ClaimsFrame
<1>11. AClaimsTyped'
  BY <1>0, <1>1, ClaimsTypedFrame
<1> QED
  BY <1>4, <1>8, <1>9, <1>10, <1>11 DEF StandaloneInv, ATyped, AClaimsTyped, AActorsTyped

LEMMA StandaloneStart == StandaloneInit => StandaloneInv
<1> SUFFICES ASSUME StandaloneInit PROVE StandaloneInv
  OBVIOUS
<1>1. AResting \in AHostRows /\ AResting.stage = "down" /\ AResting.journal = "none" /\ AResting.claim = 0
  BY DEF AResting, AHostRows, AHostStages, AJournals
<1>2. AFree \in AHandlerRows /\ AFree.stage = "none"
  BY DEF AFree, AHandlerRows, AHandlerStages
<1>3. DOMAIN ANoClaim = AClaimFields /\ ANoClaim.state = "unused" /\ ANoClaim.recovered = FALSE
  BY DEF ANoClaim, AClaimFields
<1>4. /\ aClaims = [n \in AClaimIds |-> ANoClaim] /\ aOutbox = [n \in AClaimIds |-> "none"]
      /\ aStatus = [n \in AClaimIds |-> "none"] /\ aHandler = [i \in ASlots |-> AFree] /\ aEpoch = 1
      /\ aHost = [l \in ALanes |-> AResting] /\ aContainers = {} /\ aReporter = 0
      /\ aRecording.stage = "none" /\ aPromotion.stage = "none"
  BY DEF StandaloneInit, AIdle
<1>5. AClaimsTyped
  BY <1>3, <1>4 DEF AClaimsTyped, AStates
<1>6. AActorsTyped
  BY <1>1, <1>2, <1>4 DEF AActorsTyped
<1>7. AHostsSound
  BY <1>1, <1>4 DEF AHostsSound, AGuarded
<1>8. AClaimsSound
  <2>1. \A n \in AClaimIds : aOutbox[n] = "none" /\ aStatus[n] = "none" /\ aClaims[n].recovered = FALSE
    BY <1>3, <1>4
  <2> QED
    BY <1>4, <2>1 DEF AClaimsSound
<1>9. ALocked
  BY <1>2, <1>4 DEF ALocked
<1> QED
  BY <1>5, <1>6, <1>7, <1>8, <1>9, TypedParts DEF StandaloneInv

\* Every step of the stack keeps its invariant.
LEMMA StandaloneStep == StandaloneInv /\ [StandaloneNext]_aVars => StandaloneInv'
<1> SUFFICES ASSUME StandaloneInv, [StandaloneNext]_aVars PROVE StandaloneInv'
  OBVIOUS
<1>1. CASE AReviewing \/ APromoting \/ ADelivering
  BY <1>1, ReviewSteps
<1>2. CASE AReporting
  BY <1>2, ReportSteps
<1>3. CASE AGitRestarts
  BY <1>3, GitStep
<1>4. ASSUME NEW l \in ALanes, NEW i \in ASlots, AReserve(l, i) PROVE StandaloneInv'
  BY <1>4, ReserveStep
<1>5. ASSUME NEW i \in ASlots, AServing(i) PROVE StandaloneInv'
  BY <1>5, ServingSteps
<1>6. ASSUME NEW l \in ALanes, AHosting(l) PROVE StandaloneInv'
  <2>1. CASE AHostStarts(l) \/ AHostJournals(l) \/ AHostLaunches(l) \/ AHostAborts(l) \/ AHostCrashes(l)
    BY <2>1, HostSteps
  <2>2. CASE AHostAsks(l)
    BY <2>2, AskStep
  <2>3. CASE AResult(l) \/ AResultLost(l) \/ ARecover(l) \/ ARevokeAttempt(l) \/ ACompleteRecovery(l)
    BY <2>3, EndSteps
  <2> QED
    BY <1>6, <2>1, <2>2, <2>3 DEF AHosting
<1>7. ASSUME NEW l \in ALanes, NEW result \in AOutcomes, AHostFinishes(l, result) PROVE StandaloneInv'
  BY <1>7, HostSteps
<1>8. ASSUME NEW n \in AClaimIds, ALeaseExpires(n) \/ ATakeDue(n) PROVE StandaloneInv'
  BY <1>8, LeaseStep, TakeStep
<1>9. ASSUME NEW changed \in BOOLEAN, ARestart(changed) PROVE StandaloneInv'
  BY <1>9, RestartStep
<1>10. CASE UNCHANGED aVars
  <2>1. UNCHANGED <<aPromotion, aLock, aApproved, aAttempts, aRevoked, aStatus, aRecording, aHandler, aClaims, aOutbox,
                    aHost, aContainers, aEpoch, aReporter>>
    BY <1>10
  <2> QED
    BY <2>1, LockFrame, QuietFrame DEF StandaloneInv
<1> QED
  BY <1>1, <1>2, <1>3, <1>4, <1>5, <1>6, <1>7, <1>8, <1>9, <1>10 DEF StandaloneNext

(* The invariant of the standalone stack, for any number of reviews, hosts *)
(* and claims.                                                             *)
THEOREM StandaloneInductive == StandaloneSpec => []StandaloneInv
BY StandaloneStart, StandaloneStep, PTL DEF StandaloneSpec

(* A capacity is occupied while its container may run, and no claim is     *)
(* both evidence and abandoned: container and claim meet in the journal of *)
(* the one host that has the claim, which nobody but that host ends.       *)
THEOREM ClaimsEndInOneWay == StandaloneSpec => []AOneWay
<1>1. StandaloneInv => AOneWay
  <2> SUFFICES ASSUME StandaloneInv PROVE AOneWay
    OBVIOUS
  <2>1. ACapacityFenced
    BY DEF StandaloneInv, AHostsSound, AGuarded, ACapacityFenced
  <2>2. AOneEnding
    BY DEF StandaloneInv, AClaimsSound, AOneEnding
  <2> QED
    BY <2>1, <2>2 DEF AOneWay
<1> QED
  BY <1>1, StandaloneInductive, PTL

\* Only the swap of a promotion moves the head.
LEMMA HeadMoves ==
  ASSUME [StandaloneNext]_aVars, aHead' # aHead
  PROVE  APromoteSwap
<1>1. ASSUME NEW r \in AReviews, ACreate(r) \/ APush(r) \/ AApprove(r) \/ ARevokeApproval(r) \/ APromoteCheck(r)
      PROVE  FALSE
  BY <1>1 DEF ACreate, APush, AApprove, ARevokeApproval, ADecision, APromoteCheck
<1>2. ~APromoteProve
  BY DEF APromoteProve
<1>3. ~ADelivering
  <2>1. CASE AAccept
    BY <2>1 DEF AAccept, AIntakes
  <2>2. CASE AOffer \/ AAdmit \/ AAcknowledge \/ AOfferLost \/ AAdmissionExpires
    BY <2>2 DEF AOffer, AAdmit, AAcknowledge, AOfferLost, AAdmissionExpires, AIntakes
  <2> QED
    BY <2>1, <2>2 DEF ADelivering
<1>4. ~AReporting
  BY DEF AReporting, AReportCheck, AReportProve, AReportSave, AReportDone, AReportLost, ARecords
<1>5. ~AGitRestarts
  BY DEF AGitRestarts
<1>6. ASSUME NEW l \in ALanes, NEW i \in ASlots, AReserve(l, i) PROVE FALSE
  BY <1>6 DEF AReserve
<1>7. ASSUME NEW i \in ASlots, AServing(i) PROVE FALSE
  BY <1>7 DEF AServing, AIssueCheck, AIssueWrite, AProve, AActivate, AUndo, ARelease, AHandlerFails
<1>8. ASSUME NEW l \in ALanes, AHosting(l) PROVE FALSE
  BY <1>8 DEF AHosting, AHostStarts, AHostAsks, AHostJournals, AHostLaunches, AHostAborts, AHostCrashes, AHostOnly,
              AResult, AResultLost, ARecover, ARevokeAttempt, ACompleteRecovery
<1>9. ASSUME NEW l \in ALanes, NEW result \in AOutcomes, AHostFinishes(l, result) PROVE FALSE
  BY <1>9 DEF AHostFinishes, AHostOnly
<1>10. ASSUME NEW n \in AClaimIds, ALeaseExpires(n) \/ ATakeDue(n) PROVE FALSE
  BY <1>10 DEF ALeaseExpires, ATakeDue
<1>11. ASSUME NEW changed \in BOOLEAN, ARestart(changed) PROVE FALSE
  BY <1>11 DEF ARestart
<1>12. ~UNCHANGED aVars
  OBVIOUS
<1> QED
  BY <1>1, <1>2, <1>3, <1>4, <1>5, <1>6, <1>7, <1>8, <1>9, <1>10, <1>11, <1>12
     DEF StandaloneNext, AReviewing, APromoting

(* The protected head moves once, to a candidate that is approved and whose*)
(* current, unrevoked attempt succeeded at that moment: the promotion holds*)
(* the protected ref's key from its check of the evidence to its swap, and *)
(* approval, revocation, status and attempts wait for that key.            *)
THEOREM HeadMovesOnEvidence == StandaloneSpec => APromotedOnEvidence
<1>1. ASSUME StandaloneInv, [StandaloneNext]_aVars, aHead' # aHead
      PROVE  /\ aHead = 0
             /\ aHead' \in aApproved
             /\ \E n \in AClaimIds :
                   Last(aAttempts[aHead']) = n /\ n \notin aRevoked /\ aStatus[n] = "success"
  <2>1. APromoteSwap
    BY <1>1, HeadMoves
  <2>2. aHead = 0 /\ aHead' = aPromotion.review /\ aPromotion.stage = "swap"
    BY <1>1, <2>1 DEF APromoteSwap, AStale
  <2>3. AEvidence(aPromotion.review)
    BY <1>1, <2>2 DEF StandaloneInv, ALocked
  <2> QED
    BY <2>2, <2>3 DEF AEvidence, ACurrentAttempt
<1>2. StandaloneInv /\ [StandaloneNext]_aVars =>
        [aHead' # aHead =>
          /\ aHead = 0
          /\ aHead' \in aApproved
          /\ \E n \in AClaimIds :
                Last(aAttempts[aHead']) = n /\ n \notin aRevoked /\ aStatus[n] = "success"]_aVars
  BY <1>1
<1> QED
  BY <1>2, StandaloneInductive, PTL DEF StandaloneSpec, APromotedOnEvidence
=============================================================================
