---------------------------- MODULE EventDelivery ----------------------------
(***************************************************************************)
(* Delivery of review-job events from native Git to ordinary CI: the event *)
(* dispatcher and its delivery markers                                     *)
(* (native-git/authoritative-native-event-dispatcher.ts and                *)
(* authoritative-native-delivery-store.ts), the receipt intake with its    *)
(* two proofs (core/nativeRootCiEventReceipt*.ts, nativeRootAdmission*.ts) *)
(* and the proofs native Git gives (native-git/native-root-ci-proof-http). *)
(*                                                                         *)
(* An event names the protected head it was reviewed against; a head is    *)
(* its sequence number.  The intake awaits native Git twice, so a handler  *)
(* whose caller gave up may finish after the next delivery has begun.      *)
(* Deadlines count ticks: a marker or lease with ttl 0 has expired.        *)
(***************************************************************************)
EXTENDS Naturals, Sequences, FiniteSets

CONSTANTS DEvents,     \* events, as numbers in the order of their creation
          DHeadOf,     \* the protected head each event was reviewed against
          DMaxHead,    \* last protected head
          DWindow,     \* suppression of a rejected event, in ticks
          DRound,      \* ticks that a round of the dispatcher may take
          DLease,      \* eligibility lease, in ticks
          DMaxPlanes,  \* bound on control-plane generations
          DMaxFaults   \* bound on timeouts and crashes

ASSUME DeliveryAssumption ==
    /\ DEvents \subseteq Nat /\ DHeadOf \in [DEvents -> 0..DMaxHead]
    /\ DMaxHead \in Nat /\ DWindow \in Nat \ {0} /\ DRound \in Nat /\ DLease \in Nat \ {0}
    /\ DMaxPlanes \in Nat \ {0} /\ DMaxFaults \in Nat

VARIABLES
    dHead,       \* native Git: the current protected head
    dKnown,      \* native Git: events in stored review envelopes
    dMarkers,    \* native Git: the delivery marker of each event
    dOut,        \* the dispatcher: the delivery it is at
    dTicks,      \* ticks passed in this round of the dispatcher
    dPlane,      \* the serving control-plane generation
    dAdmission,  \* ordinary CI: the Project's admission row
    dReceipts,   \* ordinary CI: receipts, by generation and event
    dDemands,    \* ordinary CI: state of the demand of each receipt
    dHandlers,   \* ordinary CI: intake handlers in flight
    dFaults

dVars == <<dHead, dKnown, dMarkers, dOut, dTicks, dPlane, dAdmission, dReceipts,
           dDemands, dHandlers, dFaults>>

nativeGitVars == <<dHead, dKnown>>
dispatcherVars == <<dMarkers, dOut, dTicks>>
intakeVars == <<dAdmission, dReceipts, dDemands, dHandlers>>

DPlanes == 1..DMaxPlanes
DNoEvent == 0

DNoMarker == [state |-> "none", ttl |-> 0]
DIdle == [event |-> DNoEvent, stage |-> "idle", ttl |-> 0]
DNoAdmission == [plane |-> 0, seq |-> 0, ttl |-> 0]

-----------------------------------------------------------------------------
DeliveryInit ==
    /\ dHead = 0 /\ dKnown = {}
    /\ dMarkers = [e \in DEvents |-> DNoMarker]
    /\ dOut = DIdle /\ dTicks = 0
    /\ dPlane = 1
    /\ dAdmission = DNoAdmission
    /\ dReceipts = {}
    /\ dDemands = [r \in DPlanes \X DEvents |-> "none"]
    /\ dHandlers = {}
    /\ dFaults = 0

DFault == dFaults < DMaxFaults /\ dFaults' = dFaults + 1

DDown(n) == IF n = 0 THEN 0 ELSE n - 1

-----------------------------------------------------------------------------
(* Native Git.                                                             *)

\* A review envelope with an event is published for the current head.
DReview(e) ==
    /\ e \notin dKnown /\ DHeadOf[e] = dHead
    /\ dKnown' = dKnown \cup {e}
    /\ UNCHANGED <<dHead, dispatcherVars, dPlane, intakeVars, dFaults>>

\* A promotion moves the protected head: every event known so far is stale.
DPromote ==
    /\ dHead < DMaxHead
    /\ dHead' = dHead + 1
    /\ UNCHANGED <<dKnown, dispatcherVars, dPlane, intakeVars, dFaults>>

\* readMarkers: a marker suppresses its event until its own deadline.
DSuppressed(e) == dMarkers[e].state # "none" /\ dMarkers[e].ttl > 0

\* pendingDelivery: the oldest event that no marker suppresses.
DPending == {e \in dKnown : ~DSuppressed(e)}

DOldestPending == CHOOSE e \in DPending : \A f \in DPending : e =< f

\* run: a round starts with the oldest pending event.
DDeliver ==
    /\ dOut.stage = "idle" /\ DPending # {}
    /\ dOut' = [event |-> DOldestPending, stage |-> "sent", ttl |-> 0]
    /\ dTicks' = 0
    /\ dHandlers' = dHandlers \cup
         {[event |-> DOldestPending, stage |-> "begin", seq |-> 0, awaited |-> TRUE]}
    /\ UNCHANGED <<nativeGitVars, dMarkers, dPlane, dAdmission, dReceipts, dDemands, dFaults>>

DForsake(handlers) == {[h EXCEPT !.awaited = FALSE] : h \in handlers}

\* The request timeout, or a reply lost on the way: the event stays pending
\* and the handler goes on without a caller.
DTimeout ==
    /\ dOut.stage # "idle" /\ DFault
    /\ dOut' = DIdle
    /\ dHandlers' = DForsake(dHandlers)
    /\ UNCHANGED <<nativeGitVars, dMarkers, dTicks, dPlane, dAdmission, dReceipts, dDemands>>

\* publishReviewRecord and replaceReviewRecord: the marker's file is written
\* aside and linked or renamed, and a leftover is recovered by the next reader.
DMarked(e, state, ttl) == [dMarkers EXCEPT ![e] = [state |-> state, ttl |-> ttl]]

\* acknowledgeAuthoritativeNativeDelivery: the event's marker is published or
\* replaced, with the deadline of the acknowledgement.
DAcknowledge ==
    /\ dOut.stage = "acknowledged"
    /\ dMarkers' = DMarked(dOut.event, "recorded", dOut.ttl)
    /\ dOut' = DIdle
    /\ UNCHANGED <<nativeGitVars, dTicks, dPlane, intakeVars, dFaults>>

\* supersedeAuthoritativeNativeDelivery: a definitive rejection suppresses the
\* event for the minimum retry time.
\* Mutant: the rejected event may be offered again at once.
DSupersedeAtOnce ==
    /\ dOut.stage = "rejected"
    /\ dMarkers' = DMarked(dOut.event, "superseded", 0)
    /\ dOut' = DIdle
    /\ UNCHANGED <<nativeGitVars, dTicks, dPlane, intakeVars, dFaults>>
DSupersede ==
    /\ dOut.stage = "rejected"
    /\ dMarkers' = DMarked(dOut.event, "superseded", DWindow)
    /\ dOut' = DIdle
    /\ UNCHANGED <<nativeGitVars, dTicks, dPlane, intakeVars, dFaults>>

\* Any other answer is retried after a wait.
DRetry ==
    /\ dOut.stage = "failed"
    /\ dOut' = DIdle
    /\ UNCHANGED <<nativeGitVars, dMarkers, dTicks, dPlane, intakeVars, dFaults>>

-----------------------------------------------------------------------------
(* The receipt intake.                                                     *)

DActive == dAdmission.plane = dPlane /\ dAdmission.ttl > 0

\* The answer to a caller that still waits.
DAnswer(h, stage, ttl) ==
    /\ dHandlers' = dHandlers \ {h}
    /\ dOut' = IF h.awaited THEN [dOut EXCEPT !.stage = stage, !.ttl = ttl] ELSE dOut
    /\ UNCHANGED <<dMarkers, dTicks>>

DGoesOn(h, stage, seq) ==
    /\ dHandlers' = (dHandlers \ {h}) \cup {[h EXCEPT !.stage = stage, !.seq = seq]}
    /\ UNCHANGED dispatcherVars

\* The handler up to its first await: an exact replay under a current
\* eligibility is acknowledged at once.
DIntake(h) ==
    /\ h.stage = "begin"
    /\ IF DActive /\ <<dPlane, h.event>> \in dReceipts
       THEN DAnswer(h, "acknowledged", dAdmission.ttl)
       ELSE DGoesOn(h, "policy", 0)
    /\ UNCHANGED <<nativeGitVars, dPlane, dAdmission, dReceipts, dDemands, dFaults>>

\* native-root-ci-proof/policy: the current root, read under the serializer.
DPolicyProof(h) ==
    /\ h.stage = "policy"
    /\ DGoesOn(h, "register", dHead)
    /\ UNCHANGED <<nativeGitVars, dPlane, dAdmission, dReceipts, dDemands, dFaults>>

\* registerMutation: same binding, older root: conflict; newer root: every
\* waiting demand of the generation is superseded; the lease is refreshed.
DRegisters(seq) == ~(dAdmission.plane = dPlane /\ seq < dAdmission.seq)

DSupersededBy(seq) ==
    IF dAdmission.plane = dPlane /\ seq > dAdmission.seq
    THEN {r \in DOMAIN dDemands : r[1] = dPlane /\ dDemands[r] = "queued"} ELSE {}

\* eventMatches: the event was reviewed against the admitted root.
DEventMatches(e, seq) == DHeadOf[e] = seq

\* The handler resumes with the policy proof, registers it and evaluates the
\* request against the refreshed admission.
DRegister(h) ==
    /\ h.stage = "register"
    /\ IF DRegisters(h.seq)
       THEN /\ dAdmission' = [plane |-> dPlane, seq |-> h.seq, ttl |-> DLease]
            /\ dDemands' = [r \in DOMAIN dDemands |->
                              IF r \in DSupersededBy(h.seq) THEN "superseded" ELSE dDemands[r]]
            /\ IF <<dPlane, h.event>> \in dReceipts THEN DAnswer(h, "acknowledged", DLease)
               ELSE IF DEventMatches(h.event, h.seq) THEN DGoesOn(h, "proof", 0)
               ELSE DAnswer(h, "rejected", 0)
       ELSE DAnswer(h, "failed", 0) /\ UNCHANGED <<dAdmission, dDemands>>
    /\ UNCHANGED <<nativeGitVars, dPlane, dReceipts, dFaults>>

\* native-root-ci-proof/review-event: only for a review that is not stale.
DReviewProof(h) ==
    /\ h.stage = "proof"
    /\ IF DHeadOf[h.event] = dHead THEN DGoesOn(h, "commit", dHead)
       ELSE DAnswer(h, "rejected", 0)
    /\ UNCHANGED <<nativeGitVars, dPlane, dAdmission, dReceipts, dDemands, dFaults>>

\* proofMatches: the proof's root is the admitted root, and the event's.
\* Mutant: the proof is compared with the event only, not with the admission.
DProofMatchesEvent(h) == DEventMatches(h.event, h.seq)
DProofMatches(h) == h.seq = dAdmission.seq /\ DEventMatches(h.event, dAdmission.seq)

\* commit: everything is evaluated again in the transaction that inserts the
\* receipt and its queued demand.
DCommit(h) ==
    LET r == <<dPlane, h.event>>
    IN /\ h.stage = "commit"
       /\ IF DActive /\ r \notin dReceipts /\ DProofMatches(h)
          THEN dReceipts' = dReceipts \cup {r} /\ dDemands' = [dDemands EXCEPT ![r] = "queued"]
          ELSE UNCHANGED <<dReceipts, dDemands>>
       /\ IF DActive /\ (r \in dReceipts \/ DProofMatches(h))
          THEN DAnswer(h, "acknowledged", dAdmission.ttl) ELSE DAnswer(h, "rejected", 0)
       /\ UNCHANGED <<nativeGitVars, dPlane, dAdmission, dFaults>>

\* Native Git or ordinary CI is out of reach for a proof: 503.
DProofUnavailable(h) ==
    /\ h.stage \in {"policy", "proof"} /\ DFault
    /\ DAnswer(h, "failed", 0)
    /\ UNCHANGED <<nativeGitVars, dPlane, dAdmission, dReceipts, dDemands>>

-----------------------------------------------------------------------------
(* Time and restarts.                                                      *)

\* A round is a request of five seconds at most and two turns in native Git's
\* queue; while the dispatcher sleeps any time may pass.
DSleeps == dOut.stage = "idle" /\ DPending = {}

DTick ==
    /\ DSleeps \/ dTicks < DRound
    /\ dTicks' = IF DSleeps THEN 0 ELSE dTicks + 1
    /\ \E e \in DEvents : dMarkers[e].ttl > 0
    /\ dMarkers' = [e \in DEvents |-> [dMarkers[e] EXCEPT !.ttl = DDown(@)]]
    /\ dAdmission' = [dAdmission EXCEPT !.ttl = DDown(@)]
    /\ dOut' = [dOut EXCEPT !.ttl = DDown(@)]
    /\ UNCHANGED <<nativeGitVars, dPlane, dReceipts, dDemands, dHandlers, dFaults>>

\* Native Git restarts; markers and envelopes are files.
DCrash ==
    /\ DFault
    /\ dOut' = DIdle /\ dTicks' = 0
    /\ dHandlers' = DForsake(dHandlers)
    /\ UNCHANGED <<nativeGitVars, dMarkers, dPlane, dAdmission, dReceipts, dDemands>>

\* A control-plane update: both services restart with a new generation, and
\* activation supersedes the demands of the old one.  A changed destination
\* makes every marker void.
DRollover(moved) ==
    /\ dPlane < DMaxPlanes /\ dPlane' = dPlane + 1
    /\ dOut' = DIdle /\ dTicks' = 0 /\ dHandlers' = {}
    /\ dMarkers' = IF moved THEN [e \in DEvents |-> DNoMarker] ELSE dMarkers
    /\ dDemands' = [r \in DOMAIN dDemands |->
                      IF dDemands[r] = "queued" THEN "superseded" ELSE dDemands[r]]
    /\ UNCHANGED <<nativeGitVars, dAdmission, dReceipts, dFaults>>

-----------------------------------------------------------------------------
DDispatcher == DDeliver \/ DAcknowledge \/ DSupersede \/ DRetry

DHandler(e, awaited) ==
    \E h \in dHandlers : /\ h.event = e /\ h.awaited = awaited
                         /\ \/ DIntake(h) \/ DPolicyProof(h) \/ DRegister(h)
                            \/ DReviewProof(h) \/ DCommit(h)

DeliveryNext ==
    \/ \E e \in DEvents : DReview(e)
    \/ DPromote
    \/ DDispatcher
    \/ \E e \in DEvents, awaited \in BOOLEAN : DHandler(e, awaited)
    \/ \E h \in dHandlers : DProofUnavailable(h)
    \/ DTimeout
    \/ DTick
    \/ DCrash
    \/ \E moved \in BOOLEAN : DRollover(moved)

DeliverySpec == DeliveryInit /\ [][DeliveryNext]_dVars

\* The dispatcher's loop, the handler it waits for and time go on.
DeliveryFairness ==
    /\ WF_dVars(DDispatcher)
    /\ WF_dVars(\E e \in DEvents : DHandler(e, TRUE))
    /\ WF_dVars(DTick)

DeliveryFairSpec == DeliverySpec /\ DeliveryFairness

-----------------------------------------------------------------------------
(* Properties.                                                             *)

\* Type invariant of markers, admission and demands.
DeliveryTypeOK ==
    /\ dHead \in 0..DMaxHead /\ dKnown \subseteq DEvents
    /\ dMarkers \in [DEvents -> [state : {"none", "recorded", "superseded"}, ttl : Nat]]
    /\ dAdmission \in [plane : {0} \cup DPlanes, seq : 0..DMaxHead, ttl : 0..DLease]
    /\ dReceipts \subseteq DPlanes \X DEvents
    /\ dDemands \in [DPlanes \X DEvents -> {"none", "queued", "superseded"}]

\* No demand waits for a root the admission has left: a handler that proved
\* its event before a promotion and commits after another handler registered
\* the new root inserts nothing.
DQueuedIsAdmittedRoot ==
    \A e \in DEvents : dDemands[<<dPlane, e>>] = "queued" =>
        dAdmission.plane = dPlane /\ DHeadOf[e] = dAdmission.seq

\* A replayed acknowledgement never covers up a lost demand: as long as the
\* admitted root is the one an event was reviewed against, its receipt in this
\* generation has a queued demand, through lease expiries and refreshes.
DReceiptKeepsDemand ==
    \A e \in DEvents : (<<dPlane, e>> \in dReceipts /\ DHeadOf[e] = dAdmission.seq)
        => dDemands[<<dPlane, e>>] = "queued"

\* The queue of a generation is the work of its admitted root, no more, no less.
DDemandsFollowRoot == DQueuedIsAdmittedRoot /\ DReceiptKeepsDemand

\* native-git-transport.md: the superseded marker has a finite retry deadline
\* "so a stale oldest event cannot block newer work": an event of the last head
\* is received by the serving generation in the end.
DStaleNeverBlocks ==
    \A e \in DEvents : (DHeadOf[e] = DMaxHead /\ e \in dKnown) ~> (<<dPlane, e>> \in dReceipts)

\* A walk over the older events ends before the first of them is due again: a
\* rejected one by its window, an acknowledged one by the eligibility lease.
DWalkFits ==
    LET walk == DRound * Cardinality({e \in DEvents : DHeadOf[e] # DMaxHead})
    IN walk < DWindow /\ walk < DLease

\* The newest event is delivered in the end, although older ones are rejected
\* or refreshed again and again and replies are lost, as long as they stay
\* suppressed for a walk over all of them.  The dispatcher does not see to
\* that: it suppresses a rejected event for less than one request may take.
DNewestDelivered == DWalkFits => DStaleNeverBlocks
=============================================================================
