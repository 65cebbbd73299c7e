----------------------------- MODULE MCDecisions ------------------------------
(* Liveness of native Git for TLC: the decisions on a review, its promotion and *)
(* recovery, and the delivery of review events.  The two share no variable:     *)
(* subject names the one that moves, and its fairness is asked of the           *)
(* behaviours in which it moves.                                                *)
EXTENDS MCNativePromotion, EventDelivery

VARIABLE subject

\* Two events of a head that a promotion leaves behind, and one of the new head.
HeadsOfEvents == <<0, 0, 1>>

DecisionsInit == subject \in {"decisions", "delivery"} /\ Init /\ DeliveryInit

DecisionsNext ==
  \/ subject = "decisions" /\ Next /\ UNCHANGED <<subject, dVars>>
  \/ subject = "delivery" /\ DeliveryNext /\ UNCHANGED <<subject, vars>>

PromotionFair ==
  /\ WF_vars(subject = "decisions" /\ Start)
  /\ WF_vars(subject = "decisions" /\ (RecoverIntent \/ RecoverDone))
  /\ WF_vars(subject = "decisions" /\ Finalize)
  /\ WF_vars(subject = "decisions" /\ Swap)
  /\ WF_vars(subject = "decisions" /\ PublishReview)
  /\ WF_vars(subject = "decisions" /\ LoopRun)
  /\ WF_vars(subject = "decisions" /\ \E p \in Proposals : ReconcileOne(p))
  /\ WF_vars(subject = "decisions" /\ ReconcileDone)
  /\ WF_vars(subject = "decisions" /\ ReconcileFails /\ ~RootTarget)

DeliveryFair ==
  /\ WF_dVars(subject = "delivery" /\ DDispatcher)
  /\ WF_dVars(subject = "delivery" /\ \E e \in DEvents : DHandler(e, TRUE))
  /\ WF_dVars(subject = "delivery" /\ DTick)

DecisionsSpec ==
  DecisionsInit /\ [][DecisionsNext]_<<subject, vars, dVars>> /\ PromotionFair /\ DeliveryFair
===============================================================================
