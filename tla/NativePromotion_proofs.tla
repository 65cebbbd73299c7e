----------------------- MODULE NativePromotion_proofs -----------------------
(***************************************************************************)
(* Machine-checked proofs about NativePromotion, for every set of commits, *)
(* proposals, reviewers and jobs, every policy, and every bound.           *)
(***************************************************************************)
EXTENDS NativePromotion, SequenceTheorems, TLAPS

(***************************************************************************)
(* The inductive invariant. HeadMatchesLedger and IntentRecoverable are    *)
(* not inductive alone: that a promotion's review was never finalized      *)
(* before follows from where all reviews and all finalized rows lie in the *)
(* commit order.                                                           *)
(***************************************************************************)

\* A running promotion works on the durable intent, and the ref is where the
\* promotion's program counter says.
PromotionInStep ==
  /\ pc \in {"intended", "swapped"} => intent # None /\ promoting = intent
  /\ pc = "intended" => protectedRef = intent.review.head
  /\ pc = "swapped" => protectedRef = intent.review.candidate

\* The intent was saved for a published fast-forward review.
IntentOfReview ==
  intent # None =>
    /\ intent.review \in reviews
    /\ <<intent.review.head, intent.review.candidate>> \in Ancestor

\* A review is never ahead of the head or of the proposal it was made for.
ReviewsBehind ==
  \A r \in reviews :
    /\ <<r.head, LedgerHead>> \in Ancestor
    /\ proposalRef[r.proposal] # None
    /\ <<r.candidate, proposalRef[r.proposal]>> \in Ancestor

\* Every promoted candidate is an ancestor of the present head.
FinalizedBehind ==
  \A i \in DOMAIN finalized :
    <<finalized[i].review.candidate, LedgerHead>> \in Ancestor

\* A receive and a reconciliation only hold proposals that exist, and a
\* reconciliation has reviewed every one it no longer holds.
ReconciliationInStep ==
  /\ pc = "received" => receiving \in Pushed
  /\ todo \subseteq Pushed
  /\ pc = "reconciling" => \A p \in Pushed \ todo : CurrentReview(p) \in reviews

\* What holds of the durable state alone, whatever the process is doing.
DurableInv ==
  /\ HeadMatchesLedger
  /\ LedgerChain
  /\ IntentRecoverable
  /\ IntentOfReview
  /\ ReviewsBehind
  /\ FinalizedBehind
  /\ OneActiveApproval

IInv ==
  /\ TypeOK
  /\ DurableInv
  /\ PromotionInStep
  /\ ReconciliationInStep

\* The tuples of variables that UNCHANGED names.
USE DEF durable, volatile, loop, refs, ledger, decisions, operation,
        reconciliation, status

-----------------------------------------------------------------------------
(* Types *)

\* The head the ledger folds to is a commit.
LEMMA LedgerHeadType ==
  ASSUME TypeOK
  PROVE  LedgerHead \in Commits
<1>1. CASE finalized = <<>>
  BY <1>1, CommitAssumption DEF LedgerHead
<1>2. CASE finalized # <<>>
  <2>1. finalized[Len(finalized)] \in Transitions
    BY <1>2 DEF TypeOK
  <2> QED
    BY <1>2, <2>1 DEF LedgerHead, Transitions, ReviewIds
<1> QED
  BY <1>1, <1>2

\* A review of a proposal that exists is well formed.
LEMMA CurrentReviewType ==
  ASSUME TypeOK, NEW p \in Pushed
  PROVE  CurrentReview(p) \in ReviewIds
BY LedgerHeadType DEF TypeOK, Pushed, CurrentReview, ReviewIds

\* A process that exits leaves well-typed memory behind.
LEMMA ExitType ==
  ASSUME TypeOK, Exit, UNCHANGED durable, crashes' \in Nat, faults' \in Nat
  PROVE  TypeOK'
BY DEF TypeOK, Exit, Release

\* Recording a well-formed attempt keeps the types.
LEMMA AttemptType ==
  ASSUME TypeOK, NEW r \in reviews, NEW j \in Jobs, NEW a \in Attempt,
         SetAttempt(r, j, a)
  PROVE  TypeOK'
<1>1. attempt' \in [ReviewIds \X Jobs -> Attempt]
  BY DEF TypeOK, SetAttempt
<1> QED
  BY <1>1 DEF TypeOK, SetAttempt

\* Every step keeps every variable in its type.
LEMMA TypeStep ==
  ASSUME IInv, [Next]_vars
  PROVE  TypeOK'
<1> USE DEF IInv, Fault, Release
<1>1. ASSUME NEW p \in Proposals, NEW c \in Commits,
             Receive(p, c) \/ ReceiveKilled(p, c)
      PROVE  TypeOK'
  BY <1>1, BoundAssumption DEF TypeOK, Receive, ReceiveKilled
<1>2. CASE PublishReview
  <2>1. CurrentReview(receiving) \in ReviewIds
    BY <1>2, CurrentReviewType DEF PublishReview, ReconciliationInStep
  <2> QED
    BY <1>2, <2>1 DEF TypeOK, PublishReview
<1>3. CASE PublishReviewFails
  BY <1>3 DEF TypeOK, PublishReviewFails
<1>4. CASE LoopRun \/ Activate
  BY <1>4 DEF TypeOK, LoopRun, Activate, BeginReconcile, Pushed
<1>5. ASSUME NEW p \in Proposals, ReconcileOne(p)
      PROVE  TypeOK'
  <2>1. CurrentReview(p) \in ReviewIds
    BY <1>5, CurrentReviewType DEF ReconcileOne, ReconciliationInStep
  <2> QED
    BY <1>5, <2>1 DEF TypeOK, ReconcileOne
<1>6. CASE ReconcileDone
  BY <1>6 DEF TypeOK, ReconcileDone
<1>7. CASE ReconcileFails
  <2>1. faults' \in Nat
    BY <1>7 DEF TypeOK, ReconcileFails
  <2>2. CASE caller = "startup"
    <3>1. Exit /\ UNCHANGED durable /\ crashes' \in Nat
      BY <1>7, <2>2 DEF TypeOK, ReconcileFails
    <3> QED
      BY <2>1, <3>1, ExitType
  <2>3. CASE caller = "activate"
    BY <1>7, <2>1, <2>3 DEF TypeOK, ReconcileFails
  <2>4. CASE caller = "loop"
    <3>1. UNCHANGED durable /\ UNCHANGED crashes /\ LoopFailure
      BY <1>7, <2>4 DEF ReconcileFails
    <3>2. /\ failures' \in Nat
          /\ wake' \in BOOLEAN /\ exhausted' \in BOOLEAN /\ ready' \in BOOLEAN
      <4>1. CASE failures < Retries
        BY <3>1, <4>1 DEF LoopFailure, TypeOK
      <4>2. CASE ~(failures < Retries)
        BY <3>1, <4>2 DEF LoopFailure, TypeOK
      <4> QED
        BY <4>1, <4>2
    <3> QED
      BY <2>1, <3>1, <3>2 DEF TypeOK, LoopFailure
  <2> QED
    BY <2>2, <2>3, <2>4 DEF TypeOK
<1>8. ASSUME NEW r \in reviews, NEW v \in Reviewers, NEW q \in Requests,
             Approve(r, v, q)
      PROVE  TypeOK'
  BY <1>8 DEF TypeOK, Approve, Approvals
<1>9. ASSUME NEW a \in approvals, Revoke(a)
      PROVE  TypeOK'
  BY <1>9 DEF TypeOK, Revoke
<1>10. ASSUME NEW r \in reviews, NEW j \in Jobs,
              IssueAttempt(r, j) \/ RevokeAttempt(r, j)
       PROVE  TypeOK'
  <2>1. PICK a \in Attempt : SetAttempt(r, j, a)
    <3> DEFINE last == attempt[<<r, j>>]
    <3>1. last \in Attempt
      BY DEF TypeOK
    <3>2. CASE IssueAttempt(r, j)
      <4>1. [number |-> last.number + 1, revoked |-> FALSE,
             result |-> "none"] \in Attempt
        BY <3>1 DEF Attempt
      <4> QED
        BY <3>2, <4>1 DEF IssueAttempt
    <3>3. CASE RevokeAttempt(r, j)
      <4>1. [last EXCEPT !.revoked = TRUE] \in Attempt
        BY <3>1 DEF Attempt
      <4> QED
        BY <3>3, <4>1 DEF RevokeAttempt
    <3> QED
      BY <1>10, <3>2, <3>3
  <2> QED
    BY <2>1, AttemptType
<1>11. ASSUME NEW r \in reviews, NEW j \in Jobs,
              NEW result \in {"success", "failure"}, ReportStatus(r, j, result)
       PROVE  TypeOK'
  <2>1. [attempt[<<r, j>>] EXCEPT !.result = result] \in Attempt
    <3>1. attempt[<<r, j>>] \in Attempt
      BY DEF TypeOK
    <3> QED
      BY <3>1 DEF Attempt
  <2> QED
    BY <1>11, <2>1, AttemptType DEF ReportStatus
<1>12. ASSUME NEW r \in reviews, PromoteIntent(r)
       PROVE  TypeOK'
  <2>1. Transition(r) \in Transitions
    BY DEF TypeOK, Transition, Transitions
  <2> QED
    BY <1>12, <2>1 DEF TypeOK, PromoteIntent
<1>13. CASE Swap \/ SwapDies
  <2>1. promoting \in Transitions /\ promoting.review.candidate \in Commits
    BY <1>13 DEF TypeOK, Swap, SwapDies, PromotionInStep, Transitions, ReviewIds
  <2> QED
    BY <1>13, <2>1 DEF TypeOK, Swap, SwapDies
<1>14. CASE Finalize
  <2>1. promoting \in Transitions
    BY <1>14 DEF TypeOK, Finalize, PromotionInStep
  <2> QED
    BY <1>14, <2>1 DEF TypeOK, Finalize
<1>15. CASE FinalizeFails
  <2>1. faults' \in Nat
    BY <1>15 DEF TypeOK, FinalizeFails
  <2>2. CASE service = "recovering"
    <3>1. Exit /\ UNCHANGED durable /\ crashes' \in Nat
      BY <1>15, <2>2 DEF TypeOK, FinalizeFails
    <3> QED
      BY <2>1, <3>1, ExitType
  <2>3. CASE service # "recovering"
    BY <1>15, <2>1, <2>3 DEF TypeOK, FinalizeFails
  <2> QED
    BY <2>2, <2>3
<1>16. CASE Crash \/ Stop
  <2>1. Exit /\ UNCHANGED durable /\ crashes' \in Nat /\ faults' \in Nat
    BY <1>16 DEF TypeOK, Crash, Stop
  <2> QED
    BY <2>1, ExitType
<1>17. CASE Start
  BY <1>17 DEF TypeOK, Start
<1>18. CASE RecoverIntent
  <2>1. intent \in Transitions /\ intent.review.candidate \in Commits
    BY <1>18 DEF TypeOK, RecoverIntent, Transitions, ReviewIds
  <2> QED
    BY <1>18, <2>1 DEF TypeOK, RecoverIntent
<1>19. CASE RecoverFails
  <2>1. Exit /\ UNCHANGED durable /\ crashes' \in Nat /\ faults' \in Nat
    BY <1>19 DEF TypeOK, RecoverFails
  <2> QED
    BY <2>1, ExitType
<1>20. CASE RecoverDone
  BY <1>20 DEF TypeOK, RecoverDone, BeginReconcile, Pushed
<1>21. CASE UNCHANGED vars
  BY <1>21 DEF TypeOK, vars
<1> QED
  BY <1>1, <1>2, <1>3, <1>4, <1>5, <1>6, <1>7, <1>8, <1>9, <1>10, <1>11, <1>12,
     <1>13, <1>14, <1>15, <1>16, <1>17, <1>18, <1>19, <1>20, <1>21 DEF Next

-----------------------------------------------------------------------------
(* The durable state *)

LEMMA AncestorOrder ==
  ASSUME NEW a \in Commits, NEW b \in Commits, NEW c \in Commits
  PROVE  /\ <<a, a>> \in Ancestor
         /\ <<a, b>> \in Ancestor /\ <<b, a>> \in Ancestor => a = b
         /\ <<a, b>> \in Ancestor /\ <<b, c>> \in Ancestor
              => <<a, c>> \in Ancestor
BY AncestorAssumption

stored == <<protectedRef, proposalRef, finalized, intent, reviews, approvals,
            revocations, attempt>>

\* A step that stores nothing keeps what holds of the durable state.
LEMMA DurableFrame ==
  ASSUME DurableInv, UNCHANGED stored
  PROVE  DurableInv'
<1> USE DEF stored
<1>1. LedgerHead' = LedgerHead
  BY DEF LedgerHead
<1>2. HeadMatchesLedger'
  BY <1>1 DEF DurableInv, HeadMatchesLedger
<1>3. LedgerChain' /\ FinalizedBehind'
  BY <1>1 DEF DurableInv, LedgerChain, FinalizedBehind
<1>4. IntentRecoverable'
  BY <1>1 DEF DurableInv, IntentRecoverable, Authorized, FinalizedReviews
<1>5. IntentOfReview' /\ ReviewsBehind'
  BY <1>1 DEF DurableInv, IntentOfReview, ReviewsBehind
<1>6. OneActiveApproval'
  BY DEF DurableInv, OneActiveApproval
<1> QED
  BY <1>2, <1>3, <1>4, <1>5, <1>6 DEF DurableInv

\* A step that only publishes, decides or pushes while no intent is pending
\* keeps the ledger's part of it.
LEMMA LedgerFrame ==
  ASSUME DurableInv, intent = None, UNCHANGED <<protectedRef, finalized, intent>>
  PROVE  /\ LedgerHead' = LedgerHead
         /\ HeadMatchesLedger'
         /\ LedgerChain'
         /\ FinalizedBehind'
         /\ IntentRecoverable'
         /\ IntentOfReview'
<1>1. LedgerHead' = LedgerHead
  BY DEF LedgerHead
<1> QED
  BY <1>1 DEF DurableInv, HeadMatchesLedger, LedgerChain, FinalizedBehind,
     IntentRecoverable, IntentOfReview

\* A push only moves a proposal forward.
LEMMA ReceiveDurable ==
  ASSUME TypeOK, DurableInv, NEW p \in Proposals, NEW c \in Commits,
         CanReceive(p, c), proposalRef' = [proposalRef EXCEPT ![p] = c],
         UNCHANGED <<protectedRef, finalized, intent, reviews, approvals,
                     revocations>>
  PROVE  DurableInv'
<1>1. intent = None
  BY DEF CanReceive, Serving, RootTarget
<1>2. OneActiveApproval'
  BY DEF DurableInv, OneActiveApproval
<1>3. ReviewsBehind'
  <2> SUFFICES ASSUME NEW r \in reviews
               PROVE  /\ <<r.head, LedgerHead'>> \in Ancestor
                      /\ proposalRef'[r.proposal] # None
                      /\ <<r.candidate, proposalRef'[r.proposal]>> \in Ancestor
    BY DEF ReviewsBehind
  <2>1. /\ <<r.head, LedgerHead>> \in Ancestor
        /\ proposalRef[r.proposal] # None
        /\ <<r.candidate, proposalRef[r.proposal]>> \in Ancestor
    BY DEF DurableInv, ReviewsBehind
  <2>2. r.proposal \in Proposals /\ r.candidate \in Commits
    BY DEF TypeOK, ReviewIds
  <2>3. CASE r.proposal = p
    <3>1. /\ proposalRef[p] \in Commits
          /\ <<proposalRef[p], c>> \in Ancestor
      BY <2>1, <2>3 DEF TypeOK, CanReceive
    <3>2. proposalRef'[p] = c
      BY DEF TypeOK
    <3>3. <<r.candidate, c>> \in Ancestor
      BY <2>1, <2>2, <2>3, <3>1, AncestorOrder
    <3> QED
      BY <1>1, <2>1, <2>3, <3>2, <3>3, LedgerFrame, CommitAssumption
  <2>4. CASE r.proposal # p
    BY <1>1, <2>1, <2>2, <2>4, LedgerFrame DEF TypeOK
  <2> QED
    BY <2>3, <2>4
<1> QED
  BY <1>1, <1>2, <1>3, LedgerFrame DEF DurableInv

\* Publishing the review of an existing proposal.
LEMMA PublishDurable ==
  ASSUME TypeOK, DurableInv, RootTarget, NEW p \in Pushed,
         reviews' = reviews \cup {CurrentReview(p)},
         UNCHANGED <<protectedRef, proposalRef, finalized, intent, approvals,
                     revocations>>
  PROVE  DurableInv'
<1>1. intent = None
  BY DEF RootTarget
<1>2. OneActiveApproval'
  BY DEF DurableInv, OneActiveApproval
<1>3. ReviewsBehind'
  <2>1. LedgerHead' = LedgerHead
    BY <1>1, LedgerFrame
  <2>2. /\ LedgerHead \in Commits
        /\ proposalRef[p] \in Commits /\ proposalRef[p] # None
    BY LedgerHeadType DEF TypeOK, Pushed
  <2>3. /\ <<LedgerHead, LedgerHead>> \in Ancestor
        /\ <<proposalRef[p], proposalRef[p]>> \in Ancestor
    BY <2>2, AncestorOrder
  <2> QED
    BY <2>1, <2>2, <2>3 DEF DurableInv, ReviewsBehind, CurrentReview
<1> QED
  BY <1>1, <1>2, <1>3, LedgerFrame DEF DurableInv

\* A decision or a CI report while no intent is pending.
LEMMA DecideDurable ==
  ASSUME DurableInv, intent = None, OneActiveApproval',
         UNCHANGED <<protectedRef, proposalRef, finalized, intent, reviews>>
  PROVE  DurableInv'
<1>1. ReviewsBehind'
  BY LedgerFrame DEF DurableInv, ReviewsBehind
<1> QED
  BY <1>1, LedgerFrame DEF DurableInv

\* A reviewer approves only without an active approval.
LEMMA ApproveOnce ==
  ASSUME DurableInv, NEW r \in reviews, NEW v \in Reviewers, NEW q \in Requests,
         Approve(r, v, q)
  PROVE  OneActiveApproval'
<1> DEFINE new == [review |-> r, reviewer |-> v, request |-> q]
<1>1. approvals' = approvals \cup {new} /\ revocations' = revocations
  BY DEF Approve
<1>2. \A b \in approvals \ revocations : ~(b.review = r /\ b.reviewer = v)
  BY DEF Approve, HasActive, Active
<1>3. new.review = r /\ new.reviewer = v
  OBVIOUS
<1> HIDE DEF new
<1> QED
  BY <1>1, <1>2, <1>3 DEF DurableInv, OneActiveApproval

LEMMA RevokeOnce ==
  ASSUME DurableInv, NEW a \in approvals, Revoke(a)
  PROVE  OneActiveApproval'
BY DEF DurableInv, OneActiveApproval, Revoke

\* What the code checks is what the policy asks.
LEMMA EligibleAuthorized ==
  ASSUME TypeOK, NEW r \in ReviewIds, Eligible(r)
  PROVE  Authorized(r)
<1>1. ReviewersOf(r) \subseteq Reviewers
  BY PolicyAssumption DEF ReviewersOf, ReviewIds
<1>2. ASSUME NEW v \in Reviewers
      PROVE  v \in ReviewersOf(r) <=>
               \E a \in approvals \ revocations : a.review = r /\ a.reviewer = v
  BY DEF Eligible, Approved, Active
<1> QED
  BY <1>2 DEF Eligible, Evidenced, Authorized, ReviewersOf

\* A fresh fast-forward review that was not promoted already was never
\* promoted: its candidate would lie both above and below the head.
LEMMA FreshIsNew ==
  ASSUME TypeOK, DurableInv, NEW r \in reviews, Fresh(r), ~AlreadyCurrent(r),
         <<r.head, r.candidate>> \in Ancestor
  PROVE  r \notin FinalizedReviews
<1> SUFFICES ASSUME r \in FinalizedReviews PROVE FALSE
  OBVIOUS
<1>1. PICK i \in DOMAIN finalized : finalized[i].review = r
  BY DEF FinalizedReviews
<1>2. <<r.candidate, LedgerHead>> \in Ancestor
  BY <1>1 DEF DurableInv, FinalizedBehind
<1>3. r.head = LedgerHead /\ r.head \in Commits /\ r.candidate \in Commits
  BY DEF Fresh, TypeOK, ReviewIds
<1>4. r.candidate = LedgerHead
  BY <1>2, <1>3, AncestorOrder
<1> QED
  BY <1>4 DEF AlreadyCurrent

\* Saving an intent.
LEMMA PromoteDurable ==
  ASSUME TypeOK, DurableInv, NEW r \in reviews, PromoteIntent(r)
  PROVE  DurableInv'
<1>1. /\ r \in ReviewIds
      /\ intent' # None
      /\ intent' = [sequence |-> Len(finalized) + 1, review |-> r]
      /\ UNCHANGED <<protectedRef, proposalRef, finalized, reviews, approvals,
                     revocations, attempt>>
  <2>1. Transition(r) \in Transitions
    BY DEF TypeOK, Transition, Transitions
  <2> QED
    BY <2>1, CommitAssumption DEF TypeOK, PromoteIntent, Transition
<1>2. LedgerHead' = LedgerHead
  BY <1>1 DEF LedgerHead
<1>3. protectedRef = LedgerHead
  BY DEF PromoteIntent, Serving, RootTarget
<1>4. IntentRecoverable'
  <2>1. Authorized(r)'
    BY <1>1, EligibleAuthorized DEF PromoteIntent, Authorized
  <2>2. r \notin FinalizedReviews'
    BY <1>1, FreshIsNew DEF PromoteIntent, FinalizedReviews
  <2>3. r.head = LedgerHead /\ r.candidate = proposalRef[r.proposal]
    BY DEF PromoteIntent, Fresh
  <2>4. intent'.sequence = Len(finalized) + 1 /\ intent'.review = r
    BY <1>1
  <2> QED
    BY <1>1, <1>2, <2>1, <2>2, <2>3, <2>4 DEF IntentRecoverable
<1>5. IntentOfReview'
  BY <1>1 DEF IntentOfReview, PromoteIntent
<1>6. HeadMatchesLedger'
  BY <1>1, <1>2, <1>3 DEF HeadMatchesLedger
<1>7. LedgerChain' /\ FinalizedBehind' /\ ReviewsBehind' /\ OneActiveApproval'
  BY <1>1, <1>2 DEF DurableInv, LedgerChain, FinalizedBehind, ReviewsBehind,
     OneActiveApproval
<1> QED
  BY <1>4, <1>5, <1>6, <1>7 DEF DurableInv

\* Moving the protected ref to the candidate of the saved intent.
LEMMA SwapDurable ==
  ASSUME TypeOK, DurableInv, intent # None,
         protectedRef' = intent.review.candidate,
         UNCHANGED <<proposalRef, finalized, intent, reviews, approvals,
                     revocations, attempt>>
  PROVE  DurableInv'
<1>1. LedgerHead' = LedgerHead
  BY DEF LedgerHead
<1>2. HeadMatchesLedger'
  BY DEF HeadMatchesLedger
<1>3. LedgerChain' /\ FinalizedBehind' /\ ReviewsBehind' /\ OneActiveApproval'
  BY <1>1 DEF DurableInv, LedgerChain, FinalizedBehind, ReviewsBehind,
     OneActiveApproval
<1>4. IntentRecoverable' /\ IntentOfReview'
  BY <1>1 DEF DurableInv, IntentRecoverable, IntentOfReview, Authorized,
     FinalizedReviews
<1> QED
  BY <1>2, <1>3, <1>4 DEF DurableInv

\* What lies behind the head lies behind the intent's candidate.
LEMMA BehindCandidate ==
  ASSUME TypeOK, DurableInv, intent # None
  PROVE  /\ <<intent.review.candidate, intent.review.candidate>> \in Ancestor
         /\ \A c \in Commits : <<c, LedgerHead>> \in Ancestor
              => <<c, intent.review.candidate>> \in Ancestor
<1>1. intent \in Transitions
  BY DEF TypeOK
<1>2. /\ LedgerHead \in Commits
      /\ intent.review.candidate \in Commits
      /\ <<LedgerHead, intent.review.candidate>> \in Ancestor
  BY <1>1, LedgerHeadType DEF DurableInv, IntentRecoverable, IntentOfReview,
     Transitions, ReviewIds
<1> DEFINE d == intent.review.candidate
           h == LedgerHead
<1> HIDE DEF d, h
<1>3. h \in Commits /\ d \in Commits /\ <<h, d>> \in Ancestor
  BY <1>2 DEF d, h
<1>4. <<d, d>> \in Ancestor
  BY <1>3, AncestorOrder
<1>5. ASSUME NEW c \in Commits, <<c, h>> \in Ancestor
      PROVE  <<c, d>> \in Ancestor
  BY <1>3, <1>5, AncestorOrder
<1> QED
  BY <1>4, <1>5 DEF d, h

\* Moving the saved intent to the end of the ledger.
LEMMA FinalizeDurable ==
  ASSUME TypeOK, DurableInv, intent # None,
         protectedRef = intent.review.candidate,
         finalized' = Append(finalized, intent), intent' = None,
         UNCHANGED <<protectedRef, proposalRef, reviews, approvals, revocations>>
  PROVE  DurableInv'
<1> DEFINE n == Len(finalized)
<1>0. n \in Nat
  BY DEF TypeOK
<1>1. /\ intent \in Transitions
      /\ finalized \in Seq(Transitions)
      /\ n = Len(finalized)
      /\ n = 0 <=> finalized = <<>>
  BY <1>0, EmptySeq DEF TypeOK
<1>2. /\ Len(finalized') = n + 1
      /\ finalized' # <<>>
      /\ finalized'[n + 1] = intent
      /\ DOMAIN finalized' = 1..(n + 1)
      /\ DOMAIN finalized = 1..n
      /\ \A i \in 1..n : finalized'[i] = finalized[i]
  BY <1>1
<1> HIDE DEF n
<1>3. LedgerHead' = intent.review.candidate
  BY <1>1, <1>2 DEF LedgerHead
<1>4. <<intent.review.head, intent.review.candidate>> \in Ancestor
  BY DEF DurableInv, IntentOfReview
<1>4a. intent.review.head = LedgerHead /\ intent.sequence = n + 1
  BY <1>1 DEF DurableInv, IntentRecoverable
<1>5. HeadMatchesLedger'
  BY <1>3 DEF HeadMatchesLedger
<1>6. IntentRecoverable' /\ IntentOfReview'
  BY DEF IntentRecoverable, IntentOfReview
<1>7. LedgerChain'
  <2> SUFFICES ASSUME NEW i \in 1..(n + 1)
               PROVE  /\ finalized'[i].sequence = i
                      /\ finalized'[i].review.head =
                           IF i = 1 THEN Imported
                           ELSE finalized'[i - 1].review.candidate
                      /\ <<finalized'[i].review.head,
                           finalized'[i].review.candidate>> \in Ancestor
    BY <1>2 DEF LedgerChain
  <2>1. CASE i = n + 1
    <3>1. LedgerHead = IF i = 1 THEN Imported
                       ELSE finalized'[i - 1].review.candidate
      <4>1. CASE n = 0
        BY <1>1, <2>1, <4>1 DEF LedgerHead
      <4>2. CASE n # 0
        BY <1>1, <1>2, <2>1, <4>2 DEF LedgerHead
      <4> QED
        BY <4>1, <4>2
    <3> QED
      BY <1>2, <1>4, <1>4a, <2>1, <3>1
  <2>2. CASE i \in 1..n
    <3>1. finalized'[i] = finalized[i]
      BY <1>2, <2>2
    <3>2. i # 1 => finalized'[i - 1] = finalized[i - 1]
      BY <1>0, <1>2, <2>2
    <3> QED
      BY <1>2, <2>2, <3>1, <3>2 DEF DurableInv, LedgerChain
  <2>3. i = n + 1 \/ i \in 1..n
    BY <1>0
  <2> QED
    BY <2>1, <2>2, <2>3
<1>8. FinalizedBehind'
  <2> SUFFICES ASSUME NEW i \in 1..(n + 1)
               PROVE  <<finalized'[i].review.candidate,
                        intent.review.candidate>> \in Ancestor
    BY <1>2, <1>3 DEF FinalizedBehind
  <2>1. CASE i = n + 1
    BY <1>2, <2>1, BehindCandidate
  <2>2. CASE i \in 1..n
    <3>0. finalized[i] \in Transitions
      BY <1>1, <1>2, <2>2
    <3>1. finalized[i].review.candidate \in Commits
      BY <3>0 DEF Transitions, ReviewIds
    <3>2. <<finalized[i].review.candidate, LedgerHead>> \in Ancestor
      BY <1>2, <2>2 DEF DurableInv, FinalizedBehind
    <3>3. <<finalized[i].review.candidate, intent.review.candidate>> \in Ancestor
      BY <3>1, <3>2, BehindCandidate
    <3> QED
      BY <1>2, <2>2, <3>3
  <2>3. i = n + 1 \/ i \in 1..n
    BY <1>0
  <2> QED
    BY <2>1, <2>2, <2>3
<1>9. ReviewsBehind'
  <2> SUFFICES ASSUME NEW r \in reviews
               PROVE  <<r.head, intent.review.candidate>> \in Ancestor
    BY <1>3 DEF DurableInv, ReviewsBehind
  <2>1. r.head \in Commits /\ <<r.head, LedgerHead>> \in Ancestor
    BY DEF TypeOK, ReviewIds, DurableInv, ReviewsBehind
  <2> QED
    BY <2>1, BehindCandidate
<1>10. OneActiveApproval'
  BY DEF DurableInv, OneActiveApproval
<1> QED
  BY <1>5, <1>6, <1>7, <1>8, <1>9, <1>10 DEF DurableInv

\* Every step keeps what holds of the durable state.
LEMMA DurableStep ==
  ASSUME IInv, [Next]_vars
  PROVE  DurableInv'
<1> USE DEF IInv, stored
<1>1. ASSUME NEW p \in Proposals, NEW c \in Commits,
             Receive(p, c) \/ ReceiveKilled(p, c)
      PROVE  DurableInv'
  BY <1>1, ReceiveDurable DEF Receive, ReceiveKilled
<1>2. CASE PublishReview
  <2>1. receiving \in Pushed
    BY <1>2 DEF PublishReview, ReconciliationInStep
  <2> QED
    BY <1>2, <2>1, PublishDurable DEF PublishReview
<1>3. ASSUME NEW p \in Proposals, ReconcileOne(p)
      PROVE  DurableInv'
  <2>1. p \in Pushed
    BY <1>3 DEF ReconcileOne, ReconciliationInStep
  <2> QED
    BY <1>3, <2>1, PublishDurable DEF ReconcileOne
<1>4. ASSUME NEW r \in reviews, NEW v \in Reviewers, NEW q \in Requests,
             Approve(r, v, q)
      PROVE  DurableInv'
  <2>1. OneActiveApproval'
    BY <1>4, ApproveOnce
  <2> QED
    BY <1>4, <2>1, DecideDurable DEF Approve, Serving, RootTarget
<1>5. ASSUME NEW a \in approvals, Revoke(a)
      PROVE  DurableInv'
  <2>1. OneActiveApproval'
    BY <1>5, RevokeOnce
  <2> QED
    BY <1>5, <2>1, DecideDurable DEF Revoke, Serving, RootTarget
<1>6. ASSUME NEW r \in reviews, NEW j \in Jobs,
             \/ IssueAttempt(r, j)
             \/ RevokeAttempt(r, j)
             \/ \E result \in {"success", "failure"} : ReportStatus(r, j, result)
      PROVE  DurableInv'
  <2>1. /\ intent = None
        /\ UNCHANGED <<protectedRef, proposalRef, finalized, intent, reviews,
                       approvals, revocations>>
    BY <1>6 DEF IssueAttempt, RevokeAttempt, ReportStatus, SetAttempt, Serving,
       RootTarget
  <2>2. OneActiveApproval'
    BY <2>1 DEF DurableInv, OneActiveApproval
  <2> QED
    BY <2>1, <2>2, DecideDurable
<1>7. ASSUME NEW r \in reviews, PromoteIntent(r)
      PROVE  DurableInv'
  BY <1>7, PromoteDurable
<1>8. CASE Swap \/ SwapDies \/ RecoverIntent
  <2>1. /\ intent # None
        /\ \/ protectedRef' = intent.review.candidate
           \/ protectedRef' = protectedRef
        /\ UNCHANGED <<proposalRef, finalized, intent, reviews, approvals,
                       revocations, attempt>>
    BY <1>8 DEF Swap, SwapDies, RecoverIntent, PromotionInStep
  <2> QED
    BY <2>1, SwapDurable, DurableFrame
<1>9. CASE Finalize
  BY <1>9, FinalizeDurable DEF Finalize, PromotionInStep
<1>10. CASE \/ PublishReviewFails \/ LoopRun \/ Activate \/ ReconcileDone
            \/ ReconcileFails \/ FinalizeFails \/ Crash \/ Stop \/ Start
            \/ RecoverFails \/ RecoverDone \/ UNCHANGED vars
  <2>1. UNCHANGED stored
    BY <1>10 DEF PublishReviewFails, LoopRun, Activate, ReconcileDone,
       ReconcileFails, FinalizeFails, Crash, Stop, Start, RecoverFails,
       RecoverDone, vars
  <2> QED
    BY <2>1, DurableFrame
<1> QED
  BY <1>1, <1>2, <1>3, <1>4, <1>5, <1>6, <1>7, <1>8, <1>9, <1>10 DEF Next

-----------------------------------------------------------------------------
(* The running operation *)

\* Every step keeps the promotion's program counter and the ref in step.
LEMMA PromotionStep ==
  ASSUME IInv, [Next]_vars
  PROVE  PromotionInStep'
<1> USE DEF IInv, PromotionInStep
<1>1. ASSUME NEW p \in Proposals, NEW c \in Commits,
             Receive(p, c) \/ ReceiveKilled(p, c)
      PROVE  PromotionInStep'
  BY <1>1 DEF Receive, ReceiveKilled, CanReceive, Serving
<1>2. ASSUME NEW p \in Proposals, ReconcileOne(p)
      PROVE  PromotionInStep'
  BY <1>2 DEF ReconcileOne
<1>3. ASSUME NEW r \in reviews, NEW v \in Reviewers, NEW q \in Requests,
             Approve(r, v, q)
      PROVE  PromotionInStep'
  BY <1>3 DEF Approve
<1>4. ASSUME NEW a \in approvals, Revoke(a)
      PROVE  PromotionInStep'
  BY <1>4 DEF Revoke
<1>5. ASSUME NEW r \in reviews, NEW j \in Jobs,
             \/ IssueAttempt(r, j)
             \/ RevokeAttempt(r, j)
             \/ \E result \in {"success", "failure"} : ReportStatus(r, j, result)
      PROVE  PromotionInStep'
  BY <1>5 DEF IssueAttempt, RevokeAttempt, ReportStatus, SetAttempt
<1>6. ASSUME NEW r \in reviews, PromoteIntent(r)
      PROVE  PromotionInStep'
  <2>1. /\ intent' = Transition(r) /\ promoting' = Transition(r)
        /\ pc' = "intended"
        /\ protectedRef' = protectedRef
    BY <1>6 DEF PromoteIntent
  <2>2. Transition(r) # None /\ Transition(r).review = r
    <3>1. Transition(r) \in Transitions
      BY DEF TypeOK, Transition, Transitions
    <3> QED
      BY <3>1, CommitAssumption DEF Transition
  <2>3. protectedRef = r.head
    BY <1>6 DEF PromoteIntent, Fresh
  <2> QED
    BY <2>1, <2>2, <2>3
<1>7. CASE Swap
  BY <1>7 DEF Swap, Release
<1>8. CASE RecoverIntent
  BY <1>8 DEF RecoverIntent
<1>9. CASE LoopRun \/ Activate \/ RecoverDone
  BY <1>9 DEF LoopRun, Activate, RecoverDone, BeginReconcile, Recovering
<1>10. CASE \/ PublishReview \/ PublishReviewFails \/ ReconcileDone
            \/ ReconcileFails \/ SwapDies \/ Finalize \/ FinalizeFails
            \/ Crash \/ Stop \/ RecoverFails
  <2>1. pc' = "idle"
    BY <1>10 DEF TypeOK, PublishReview, PublishReviewFails, ReconcileDone,
       ReconcileFails, LoopFailure, SwapDies, Finalize, FinalizeFails, Crash,
       Stop, RecoverFails, Exit, Release
  <2> QED
    BY <2>1
<1>11. CASE Start \/ UNCHANGED vars
  BY <1>11 DEF Start, vars
<1> QED
  BY <1>1, <1>2, <1>3, <1>4, <1>5, <1>6, <1>7, <1>8, <1>9, <1>10, <1>11 DEF Next

\* Every step keeps the reconciliation's work list in step with the refs.
LEMMA ReconciliationStep ==
  ASSUME IInv, [Next]_vars
  PROVE  ReconciliationInStep'
<1> USE DEF IInv, ReconciliationInStep
<1>1. ASSUME NEW p \in Proposals, NEW c \in Commits,
             Receive(p, c) \/ ReceiveKilled(p, c)
      PROVE  ReconciliationInStep'
  <2>1. /\ proposalRef' = [proposalRef EXCEPT ![p] = c]
        /\ todo' = todo
        /\ pc' # "reconciling"
        /\ pc' = "received" => receiving' = p
    BY <1>1 DEF Receive, ReceiveKilled, CanReceive, Serving
  <2>2. Pushed' = Pushed \cup {p}
    BY <2>1, CommitAssumption DEF Pushed, TypeOK
  <2> QED
    BY <2>1, <2>2
<1>2. ASSUME NEW p \in Proposals, ReconcileOne(p)
      PROVE  ReconciliationInStep'
  <2>1. Pushed' = Pushed /\ LedgerHead' = LedgerHead
    BY <1>2 DEF ReconcileOne, Pushed, LedgerHead
  <2>2. \A x \in Pushed : CurrentReview(x)' = CurrentReview(x)
    BY <1>2, <2>1 DEF ReconcileOne, CurrentReview
  <2> QED
    BY <1>2, <2>1, <2>2 DEF ReconcileOne
<1>3. CASE LoopRun \/ Activate \/ RecoverDone
  <2>1. Pushed' = Pushed
    BY <1>3 DEF LoopRun, Activate, RecoverDone, Pushed
  <2> QED
    BY <1>3, <2>1 DEF LoopRun, Activate, RecoverDone, BeginReconcile, Recovering
<1>4. CASE \/ PublishReview \/ PublishReviewFails \/ ReconcileDone
           \/ ReconcileFails \/ Swap \/ SwapDies \/ Finalize \/ FinalizeFails
           \/ Crash \/ Stop \/ RecoverFails \/ RecoverIntent
           \/ \E r \in reviews : PromoteIntent(r)
  <2>1. Pushed' = Pushed
    BY <1>4 DEF Pushed, PublishReview, PublishReviewFails, ReconcileDone,
       ReconcileFails, Swap, SwapDies, Finalize, FinalizeFails, Crash, Stop,
       RecoverFails, RecoverIntent, PromoteIntent
  <2>2. pc' \in {"idle", "intended", "swapped"}
    BY <1>4 DEF TypeOK, PublishReview, PublishReviewFails, ReconcileDone,
       ReconcileFails, LoopFailure, Swap, SwapDies, Finalize, FinalizeFails,
       Crash, Stop, RecoverFails, RecoverIntent, PromoteIntent, Exit, Release
  <2>3. todo' = todo \/ todo' = {}
    BY <1>4 DEF TypeOK, PublishReview, PublishReviewFails, ReconcileDone,
       ReconcileFails, LoopFailure, Swap, SwapDies, Finalize, FinalizeFails,
       Crash, Stop, RecoverFails, RecoverIntent, PromoteIntent, Exit
  <2> QED
    BY <2>1, <2>2, <2>3
<1>5. CASE \/ Start \/ UNCHANGED vars
           \/ \E a \in approvals : Revoke(a)
           \/ \E r \in reviews, v \in Reviewers, q \in Requests : Approve(r, v, q)
           \/ \E r \in reviews, j \in Jobs : IssueAttempt(r, j)
           \/ \E r \in reviews, j \in Jobs : RevokeAttempt(r, j)
           \/ \E r \in reviews, j \in Jobs, result \in {"success", "failure"} :
                ReportStatus(r, j, result)
  <2>1. UNCHANGED <<proposalRef, finalized, reviews, pc, receiving, todo>>
    BY <1>5 DEF Start, vars, Revoke, Approve, IssueAttempt, RevokeAttempt,
       ReportStatus, SetAttempt
  <2>2. Pushed' = Pushed /\ LedgerHead' = LedgerHead
    BY <2>1 DEF Pushed, LedgerHead
  <2>3. \A x \in Pushed : CurrentReview(x)' = CurrentReview(x)
    BY <2>1, <2>2 DEF CurrentReview
  <2> QED
    BY <2>1, <2>2, <2>3
<1> QED
  BY <1>1, <1>2, <1>3, <1>4, <1>5 DEF Next

-----------------------------------------------------------------------------
(* The safety theorems *)

LEMMA InitIInv == Init => IInv
<1> SUFFICES ASSUME Init PROVE IInv
  OBVIOUS
<1>1. TypeOK
  <2>1. NoAttempt \in Attempt
    BY DEF Attempt, NoAttempt
  <2>2. attempt \in [ReviewIds \X Jobs -> Attempt]
    BY <2>1 DEF Init
  <2>3. /\ protectedRef \in Commits
        /\ proposalRef \in [Proposals -> Commits \cup {None}]
        /\ finalized \in Seq(Transitions)
        /\ reviews = {} /\ approvals = {} /\ revocations = {} /\ todo = {}
    BY CommitAssumption DEF Init
  <2> QED
    BY <2>2, <2>3 DEF Init, TypeOK
<1>2. Pushed = {}
  BY DEF Init, Pushed
<1>3. PromotionInStep /\ ReconciliationInStep
  BY <1>2 DEF Init, PromotionInStep, ReconciliationInStep
<1>4. DurableInv
  BY DEF Init, DurableInv, HeadMatchesLedger, LedgerHead, LedgerChain,
     IntentRecoverable, IntentOfReview, ReviewsBehind, FinalizedBehind,
     OneActiveApproval
<1> QED
  BY <1>1, <1>3, <1>4 DEF IInv

\* The inductive invariant holds in every reachable state of the service,
\* through every crash, failing Git child and recovery.
THEOREM InvariantTheorem == Spec => []IInv
<1>1. IInv /\ [Next]_vars => IInv'
  BY TypeStep, DurableStep, PromotionStep, ReconciliationStep DEF IInv
<1> QED
  BY <1>1, InitIInv, PTL DEF Spec

\* Every variable keeps its type.
THEOREM TypeTheorem == Spec => []TypeOK
<1>1. IInv => TypeOK
  BY DEF IInv
<1> QED
  BY <1>1, InvariantTheorem, PTL

\* Recovery never meets a foreign head: the protected ref is at the ledger's
\* head or at the candidate of the saved intent.
THEOREM HeadTheorem == Spec => []HeadMatchesLedger
<1>1. IInv => HeadMatchesLedger
  BY DEF IInv, DurableInv
<1> QED
  BY <1>1, InvariantTheorem, PTL

\* The ledger is one contiguous chain of fast-forwards from the imported commit.
THEOREM LedgerTheorem == Spec => []LedgerChain
<1>1. IInv => LedgerChain
  BY DEF IInv, DurableInv
<1> QED
  BY <1>1, InvariantTheorem, PTL

\* An intent left behind by a crash can be finalized by the next start, and is
\* still authorized when it is.
THEOREM IntentTheorem == Spec => []IntentRecoverable
<1>1. IInv => IntentRecoverable
  BY DEF IInv, DurableInv
<1> QED
  BY <1>1, InvariantTheorem, PTL

\* A reviewer has at most one active approval of a review.
THEOREM ApprovalTheorem == Spec => []OneActiveApproval
<1>1. IInv => OneActiveApproval
  BY DEF IInv, DurableInv
<1> QED
  BY <1>1, InvariantTheorem, PTL

-----------------------------------------------------------------------------
(* The action properties *)

\* What a step can do to the head and to the proposals: only Finalize moves the
\* head, to the intent's candidate; only a receive moves a proposal, forward.
LEMMA MoveStep ==
  ASSUME IInv, [Next]_vars
  PROVE  /\ \/ LedgerHead' = LedgerHead
            \/ intent # None /\ LedgerHead' = intent.review.candidate
         /\ \/ proposalRef' = proposalRef
            \/ \E p \in Proposals, c \in Commits :
                 /\ proposalRef[p] # None => <<proposalRef[p], c>> \in Ancestor
                 /\ proposalRef' = [proposalRef EXCEPT ![p] = c]
<1>1. ASSUME NEW p \in Proposals, NEW c \in Commits,
             Receive(p, c) \/ ReceiveKilled(p, c)
      PROVE  /\ LedgerHead' = LedgerHead
             /\ proposalRef[p] # None => <<proposalRef[p], c>> \in Ancestor
             /\ proposalRef' = [proposalRef EXCEPT ![p] = c]
  BY <1>1 DEF Receive, ReceiveKilled, CanReceive, LedgerHead
<1>2. CASE Finalize
  <2>1. /\ intent # None /\ intent \in Transitions
        /\ finalized' = Append(finalized, intent)
        /\ finalized \in Seq(Transitions)
    BY <1>2 DEF IInv, TypeOK, PromotionInStep, Finalize
  <2>2. finalized' # <<>> /\ finalized'[Len(finalized')] = intent
    BY <2>1
  <2>3. LedgerHead' = intent.review.candidate
    BY <2>2 DEF LedgerHead
  <2> QED
    BY <1>2, <2>1, <2>3 DEF Finalize
<1>3. ASSUME ~Finalize,
             ~\E p \in Proposals, c \in Commits : Receive(p, c) \/ ReceiveKilled(p, c)
      PROVE  UNCHANGED <<finalized, proposalRef>>
  BY <1>3 DEF Next, vars, PublishReview, PublishReviewFails, LoopRun, Activate,
     ReconcileOne, ReconcileDone, ReconcileFails, Approve, Revoke, IssueAttempt,
     RevokeAttempt, ReportStatus, SetAttempt, PromoteIntent, Swap, SwapDies,
     FinalizeFails, Crash, Stop, Start, RecoverIntent, RecoverFails, RecoverDone
<1> QED
  BY <1>1, <1>2, <1>3 DEF LedgerHead

\* A review that is stale stays stale, so nothing given for it can come back.
THEOREM StaleTheorem == Spec => StaleStaysStale
<1>1. ASSUME IInv, [Next]_vars, NEW r \in reviews, Stale(r)
      PROVE  Stale(r)'
  <2>1. /\ r \in ReviewIds
        /\ r.head \in Commits /\ r.candidate \in Commits
        /\ r.proposal \in Proposals
        /\ LedgerHead \in Commits
        /\ proposalRef \in [Proposals -> Commits \cup {None}]
    BY <1>1, LedgerHeadType DEF IInv, TypeOK, ReviewIds
  <2>2. /\ <<r.head, LedgerHead>> \in Ancestor
        /\ proposalRef[r.proposal] # None
        /\ <<r.candidate, proposalRef[r.proposal]>> \in Ancestor
    BY <1>1 DEF IInv, DurableInv, ReviewsBehind
  <2>3. CASE r.head # LedgerHead
    <3>1. CASE LedgerHead' = LedgerHead
      BY <2>3, <3>1 DEF Stale
    <3>2. CASE intent # None /\ LedgerHead' = intent.review.candidate
      <4>1. intent.review.head = LedgerHead
        BY <1>1, <3>2 DEF IInv, DurableInv, IntentRecoverable
      <4>2. <<LedgerHead, LedgerHead'>> \in Ancestor
        BY <1>1, <3>2, <4>1 DEF IInv, DurableInv, IntentOfReview
      <4>3. r.head # LedgerHead'
        BY <2>1, <2>2, <2>3, <4>2, AncestorOrder
      <4> QED
        BY <4>3 DEF Stale
    <3> QED
      BY <1>1, <3>1, <3>2, MoveStep
  <2>4. CASE r.candidate # proposalRef[r.proposal]
    <3>1. CASE proposalRef' = proposalRef
      BY <2>4, <3>1 DEF Stale
    <3>2. ASSUME NEW p \in Proposals, NEW c \in Commits,
                 proposalRef[p] # None => <<proposalRef[p], c>> \in Ancestor,
                 proposalRef' = [proposalRef EXCEPT ![p] = c]
          PROVE  Stale(r)'
      <4>1. CASE r.proposal # p
        BY <2>1, <2>4, <3>2, <4>1 DEF Stale
      <4>2. CASE r.proposal = p
        <5>1. proposalRef'[r.proposal] = c /\ proposalRef[p] \in Commits
          BY <2>1, <2>2, <3>2, <4>2
        <5>2. r.candidate # c
          BY <2>1, <2>2, <2>4, <3>2, <4>2, <5>1, AncestorOrder
        <5> QED
          BY <5>1, <5>2 DEF Stale
      <4> QED
        BY <4>1, <4>2
    <3> QED
      BY <1>1, <3>1, <3>2, MoveStep
  <2> QED
    BY <1>1, <2>3, <2>4 DEF Stale
<1>2. IInv /\ [Next]_vars => [\A r \in reviews : Stale(r) => Stale(r)']_vars
  BY <1>1
<1> QED
  BY <1>2, InvariantTheorem, PTL DEF Spec, StaleStaysStale

\* The service becomes ready only with every proposal reviewed.
THEOREM ReadyTheorem == Spec => ReadyMeansReviewed
<1>1. ASSUME IInv, [Next]_vars, ~ready, ready'
      PROVE  \A p \in Pushed : CurrentReview(p) \in reviews
  <2>1. ReconcileDone
    BY <1>1 DEF Next, vars, Receive, ReceiveKilled, PublishReview,
       PublishReviewFails, LoopRun, Activate, ReconcileOne, ReconcileFails,
       LoopFailure, Exit, Approve, Revoke, IssueAttempt, RevokeAttempt,
       ReportStatus, SetAttempt, PromoteIntent, Swap, SwapDies, Finalize,
       FinalizeFails, Crash, Stop, Start, RecoverIntent, RecoverFails,
       RecoverDone, IInv, TypeOK
  <2> QED
    BY <1>1, <2>1 DEF IInv, ReconciliationInStep, ReconcileDone
<1>2. IInv /\ [Next]_vars =>
        [~ready /\ ready' => \A p \in Pushed : CurrentReview(p) \in reviews]_vars
  BY <1>1
<1> QED
  BY <1>2, InvariantTheorem, PTL DEF Spec, ReadyMeansReviewed

-----------------------------------------------------------------------------
(* Refinement: the service implements the abstract protected head *)

\* The refinement mapping's log is the ledger, plus the intent once the ref is
\* at its candidate; it changes only together with an authorized promotion.
LEMMA LogStep ==
  ASSUME IInv, [Next]_vars
  PROVE  \/ UNCHANGED <<protectedRef, Log>>
         \/ \E r \in ReviewIds :
              /\ r \in reviews /\ Authorized(r)
              /\ r \notin {Log[i].review : i \in DOMAIN Log}
              /\ r.head = protectedRef
              /\ <<r.head, r.candidate>> \in Ancestor
              /\ protectedRef' = r.candidate
              /\ Log' = Append(Log, [sequence |-> Len(Log) + 1, review |-> r])
<1> DEFINE Promoted(r) ==
             /\ r \in reviews /\ Authorized(r)
             /\ r \notin {Log[i].review : i \in DOMAIN Log}
             /\ r.head = protectedRef
             /\ <<r.head, r.candidate>> \in Ancestor
             /\ protectedRef' = r.candidate
             /\ Log' = Append(Log, [sequence |-> Len(Log) + 1, review |-> r])
<1>1. ASSUME NEW r \in reviews, PromoteIntent(r)
      PROVE  UNCHANGED <<protectedRef, Log>> \/ Promoted(r)
  <2>1. /\ r \in ReviewIds
        /\ intent = None
        /\ intent' = Transition(r)
        /\ Transition(r) # None
        /\ Transition(r).review = r
        /\ UNCHANGED <<protectedRef, finalized>>
        /\ r.head = protectedRef
    <3>1. Transition(r) \in Transitions
      BY DEF IInv, TypeOK, Transition, Transitions
    <3> QED
      BY <1>1, <3>1, CommitAssumption DEF IInv, TypeOK, PromoteIntent, Serving,
         RootTarget, Fresh, Transition
  <2>2. Log = finalized
    BY <2>1 DEF Log
  <2>3. CASE protectedRef = r.candidate
    <3>1. Log' = Append(finalized, Transition(r))
      BY <2>1, <2>3 DEF Log
    <3>2. Authorized(r) /\ r \notin FinalizedReviews
      BY <1>1, <2>1, EligibleAuthorized, FreshIsNew DEF IInv, PromoteIntent
    <3> QED
      BY <1>1, <2>1, <2>2, <2>3, <3>1, <3>2
         DEF PromoteIntent, FinalizedReviews, Transition
  <2>4. CASE protectedRef # r.candidate
    BY <2>1, <2>2, <2>4 DEF Log
  <2> QED
    BY <2>3, <2>4
<1>2. CASE Swap \/ SwapDies \/ RecoverIntent
  <2>1. /\ intent # None
        /\ \/ protectedRef' = protectedRef
           \/ /\ protectedRef = intent.review.head
              /\ protectedRef' = intent.review.candidate
        /\ UNCHANGED <<finalized, intent>>
    BY <1>2 DEF IInv, Swap, SwapDies, RecoverIntent, PromotionInStep, SwapApplies
  <2>2. CASE protectedRef' = protectedRef
    BY <2>1, <2>2 DEF Log
  <2>3. CASE protectedRef' # protectedRef
    <3>1. /\ Log = finalized
          /\ Log' = Append(finalized, intent)
      BY <2>1, <2>3 DEF Log
    <3>2. /\ intent.review \in reviews
          /\ Authorized(intent.review)
          /\ intent.review \notin FinalizedReviews
          /\ <<intent.review.head, intent.review.candidate>> \in Ancestor
          /\ intent.sequence = Len(finalized) + 1
      BY <2>1 DEF IInv, DurableInv, IntentRecoverable, IntentOfReview
    <3>3. intent = [sequence |-> Len(finalized) + 1, review |-> intent.review]
      <4>1. intent \in Transitions
        BY <2>1 DEF IInv, TypeOK
      <4> QED
        BY <3>2, <4>1 DEF Transitions
    <3>4. Promoted(intent.review)
      BY <2>1, <2>3, <3>1, <3>2, <3>3 DEF FinalizedReviews
    <3> QED
      BY <3>2, <3>4 DEF IInv, TypeOK
  <2> QED
    BY <2>2, <2>3
<1>3. CASE Finalize
  <2>1. /\ intent # None /\ protectedRef = intent.review.candidate
        /\ finalized' = Append(finalized, intent)
        /\ intent' = None /\ protectedRef' = protectedRef
    BY <1>3 DEF IInv, PromotionInStep, Finalize
  <2> QED
    BY <2>1 DEF Log
<1>4. ASSUME ~Finalize, ~(Swap \/ SwapDies \/ RecoverIntent),
             ~\E r \in reviews : PromoteIntent(r)
      PROVE  UNCHANGED <<protectedRef, finalized, intent>>
  BY <1>4 DEF Next, vars, Receive, ReceiveKilled, PublishReview,
     PublishReviewFails, LoopRun, Activate, ReconcileOne, ReconcileDone,
     ReconcileFails, Approve, Revoke, IssueAttempt, RevokeAttempt, ReportStatus,
     SetAttempt, FinalizeFails, Crash, Stop, Start, RecoverFails, RecoverDone
<1>5. UNCHANGED <<protectedRef, finalized, intent>> => UNCHANGED <<protectedRef, Log>>
  BY DEF Log
<1>6. reviews \subseteq ReviewIds
  BY DEF IInv, TypeOK
<1> QED
  BY <1>1, <1>2, <1>3, <1>4, <1>5, <1>6

\* The detailed service, with its intents, crashes and recovery, implements the
\* abstract protected head: every move of the ref is one authorized promotion,
\* recorded exactly once and in order.
THEOREM RefinementTheorem == Spec => ImplementsProtectedHead
<1>1. Init => Abstract!Init
  BY DEF Init, Abstract!Init, Log
<1>2. ASSUME IInv, TypeOK', [Next]_vars
      PROVE  [Abstract!Next]_(Abstract!vars)
  <2>1. {r \in reviews : Authorized(r)}' \in SUBSET ReviewIds
    BY <1>2 DEF TypeOK
  <2>2. CASE UNCHANGED <<protectedRef, Log>>
    BY <2>1, <2>2 DEF Abstract!Next, Abstract!Decide
  <2>3. ASSUME NEW r \in ReviewIds,
               /\ r \in reviews /\ Authorized(r)
               /\ r \notin {Log[i].review : i \in DOMAIN Log}
               /\ r.head = protectedRef
               /\ <<r.head, r.candidate>> \in Ancestor
               /\ protectedRef' = r.candidate
               /\ Log' = Append(Log, [sequence |-> Len(Log) + 1, review |-> r])
        PROVE  Abstract!Next
    <3>1. Abstract!Promote(r)
      BY <2>1, <2>3 DEF Abstract!Promote, Abstract!Logged
    <3> QED
      BY <3>1 DEF Abstract!Next
  <2> QED
    BY <1>2, <2>2, <2>3, LogStep
<1> QED
  BY <1>1, <1>2, InvariantTheorem, TypeTheorem, PTL
     DEF Spec, ImplementsProtectedHead, Abstract!Spec
=============================================================================
