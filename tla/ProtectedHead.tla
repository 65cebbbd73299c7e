---------------------------- MODULE ProtectedHead ----------------------------
(***************************************************************************)
(* What the installed native Git service promises about a protected ref:   *)
(* one append-only log of promotions, each of which moves the head from    *)
(* the commit its review was made against to that review's candidate, at a *)
(* moment when the review is eligible (exactly the required reviewers'     *)
(* approvals are active and every required job has current successful      *)
(* evidence). Eligibility is the environment's and changes freely. There   *)
(* are no crashes, intents or refs to reconcile at this level.             *)
(***************************************************************************)
EXTENDS Naturals, Sequences

CONSTANTS Imported, Ancestor, ReviewIds

VARIABLES head, log, eligible

vars == <<head, log, eligible>>

Logged == {log[i].review : i \in DOMAIN log}

Init ==
  /\ head = Imported
  /\ log = <<>>
  /\ eligible \in SUBSET ReviewIds

Promote(r) ==
  /\ r \in eligible
  /\ r \notin Logged
  /\ r.head = head
  /\ <<r.head, r.candidate>> \in Ancestor
  /\ head' = r.candidate
  /\ log' = Append(log, [sequence |-> Len(log) + 1, review |-> r])
  /\ eligible' \in SUBSET ReviewIds

Decide ==
  /\ eligible' \in SUBSET ReviewIds
  /\ UNCHANGED <<head, log>>

Next == Decide \/ \E r \in ReviewIds : Promote(r)

Spec == Init /\ [][Next]_vars
=============================================================================
