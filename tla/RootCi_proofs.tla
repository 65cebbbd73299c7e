--------------------------- MODULE RootCi_proofs ---------------------------
(***************************************************************************)
(* Machine-checked proofs about RootCi, for every set of demands and       *)
(* capacities and every bound on faults: the store always passes its       *)
(* startup check, no claim is forgotten by its host, candidate code runs   *)
(* only where the service counts it and at most once, and a claim ends     *)
(* either as evidence or as a revoked attempt.                             *)
(***************************************************************************)
EXTENDS RootCi, FiniteSetTheorems, WellFoundedInduction, TLAPS

(***************************************************************************)
(* The inductive invariant.  None of the properties is inductive alone:    *)
(* what a worker, a request it gave up on, or the reporter does next rests *)
(* on its own memory, and that memory must agree with the store.  The      *)
(* journal is what ties them: it names how far its claim can have come.    *)
(***************************************************************************)

\* The states in which a row of the store can be, by the state of its claim.
RowShape(r) ==
  /\ r.claim = "none" =>
       /\ r.demand \in {"none", "queued", "superseded"} /\ r.owner = None
       /\ r.receipt = "none" /\ r.recovery = "none" /\ r.outbox = "none"
  /\ r.claim # "none" => r.owner \in Capacities
  /\ r.claim = "preparing" =>
       /\ r.demand \in {"preparing", "superseded"}
       /\ r.receipt = "none" /\ r.recovery = "none" /\ r.outbox = "none"
  /\ r.claim = "active" =>
       /\ r.demand = "active" /\ r.receipt = "active"
       /\ r.recovery = "none" /\ r.outbox = "none"
  /\ r.claim = "reported" =>
       /\ r.demand = "reported" /\ r.receipt = "reported"
       /\ r.recovery = "none" /\ r.outbox = "pending"
  /\ r.claim = "recovering" =>
       /\ r.receipt = "recovering" /\ r.recovery = "requested"
       /\ \/ r.demand = "active" /\ r.outbox = "none"
          \/ r.demand = "reported" /\ r.outbox = "pending"
  /\ r.claim = "released" =>
       /\ r.receipt = "released"
       /\ \/ r.demand = "completed" /\ r.outbox = "delivered" /\ r.recovery = "none"
          \/ r.demand = "completed" /\ r.outbox = "denied" /\ r.recovery = "revoked"
          \/ r.demand = "superseded" /\ r.outbox = "none" /\ r.recovery = "revoked"

RowsShaped == \A d \in Demands : RowShape(row[d])

\* No receipt is of a later root than the admission, and a demand that may
\* still be claimed or activated is of exactly that root.
RootsAdmitted == \A d \in Demands : ReceiptConsistent(d) /\ DemandConsistent(d)

\* A worker is where its journal says, and waits for the request of its journal.
WorkerInStep(c) ==
  /\ pc[c] = "poll" => journal[c].kind = "none"
  /\ pc[c] = "reserve" => journal[c].kind = "claim"
  /\ pc[c] = "issue" => journal[c].kind = "reserved"
  /\ pc[c] = "activate" => journal[c].kind = "activation"
  /\ pc[c] \in Executing => journal[c].kind = "active"
  /\ pc[c] \in {"report", "replay"} => journal[c].kind = "result"
  /\ pc[c] = "recover" => journal[c].kind = "recovery"
  /\ pc[c] = "report" => tries[c] < ReportTries
  /\ handler[c] # None =>
       /\ pc[c] = "waiting"
       /\ journal[c].demand = handler[c].demand
       /\ handler[c].op = "issue" => journal[c].kind = "reserved"
       /\ handler[c].op = "activate" => journal[c].kind = "activation"
       /\ handler[c].op = "recover" => journal[c].kind = "recovery"

WorkersInStep == \A c \in Capacities : WorkerInStep(c)

\* A journal names a claim of its own capacity, and how far it can have come.
JournalTrue(c) ==
  /\ journal[c].kind \notin {"none", "claim"} =>
       JobOf(c) \in Demands /\ row[JobOf(c)].owner = c
  /\ journal[c].kind = "claim" /\ requested[c] # None =>
       row[requested[c]].owner = c /\ row[requested[c]].claim = "preparing"
  /\ journal[c].kind = "reserved" => row[JobOf(c)].claim = "preparing"
  /\ journal[c].kind = "activation" => row[JobOf(c)].claim \in {"preparing", "active"}
  /\ journal[c].kind = "active" => row[JobOf(c)].claim = "active"
  /\ journal[c].kind = "result" => row[JobOf(c)].claim \in {"active", "reported", "released"}
  /\ journal[c].kind = "recovery" =>
       row[JobOf(c)].claim \in {"active", "reported", "recovering", "released"}

JournalsTrue == \A c \in Capacities : JournalTrue(c)

\* The journal of c names d, in this kind.
Names(c, kind, d) == journal[c].kind = kind /\ JobOf(c) = d

\* What a handler, waited for or not, may still assume about its claim.
HandlerSound(h) ==
  LET r == row[h.demand]
  IN  /\ r.claim # "none"
      /\ h.op = "activate" /\ r.claim = "preparing" =>
           Names(r.owner, "activation", h.demand)
      /\ h.op = "recover" =>
           /\ r.receipt # "none"
           /\ r.receipt = "released" \/ Names(r.owner, "recovery", h.demand)
      /\ h.op = "recover" /\ h.stage \in {"revoke", "complete"} => r.recovery # "none"
      /\ h.op = "recover" /\ h.stage = "complete" => attempt[h.demand] = "revoked"

HandlersSound ==
  /\ \A h \in orphans : HandlerSound(h)
  /\ \A c \in Capacities : handler[c] # None => HandlerSound(handler[c])

\* Code is started for an active claim only, and its journal shows it.
LaunchesJournaled ==
  /\ \A d \in Demands : row[d].claim \in {"none", "preparing"} => d \notin launched
  /\ \A c \in Capacities :
       /\ journal[c].kind = "activation" => JobOf(c) \notin launched
       /\ pc[c] \in {"lease", "fetch", "launch"} => JobOf(c) \notin launched
       /\ pc[c] \in {"run", "finished"} \/ journal[c].kind = "result" => JobOf(c) \in launched
       /\ container[c] # None => Names(c, "active", container[c])
       /\ pc[c] = "finished" => container[c] = None
  /\ \A d \in Demands : HasResult(d) => d \in launched

\* A published status is of a result, for an attempt that only a recovery takes back.
StatusesEarned ==
  /\ \A d \in status : HasResult(d) /\ attempt[d] # "none"
  /\ \A d \in Demands : attempt[d] = "revoked" => row[d].recovery # "none"
  /\ reporter.phase # "idle" => reporter.demand \in Demands
  /\ reporter.phase = "send" => HasResult(reporter.demand)
  /\ reporter.phase = "ack" => reporter.demand \in status
  /\ \A d \in Demands : row[d].outbox = "delivered" => d \in status
  /\ ReleaseAfterRevocation

RootCiInv ==
  /\ TypeOK
  /\ RowsShaped
  /\ RootsAdmitted
  /\ WorkersInStep
  /\ JournalsTrue
  /\ ClaimIsJournaled
  /\ SingleOccupancy
  /\ HandlersSound
  /\ LaunchesJournaled
  /\ StatusesEarned
\* The tuples of variables that UNCHANGED names, and the demand of a worker.
USE DEF store, serving, hosts, native, budget, vars, JobOf

-----------------------------------------------------------------------------
(* Types *)

\* The order of the natural numbers is well founded.
Less == {ss \in Nat \X Nat : ss[1] < ss[2]}

LEMMA LessWellFounded == IsWellFoundedOn(Less, Nat)
BY NatLessThanWellFounded, Zenon DEF OpToRel, Less

\* The queue has an oldest element.
LEMMA OldestExists ==
  ASSUME NEW S, S \subseteq Demands, S # {}
  PROVE  Oldest(S) \in S
<1>1. S \subseteq Nat
  BY RootCiAssumption
<1>2. PICK x \in S : \A y \in S : ~(<<y, x>> \in Less)
  BY <1>1, WFMin, LessWellFounded, Zenon
<1>3. ASSUME NEW y \in S PROVE x <= y
  <2>1. x \in Nat /\ y \in Nat
    BY <1>1
  <2>2. ~(y < x)
    BY <1>2, <2>1 DEF Less
  <2> QED
    BY <2>1, <2>2
<1> QED
  BY <1>3 DEF Oldest

\* The bounds are numbers.
LEMMA Bounds ==
  /\ MaxMoves \in Nat /\ MaxRestarts \in Nat /\ MaxCrashes \in Nat
  /\ MaxFaults \in Nat /\ MaxLapses \in Nat /\ ReportTries \in Nat \ {0}
BY RootCiAssumption

\* The place of a result in the order of results is a number.
LEMMA OrderType ==
  1 + Cardinality({e \in Demands : HasResult(e)}) \in Nat
<1>1. IsFiniteSet({e \in Demands : HasResult(e)})
  BY FS_Subset, RootCiAssumption
<1> QED
  BY <1>1, FS_CardinalityType

\* A handler step is of a handler that is waited for or orphaned, and sound.
LEMMA HandlerHeld ==
  ASSUME TypeOK, HandlersSound, NEW s \in Capacities \cup {None},
         NEW h \in IF s = None THEN orphans ELSE {handler[s]} \ {None}
  PROVE  /\ h \in Handlers /\ HandlerSound(h) /\ h.demand \in Demands
         /\ s # None => s \in Capacities /\ handler[s] = h /\ h # None
         /\ s = None => h \in orphans
<1>1. h \in Handlers /\ (s # None => s \in Capacities /\ handler[s] = h /\ h # None)
      /\ (s = None => h \in orphans)
  BY DEF TypeOK
<1>2. HandlerSound(h)
  BY <1>1 DEF HandlersSound
<1>3. h.demand \in Demands
  BY <1>1 DEF Handlers
<1> QED
  BY <1>1, <1>2, <1>3

\* Advancing a handler to a stage of its operation leaves a handler.
LEMMA AdvanceType ==
  ASSUME NEW h \in Handlers, NEW g,
         \/ h.op = "issue" /\ g = "reply"
         \/ h.op = "activate" /\ g = "commit"
         \/ h.op = "recover" /\ g \in {"prepare", "revoke", "complete"}
  PROVE  /\ [h EXCEPT !.stage = g] \in Handlers
         /\ [h EXCEPT !.stage = g] = [op |-> h.op, demand |-> h.demand, stage |-> g]
<1>1. CASE h \in [op : {"issue"}, demand : Demands, stage : {"issue", "reply"}]
  BY <1>1 DEF Handlers
<1>2. CASE h \in [op : {"activate"}, demand : Demands, stage : {"prove", "commit"}]
  BY <1>2 DEF Handlers
<1>3. CASE h \in [op : {"recover"}, demand : Demands,
                  stage : {"prove", "prepare", "revoke", "complete"}]
  BY <1>3 DEF Handlers
<1> QED
  BY <1>1, <1>2, <1>3 DEF Handlers

\* The type invariant by the part of the system that keeps the variables.
StoreTyped ==
  row \in [Demands -> Row] /\ admission \in [sequence : Nat, fresh : BOOLEAN] /\ epoch \in Nat
ServingTyped ==
  /\ up \in BOOLEAN
  /\ handler \in [Capacities -> Handlers \cup {None}]
  /\ orphans \subseteq Handlers
  /\ reporter \in [phase : {"idle", "send", "ack"}, demand : Demands \cup {None}]
HostsTyped ==
  /\ journal \in [Capacities -> Journals]
  /\ requested \in [Capacities -> Demands \cup {None}]
  /\ pc \in [Capacities -> Locations]
  /\ tries \in [Capacities -> 0 .. ReportTries]
  /\ container \in [Capacities -> Demands \cup {None}]
  /\ launched \subseteq Demands
NativeTyped ==
  /\ head \in Nat /\ withdrawn \subseteq Demands
  /\ attempt \in [Demands -> {"none", "issued", "revoked"}]
  /\ status \subseteq Demands
BudgetTyped ==
  /\ moves \in 0 .. MaxMoves /\ restarts \in 0 .. MaxRestarts
  /\ crashes \in 0 .. MaxCrashes /\ faults \in 0 .. MaxFaults
  /\ lapses \in 0 .. MaxLapses

LEMMA TypeParts ==
  /\ TypeOK <=> StoreTyped /\ ServingTyped /\ HostsTyped /\ NativeTyped /\ BudgetTyped
  /\ TypeOK' <=> StoreTyped' /\ ServingTyped' /\ HostsTyped' /\ NativeTyped' /\ BudgetTyped'
BY DEF TypeOK, StoreTyped, ServingTyped, HostsTyped, NativeTyped, BudgetTyped

\* A part that a step leaves alone keeps its type.
LEMMA TypeFrame ==
  ASSUME TypeOK
  PROVE  /\ UNCHANGED store => StoreTyped'
         /\ UNCHANGED serving => ServingTyped'
         /\ UNCHANGED hosts => HostsTyped'
         /\ UNCHANGED native => NativeTyped'
         /\ UNCHANGED budget => BudgetTyped'
BY TypeParts DEF StoreTyped, ServingTyped, HostsTyped, NativeTyped, BudgetTyped

\* A counted fault stays within its bound.
LEMMA FaultTyped ==
  ASSUME TypeOK
  PROVE  /\ faults < MaxFaults /\ faults' = faults + 1 /\ UNCHANGED <<moves, restarts, crashes, lapses>>
              => BudgetTyped'
         /\ crashes < MaxCrashes /\ crashes' = crashes + 1 /\ UNCHANGED <<moves, restarts, faults, lapses>>
              => BudgetTyped'
         /\ restarts < MaxRestarts /\ restarts' = restarts + 1 /\ UNCHANGED <<moves, crashes, faults, lapses>>
              => BudgetTyped'
         /\ moves < MaxMoves /\ moves' = moves + 1 /\ UNCHANGED <<restarts, crashes, faults, lapses>>
              => BudgetTyped'
         /\ lapses < MaxLapses /\ lapses' = lapses + 1 /\ UNCHANGED <<moves, restarts, crashes, faults>>
              => BudgetTyped'
BY TypeParts, Bounds DEF BudgetTyped

\* A worker whose journal names a claim names one of the store.
LEMMA JobType ==
  ASSUME TypeOK, WorkersInStep, JournalsTrue, NEW c \in Capacities,
         pc[c] \in Executing \cup {"issue", "activate", "report", "replay", "recover"}
  PROVE  JobOf(c) \in Demands
BY DEF WorkersInStep, WorkerInStep, JournalsTrue, JournalTrue

\* Rows that a step writes are rows.
LEMMA ClaimType ==
  ASSUME StoreTyped, NEW c \in Capacities, NEW d \in Demands
  PROVE  ClaimOf(c, d) \in Row
<1>1. row[d] \in Row /\ epoch \in Nat
  BY DEF StoreTyped
<1> QED
  BY <1>1 DEF ClaimOf, Row, DemandStates, ClaimStates

LEMMA AcceptType ==
  ASSUME StoreTyped, NEW d \in Demands, Accept(d), ~HasResult(d)
  PROVE  row' \in [Demands -> Row]
<1> DEFINE n == 1 + Cardinality({e \in Demands : HasResult(e)})
           r == [row[d] EXCEPT !.demand = "reported", !.claim = "reported",
                               !.receipt = "reported", !.outbox = "pending", !.order = n]
<1>1. row[d] \in Row /\ n \in Nat
  BY OrderType DEF StoreTyped
<1>2. row' = [row EXCEPT ![d] = r]
  BY DEF Accept
<1> HIDE DEF n
<1>3. r \in Row
  BY <1>1 DEF Row, DemandStates, ClaimStates
<1> HIDE DEF r
<1> QED
  BY <1>2, <1>3 DEF StoreTyped

\* Every step of a worker keeps every variable in its type.
LEMMA WorkerTypeStep ==
  ASSUME RootCiInv, NEW c \in Capacities,
         WorkerStep(c) \/ Start(c) \/ GiveUp(c) \/ Crash(c)
  PROVE  TypeOK'
<1>t. TypeOK /\ WorkersInStep /\ JournalsTrue
  BY DEF RootCiInv
<1>h. HostsTyped /\ StoreTyped /\ ServingTyped
  BY <1>t, TypeParts
<1> USE <1>t, <1>h
<1>1. CASE Poll(c)
  <2>1. HostsTyped'
    BY <1>1 DEF Poll, Journaled, At, HostsTyped, Journals, Locations
  <2> QED
    BY <1>1, <2>1, TypeParts, TypeFrame DEF Poll
<1>2. CASE ReserveReplay(c)
  <2>1. HostsTyped'
    <3>1. CASE Journaled(c, "reserved", requested[c]) /\ At(c, "issue")
      BY <1>2, <3>1 DEF ReserveReplay, Journaled, At, HostsTyped, Journals, Locations
    <3>2. CASE Dies(c)
      BY <1>2, <3>2 DEF ReserveReplay, Dies, At, HostsTyped, Locations
    <3> QED
      BY <1>2, <3>1, <3>2 DEF ReserveReplay, ReserveReturns, ReplyLost
  <2>2. BudgetTyped'
    BY <1>2, TypeFrame, FaultTyped DEF ReserveReplay, ReserveReturns, ReplyLost
  <2> QED
    BY <1>2, <2>1, <2>2, TypeParts, TypeFrame DEF ReserveReplay
<1>3. CASE ReserveRefused(c)
  <2>1. ASSUME Dies(c) PROVE HostsTyped'
    BY <1>3, <2>1 DEF ReserveRefused, Dies, At, HostsTyped, Locations
  <2>3. ASSUME Cleared(c), At(c, "poll") PROVE HostsTyped'
    BY <1>3, <2>3 DEF ReserveRefused, Cleared, At, HostsTyped, Journals, NoJournal, Locations
  <2>2. HostsTyped'
    BY <1>3, <2>1, <2>3 DEF ReserveRefused
  <2> QED
    BY <1>3, <2>2, TypeParts, TypeFrame DEF ReserveRefused
<1>4. CASE Reserve(c)
  <2> DEFINE d == Oldest(Claimable)
  <2>1. d \in Demands
    BY <1>4, OldestExists DEF Reserve, Claimable
  <2>2. row' = [row EXCEPT ![d] = ClaimOf(c, d)] /\ UNCHANGED <<admission, epoch>>
    BY <1>4 DEF Reserve
  <2>3. StoreTyped'
    BY <2>1, <2>2, ClaimType DEF StoreTyped
  <2>6. requested' = [requested EXCEPT ![c] = d] /\ ReserveReturns(c, d)
    BY <1>4 DEF Reserve
  <2> HIDE DEF d
  <2>4. HostsTyped'
    <3>1. CASE Journaled(c, "reserved", d) /\ At(c, "issue")
      BY <1>4, <2>1, <2>6, <3>1 DEF Reserve, Journaled, At, HostsTyped, Journals, Locations
    <3>2. CASE Dies(c)
      BY <1>4, <2>1, <2>6, <3>2 DEF Reserve, Dies, At, HostsTyped, Locations
    <3> QED
      BY <2>6, <3>1, <3>2 DEF ReserveReturns, ReplyLost
  <2>5. BudgetTyped'
    BY <2>6, TypeFrame, FaultTyped DEF ReserveReturns, ReplyLost
  <2> QED
    BY <1>4, <2>3, <2>4, <2>5, TypeParts, TypeFrame DEF Reserve
<1>5. ASSUME NEW op, NEW g, [op |-> op, demand |-> JobOf(c), stage |-> g] \in Handlers,
             Awaits(c, op, g), UNCHANGED <<up, reporter>>
      PROVE  ServingTyped'
  BY <1>5 DEF Awaits, ServingTyped
<1>6. ASSUME NEW op, NEW g, Awaits(c, op, g),
             UNCHANGED <<requested, tries, container, launched>>
      PROVE  HostsTyped'
  BY <1>6 DEF Awaits, At, HostsTyped, Locations
<1>7. CASE Unavailable(c)
  <2>1. HostsTyped'
    BY <1>7 DEF Unavailable, Dies, At, HostsTyped, Locations
  <2> QED
    BY <1>7, <2>1, TypeParts, TypeFrame DEF Unavailable
<1>8. CASE IssueCall(c)
  <2>1. [op |-> "issue", demand |-> JobOf(c), stage |-> "issue"] \in Handlers
    BY <1>8, JobType DEF IssueCall, Handlers
  <2>2. Awaits(c, "issue", "issue") \/ (Dies(c) /\ UNCHANGED <<handler, orphans>>)
    BY <1>8 DEF IssueCall
  <2>4. ASSUME Dies(c) PROVE HostsTyped'
    BY <1>8, <2>4 DEF IssueCall, Dies, At, HostsTyped, Locations
  <2>3. ServingTyped' /\ HostsTyped'
    BY <1>5, <1>6, <1>8, <2>1, <2>2, <2>4, TypeFrame DEF IssueCall
  <2> QED
    BY <1>8, <2>3, TypeParts, TypeFrame DEF IssueCall
<1>9. CASE ActivateCall(c)
  <2>1. [op |-> "activate", demand |-> JobOf(c), stage |-> "prove"] \in Handlers
        /\ JobOf(c) \in Demands
    BY <1>9, JobType DEF ActivateCall, Handlers
  <2>2. \/ Awaits(c, "activate", "prove") /\ UNCHANGED budget
        \/ /\ Dies(c) \/ (Journaled(c, "active", JobOf(c)) /\ At(c, "lease"))
           /\ UNCHANGED <<handler, orphans>>
           /\ UNCHANGED budget \/ ReplyLost(c)
    BY <1>9 DEF ActivateCall, ReplyLost
  <2>3. ServingTyped'
    BY <1>5, <1>9, <2>1, <2>2, TypeFrame DEF ActivateCall
  <2>6. ASSUME Dies(c) PROVE HostsTyped'
    BY <1>9, <2>6 DEF ActivateCall, Dies, At, HostsTyped, Locations
  <2>7. ASSUME Journaled(c, "active", JobOf(c)), At(c, "lease") PROVE HostsTyped'
    BY <1>9, <2>1, <2>7 DEF ActivateCall, Journaled, At, HostsTyped, Journals, Locations
  <2>4. HostsTyped'
    BY <1>6, <1>9, <2>2, <2>6, <2>7 DEF ActivateCall
  <2>5. BudgetTyped'
    BY <2>2, TypeFrame, FaultTyped DEF ReplyLost
  <2> QED
    BY <1>9, <2>3, <2>4, <2>5, TypeParts, TypeFrame DEF ActivateCall
<1>10. CASE RecoverCall(c)
  <2>1. /\ [op |-> "recover", demand |-> JobOf(c), stage |-> "prove"] \in Handlers
        /\ [op |-> "recover", demand |-> JobOf(c), stage |-> "revoke"] \in Handlers
    BY <1>10, JobType DEF RecoverCall, Handlers
  <2>2. \/ /\ Awaits(c, "recover", "prove") \/ Awaits(c, "recover", "revoke")
           /\ UNCHANGED budget
        \/ /\ Dies(c) \/ (Cleared(c) /\ Returns(c))
           /\ UNCHANGED <<handler, orphans>>
           /\ UNCHANGED budget \/ ReplyLost(c)
    BY <1>10 DEF RecoverCall, ReplyLost
  <2>3. ServingTyped'
    BY <1>5, <1>10, <2>1, <2>2, TypeFrame DEF RecoverCall
  <2>6. ASSUME Dies(c) PROVE HostsTyped'
    BY <1>10, <2>6 DEF RecoverCall, Dies, At, HostsTyped, Locations
  <2>7. ASSUME Cleared(c), NEW w \in {"poll", "down"}, At(c, w) PROVE HostsTyped'
    BY <1>10, <2>7 DEF RecoverCall, Cleared, At, HostsTyped, Journals, NoJournal, Locations
  <2>4. HostsTyped'
    BY <1>6, <1>10, <2>2, <2>6, <2>7 DEF RecoverCall, Returns
  <2>5. BudgetTyped'
    BY <2>2, TypeFrame, FaultTyped DEF ReplyLost
  <2> QED
    BY <1>10, <2>3, <2>4, <2>5, TypeParts, TypeFrame DEF RecoverCall
<1>11. CASE StartLease(c) \/ FetchCandidate(c) \/ Complete(c)
  <2>2. ASSUME StartLease(c) PROVE HostsTyped'
    BY <2>2 DEF StartLease, At, HostsTyped, Locations
  <2>3. ASSUME FetchCandidate(c) PROVE HostsTyped'
    BY <2>3 DEF FetchCandidate, At, HostsTyped, Locations
  <2>4. ASSUME Complete(c) PROVE HostsTyped'
    BY <2>4 DEF Complete, At, HostsTyped, Locations
  <2>1. HostsTyped'
    BY <1>11, <2>2, <2>3, <2>4
  <2> QED
    BY <1>11, <2>1, TypeParts, TypeFrame DEF StartLease, FetchCandidate, Complete
<1>12. CASE Launch(c) \/ Submit(c)
  <2>1. JobOf(c) \in Demands
    BY <1>12, JobType DEF Launch, Submit, Executing
  <2>3. ASSUME Launch(c) PROVE HostsTyped'
    BY <2>1, <2>3 DEF Launch, At, HostsTyped, Locations
  <2>4. ASSUME Submit(c) PROVE HostsTyped'
    BY <2>1, <2>4, Bounds DEF Submit, Journaled, At, HostsTyped, Journals, Locations
  <2>2. HostsTyped'
    BY <1>12, <2>3, <2>4
  <2> QED
    BY <1>12, <2>2, TypeParts, TypeFrame DEF Launch, Submit
<1>13. CASE Abandon(c)
  <2>1. JobOf(c) \in Demands
    BY <1>13, JobType DEF Abandon
  <2>2. HostsTyped'
    BY <1>13, <2>1 DEF Abandon, AsksRecovery, Journaled, At, HostsTyped, Journals, Locations
  <2>3. BudgetTyped'
    BY <1>13, TypeFrame, FaultTyped DEF Abandon
  <2> QED
    BY <1>13, <2>2, <2>3, TypeParts, TypeFrame DEF Abandon
<1>14. CASE CleanupFails(c)
  <2>1. HostsTyped'
    BY <1>14 DEF CleanupFails, Dies, At, HostsTyped, Locations
  <2>2. BudgetTyped'
    BY <1>14, FaultTyped DEF CleanupFails
  <2> QED
    BY <1>14, <2>1, <2>2, TypeParts, TypeFrame DEF CleanupFails
<1>15. ASSUME NEW d \in Demands, Accept(d), UNCHANGED <<admission, epoch>>
       PROVE  StoreTyped'
  <2>1. CASE HasResult(d)
    BY <1>15, <2>1 DEF Accept, StoreTyped
  <2>2. CASE ~HasResult(d)
    BY <1>15, <2>2, AcceptType DEF StoreTyped
  <2> QED
    BY <2>1, <2>2
<1>16. CASE Report(c)
  <2>1. JobOf(c) \in Demands
    BY <1>16, JobType DEF Report
  <2>2. Accept(JobOf(c)) \/ UNCHANGED row
    BY <1>16 DEF Report
  <2>3. \/ Cleared(c) /\ At(c, "poll") /\ UNCHANGED tries
        \/ RetryReport(c)
    BY <1>16 DEF Report
  <2>4. tries[c] < ReportTries
    BY <1>16 DEF Report, WorkersInStep, WorkerInStep
  <2>7. ASSUME Cleared(c), At(c, "poll"), UNCHANGED tries PROVE HostsTyped'
    BY <1>16, <2>7 DEF Report, Cleared, At, HostsTyped, Journals, NoJournal, Locations
  <2>8. tries[c] + 1 \in 0 .. ReportTries
    BY <2>4, Bounds DEF HostsTyped
  <2>9. ASSUME RetryReport(c), AsksRecovery(c) PROVE HostsTyped'
    BY <1>16, <2>1, <2>8, <2>9 DEF Report, RetryReport, AsksRecovery, Journaled, At, HostsTyped,
       Journals, Locations
  <2>10. ASSUME RetryReport(c), UNCHANGED <<journal, pc>> PROVE HostsTyped'
    BY <1>16, <2>8, <2>10 DEF Report, RetryReport, HostsTyped
  <2>5. HostsTyped'
    BY <2>3, <2>7, <2>9, <2>10 DEF RetryReport
  <2>6. BudgetTyped'
    BY <1>16, TypeFrame, FaultTyped DEF Report
  <2> QED
    BY <1>15, <1>16, <2>1, <2>2, <2>5, <2>6, TypeParts, TypeFrame DEF Report
<1>17. CASE ReplayReport(c)
  <2>1. JobOf(c) \in Demands
    BY <1>17, JobType DEF ReplayReport
  <2>2. Accept(JobOf(c)) \/ UNCHANGED row
    BY <1>17 DEF ReplayReport
  <2>3. /\ (Cleared(c) /\ At(c, "poll")) \/ Dies(c) \/ AsksRecovery(c)
        /\ UNCHANGED budget \/ ReplyLost(c)
    BY <1>17 DEF ReplayReport, ReplyLost
  <2>6. ASSUME Cleared(c), At(c, "poll") PROVE HostsTyped'
    BY <1>17, <2>6 DEF ReplayReport, Cleared, At, HostsTyped, Journals, NoJournal, Locations
  <2>7. ASSUME Dies(c) PROVE HostsTyped'
    BY <1>17, <2>7 DEF ReplayReport, Dies, At, HostsTyped, Locations
  <2>8. ASSUME AsksRecovery(c) PROVE HostsTyped'
    BY <1>17, <2>1, <2>8 DEF ReplayReport, AsksRecovery, Journaled, At, HostsTyped, Journals, Locations
  <2>4. HostsTyped'
    BY <2>3, <2>6, <2>7, <2>8
  <2>5. BudgetTyped'
    BY <2>3, TypeFrame, FaultTyped DEF ReplyLost
  <2> QED
    BY <1>15, <1>17, <2>1, <2>2, <2>4, <2>5, TypeParts, TypeFrame DEF ReplayReport
<1>18. CASE Start(c)
  <2>1. PICK w \in Locations : At(c, w)
    BY <1>18 DEF Start, HostsTyped, Journals, Locations
  <2>3. container' \in [Capacities -> Demands \cup {None}]
    BY <1>18 DEF Start, HostsTyped
  <2>4. journal' \in [Capacities -> Journals]
    BY <1>18 DEF Start, Journaled, HostsTyped, Journals
  <2>2. HostsTyped'
    BY <1>18, <2>1, <2>3, <2>4 DEF Start, At, HostsTyped
  <2> QED
    BY <1>18, <2>2, TypeParts, TypeFrame DEF Start
<1>19. CASE GiveUp(c) \/ Crash(c)
  <2>4. /\ Orphan(c) /\ UNCHANGED <<up, reporter>>
        /\ Dies(c) /\ UNCHANGED <<requested, tries, container, launched>>
    BY <1>19 DEF GiveUp, Crash
  <2>1. ServingTyped'
    BY <2>4 DEF Orphan, ServingTyped
  <2>2. HostsTyped'
    BY <2>4 DEF Dies, At, HostsTyped, Locations
  <2>3. BudgetTyped'
    BY <1>19, FaultTyped DEF GiveUp, Crash
  <2> QED
    BY <1>19, <2>1, <2>2, <2>3, TypeParts, TypeFrame DEF GiveUp, Crash
<1> QED
  BY <1>1, <1>2, <1>3, <1>4, <1>7, <1>8, <1>9, <1>10, <1>11, <1>12, <1>13, <1>14,
     <1>16, <1>17, <1>18, <1>19 DEF WorkerStep
-----------------------------------------------------------------------------
(* What the steps of a handler do to the handlers and to who waits for them. *)

\* Advancing replaces one handler, for its waiter or among the orphans.
LEMMA AdvanceEffect ==
  ASSUME ServingTyped, NEW s \in Capacities \cup {None}, NEW h \in Handlers, NEW g,
         s # None => handler[s] = h, Advance(s, h, g),
         \/ h.op = "issue" /\ g = "reply"
         \/ h.op = "activate" /\ g = "commit"
         \/ h.op = "recover" /\ g \in {"prepare", "revoke", "complete"}
  PROVE  /\ UNCHANGED <<journal, pc>>
         /\ handler' \in [Capacities -> Handlers \cup {None}] /\ orphans' \subseteq Handlers
         /\ \E k \in Handlers :
              /\ k = [op |-> h.op, demand |-> h.demand, stage |-> g]
              /\ \A o \in orphans' : o \in orphans \/ o = k
              /\ \A c \in Capacities : handler'[c] = handler[c] \/ (c = s /\ handler'[c] = k)
<1> DEFINE k == [op |-> h.op, demand |-> h.demand, stage |-> g]
<1>1. [h EXCEPT !.stage = g] = k /\ k \in Handlers
  BY AdvanceType
<1>2. /\ UNCHANGED <<journal, pc>>
      /\ orphans' = IF s = None THEN (orphans \ {h}) \cup {k} ELSE orphans
      /\ handler' = IF s = None THEN handler ELSE [handler EXCEPT ![s] = k]
  BY <1>1 DEF Advance
<1> HIDE DEF k
<1>3. handler' \in [Capacities -> Handlers \cup {None}] /\ orphans' \subseteq Handlers
  BY <1>1, <1>2 DEF ServingTyped
<1>4. \A o \in orphans' : o \in orphans \/ o = k
  BY <1>2
<1>5. \A c \in Capacities : handler'[c] = handler[c] \/ (c = s /\ handler'[c] = k)
  BY <1>2 DEF ServingTyped
<1> QED
  BY <1>1, <1>2, <1>3, <1>4, <1>5 DEF k

\* Ending removes one handler.
LEMMA EndsEffect ==
  ASSUME ServingTyped, NEW s \in Capacities \cup {None}, NEW h, Ends(s, h)
  PROVE  /\ handler' \in [Capacities -> Handlers \cup {None}] /\ orphans' \subseteq Handlers
         /\ orphans' \subseteq orphans
         /\ \A c \in Capacities : handler'[c] = None \/ (c # s /\ handler'[c] = handler[c])
BY RootCiAssumption DEF Ends, ServingTyped

\* What an answer does to the worker that waited for it.
Continues(s, h) ==
  \/ s = None /\ UNCHANGED <<journal, pc>>
  \/ s # None /\ h.op = "issue" /\ Journaled(s, "activation", h.demand) /\ At(s, "activate")
  \/ s # None /\ h.op = "activate" /\ Journaled(s, "active", h.demand) /\ At(s, "lease")
  \/ s # None /\ h.op = "recover" /\ Cleared(s) /\ At(s, "poll")
  \/ s # None /\ h.op = "recover" /\ Cleared(s) /\ At(s, "down")

LEMMA AnswersEffect ==
  ASSUME NEW s \in Capacities \cup {None}, NEW h \in Handlers, Answers(s, h)
  PROVE  Ends(s, h) /\ Continues(s, h)
<1>1. h.op \in {"issue", "activate", "recover"}
  BY DEF Handlers
<1> QED
  BY <1>1 DEF Answers, Continues, Returns

LEMMA ContinuesTyped ==
  ASSUME HostsTyped, NEW s \in Capacities \cup {None}, NEW h \in Handlers, Continues(s, h),
         UNCHANGED <<requested, tries, container, launched>>
  PROVE  HostsTyped'
<1>0. h.demand \in Demands
  BY DEF Handlers
<1>1. CASE s = None
  BY <1>1 DEF Continues, HostsTyped
<1>2. ASSUME s # None, NEW k \in {"activation", "active"}, NEW w \in {"activate", "lease"},
             Journaled(s, k, h.demand), At(s, w)
      PROVE  HostsTyped'
  BY <1>0, <1>2 DEF Journaled, At, HostsTyped, Journals, Locations
<1>3. ASSUME s # None, NEW w \in {"poll", "down"}, Cleared(s), At(s, w)
      PROVE  HostsTyped'
  BY <1>3 DEF Cleared, NoJournal, At, HostsTyped, Journals, Locations
<1> QED
  BY <1>1, <1>2, <1>3 DEF Continues

\* An error answer ends the worker that waited for it.
LEMMA RejectsEffect ==
  ASSUME HostsTyped, NEW s \in Capacities \cup {None}, NEW h, Rejects(s, h),
         UNCHANGED <<requested, tries, container, launched>>
  PROVE  /\ Ends(s, h) /\ UNCHANGED journal /\ HostsTyped'
         /\ \A c \in Capacities : pc'[c] = pc[c] \/ (c = s /\ pc'[c] = "down")
<1>1. CASE s = None
  BY <1>1 DEF Rejects, HostsTyped
<1>2. CASE s # None
  BY <1>2 DEF Rejects, Dies, At, HostsTyped, Locations
<1> QED
  BY <1>1, <1>2

\* Every step of a handler keeps every variable in its type.
LEMMA HandlerTypeStep ==
  ASSUME RootCiInv, NEW s \in Capacities \cup {None}, HandlerStep(s)
  PROVE  TypeOK'
<1>1. PICK h \in IF s = None THEN orphans ELSE {handler[s]} \ {None} :
        \/ IssueAttempt(s, h) \/ IssueReply(s, h)
        \/ ProveAttempt(s, h) \/ Activate(s, h)
        \/ PrepareRecovery(s, h) \/ RevokeAttempt(s, h) \/ CompleteRecovery(s, h)
  BY DEF HandlerStep
<1>t. TypeOK /\ StoreTyped /\ ServingTyped /\ HostsTyped /\ NativeTyped
  BY TypeParts DEF RootCiInv
<1>2. h \in Handlers /\ h.demand \in Demands /\ (s # None => handler[s] = h)
  BY HandlerHeld DEF RootCiInv
<1> DEFINE Frame == UNCHANGED <<up, reporter, requested, tries, container, launched>>
<1>3. ASSUME NEW g, Advance(s, h, g), Frame,
         \/ h.op = "issue" /\ g = "reply"
         \/ h.op = "activate" /\ g = "commit"
         \/ h.op = "recover" /\ g \in {"prepare", "revoke", "complete"}
      PROVE  ServingTyped' /\ HostsTyped'
  <2>1. /\ UNCHANGED <<journal, pc>>
        /\ handler' \in [Capacities -> Handlers \cup {None}] /\ orphans' \subseteq Handlers
    BY <1>t, <1>2, <1>3, AdvanceEffect
  <2> QED
    BY <1>t, <1>3, <2>1 DEF ServingTyped, HostsTyped
<1>4. ASSUME Answers(s, h) \/ Rejects(s, h), Frame
      PROVE  ServingTyped' /\ HostsTyped'
  <2>1. Ends(s, h) /\ HostsTyped'
    BY <1>t, <1>2, <1>4, AnswersEffect, ContinuesTyped, RejectsEffect
  <2>2. handler' \in [Capacities -> Handlers \cup {None}] /\ orphans' \subseteq Handlers
    BY <1>t, <2>1, EndsEffect
  <2> QED
    BY <1>t, <1>4, <2>1, <2>2 DEF ServingTyped
<1>5. CASE IssueAttempt(s, h)
  <2>1. ServingTyped' /\ HostsTyped'
    BY <1>3, <1>4, <1>5 DEF IssueAttempt
  <2>2. NativeTyped'
    BY <1>t, <1>2, <1>5 DEF IssueAttempt, NativeTyped
  <2> QED
    BY <1>t, <1>5, <2>1, <2>2, TypeParts, TypeFrame DEF IssueAttempt
<1>6. CASE IssueReply(s, h)
  BY <1>t, <1>4, <1>6, TypeParts, TypeFrame DEF IssueReply
<1>7. CASE ProveAttempt(s, h)
  <2>1. h.op \in {"activate", "recover"}
    BY <1>2, <1>7 DEF ProveAttempt, Handlers
  <2>2. ServingTyped' /\ HostsTyped'
    BY <1>3, <1>4, <1>7, <2>1 DEF ProveAttempt
  <2> QED
    BY <1>t, <1>7, <2>2, TypeParts, TypeFrame DEF ProveAttempt
<1>8. ASSUME NEW r \in Row, row' = [row EXCEPT ![h.demand] = r], UNCHANGED <<admission, epoch>>
      PROVE  StoreTyped'
  BY <1>t, <1>8 DEF StoreTyped
<1>r. row[h.demand] \in Row
  BY <1>t, <1>2 DEF StoreTyped
<1>9. CASE Activate(s, h)
  <2>1. StoreTyped'
    <3>1. CASE UNCHANGED row
      BY <1>t, <1>9, <3>1, TypeFrame DEF Activate
    <3>2. CASE ~UNCHANGED row
      <4> DEFINE r == [row[h.demand] EXCEPT !.demand = "active", !.claim = "active",
                                           !.receipt = "active", !.lease = TRUE]
      <4>1. row' = [row EXCEPT ![h.demand] = r]
        BY <1>9, <3>2 DEF Activate
      <4>2. r \in Row
        BY <1>r DEF Row, DemandStates, ClaimStates
      <4> HIDE DEF r
      <4> QED
        BY <1>8, <1>9, <4>1, <4>2 DEF Activate
    <3> QED
      BY <3>1, <3>2
  <2> QED
    BY <1>t, <1>4, <1>9, <2>1, TypeParts, TypeFrame DEF Activate
<1>10. CASE PrepareRecovery(s, h)
  <2>1. StoreTyped'
    <3>1. CASE UNCHANGED row
      BY <1>t, <1>10, <3>1, TypeFrame DEF PrepareRecovery
    <3>2. CASE ~UNCHANGED row
      <4> DEFINE r == [row[h.demand] EXCEPT !.receipt = "recovering", !.claim = "recovering",
                                           !.recovery = "requested"]
      <4>1. row' = [row EXCEPT ![h.demand] = r]
        BY <1>10, <3>2 DEF PrepareRecovery
      <4>2. r \in Row
        BY <1>r DEF Row, DemandStates, ClaimStates
      <4> HIDE DEF r
      <4> QED
        BY <1>8, <1>10, <4>1, <4>2 DEF PrepareRecovery
    <3> QED
      BY <3>1, <3>2
  <2>2. ServingTyped' /\ HostsTyped'
    BY <1>3, <1>4, <1>10 DEF PrepareRecovery
  <2> QED
    BY <1>t, <1>10, <2>1, <2>2, TypeParts, TypeFrame DEF PrepareRecovery
<1>11. CASE RevokeAttempt(s, h)
  <2>1. NativeTyped'
    BY <1>t, <1>2, <1>11 DEF RevokeAttempt, NativeTyped
  <2> QED
    BY <1>t, <1>3, <1>11, <2>1, TypeParts, TypeFrame DEF RevokeAttempt
<1>12. CASE CompleteRecovery(s, h)
  <2>1. StoreTyped'
    <3> DEFINE q == [row[h.demand] EXCEPT !.claim = "released", !.receipt = "released",
                                         !.recovery = "revoked"]
    <3>1. q \in Row
      BY <1>r DEF Row, ClaimStates
    <3>2. [q EXCEPT !.outbox = "denied", !.demand = "completed"] \in Row
          /\ [q EXCEPT !.demand = "superseded"] \in Row
      <4> HIDE DEF q
      <4> QED
        BY <3>1 DEF Row, DemandStates
    <3>3. \/ UNCHANGED row
          \/ row' = [row EXCEPT ![h.demand] = [q EXCEPT !.outbox = "denied", !.demand = "completed"]]
          \/ row' = [row EXCEPT ![h.demand] = [q EXCEPT !.demand = "superseded"]]
      BY <1>12 DEF CompleteRecovery
    <3> HIDE DEF q
    <3> QED
      BY <1>t, <1>8, <1>12, <3>2, <3>3, TypeFrame DEF CompleteRecovery
  <2> QED
    BY <1>t, <1>4, <1>12, <2>1, TypeParts, TypeFrame DEF CompleteRecovery
<1> QED
  BY <1>1, <1>5, <1>6, <1>7, <1>9, <1>10, <1>11, <1>12

\* Every step keeps every variable in its type.
LEMMA TypeStep ==
  ASSUME RootCiInv, [Next]_vars
  PROVE  TypeOK'
<1>t. TypeOK /\ StoreTyped /\ ServingTyped /\ HostsTyped /\ NativeTyped
  BY TypeParts DEF RootCiInv
<1>1. CASE \E c \in Capacities : WorkerStep(c) \/ Start(c) \/ GiveUp(c) \/ Crash(c)
  BY <1>1, WorkerTypeStep
<1>2. CASE \E s \in Capacities \cup {None} : HandlerStep(s)
  BY <1>2, HandlerTypeStep
<1>3. CASE TakeOldest
  <2>1. ServingTyped'
    BY <1>t, <1>3 DEF TakeOldest, Deliverable, ServingTyped
  <2> QED
    BY <1>t, <1>3, <2>1, TypeParts, TypeFrame DEF TakeOldest
<1>4. CASE Send
  <2>1. reporter.demand \in Demands
    BY <1>4 DEF Send, RootCiInv, StatusesEarned
  <2>2. ServingTyped'
    BY <1>t, <1>4, <2>1 DEF Send, Idle, ServingTyped
  <2>3. NativeTyped'
    BY <1>t, <1>4, <2>1 DEF Send, NativeTyped
  <2>4. BudgetTyped'
    BY <1>t, <1>4, TypeFrame, FaultTyped DEF Send
  <2> QED
    BY <1>t, <1>4, <2>2, <2>3, <2>4, TypeParts, TypeFrame DEF Send
<1>5. CASE Acknowledge
  <2> DEFINE d == reporter.demand
             r == [row[d] EXCEPT !.outbox = "delivered", !.claim = "released",
                                 !.receipt = "released", !.demand = "completed"]
  <2>1. d \in Demands
    BY <1>5 DEF Acknowledge, RootCiInv, StatusesEarned
  <2>2. row[d] \in Row
    BY <1>t, <2>1 DEF StoreTyped
  <2>3. r \in Row
    BY <2>2 DEF Row, DemandStates, ClaimStates
  <2>4. UNCHANGED row \/ row' = [row EXCEPT ![d] = r]
    BY <1>5 DEF Acknowledge
  <2>5. StoreTyped'
    <3> HIDE DEF r
    <3> QED
      BY <1>t, <1>5, <2>3, <2>4 DEF Acknowledge, StoreTyped
  <2>6. ServingTyped'
    BY <1>t, <1>5 DEF Acknowledge, Idle, ServingTyped
  <2> QED
    BY <1>t, <1>5, <2>5, <2>6, TypeParts, TypeFrame DEF Acknowledge
<1>6. CASE Register
  <2>1. PICK t \in admission.sequence .. head :
          /\ admission' = [sequence |-> t, fresh |-> TRUE]
          /\ row' = IF t > admission.sequence
                    THEN [d \in Demands |-> Superseded(row[d])] ELSE row
    BY <1>6 DEF Register
  <2>2. \A d \in Demands : Superseded(row[d]) \in Row
    <3>1. ASSUME NEW r \in Row PROVE Superseded(r) \in Row
      BY <3>1 DEF Superseded, Row, DemandStates
    <3> QED
      BY <1>t, <3>1 DEF StoreTyped
  <2>3. t \in Nat
    BY <1>t DEF StoreTyped, NativeTyped
  <2>4. row' \in [Demands -> Row]
    BY <1>t, <2>1, <2>2 DEF StoreTyped
  <2>5. StoreTyped'
    BY <1>t, <1>6, <2>1, <2>3, <2>4 DEF Register, StoreTyped
  <2> QED
    BY <1>t, <1>6, <2>5, TypeParts, TypeFrame DEF Register
<1>7. CASE AdmissionLapses
  <2>1. StoreTyped'
    BY <1>t, <1>7 DEF AdmissionLapses, StoreTyped
  <2> QED
    BY <1>t, <1>7, <2>1, TypeParts, TypeFrame, FaultTyped DEF AdmissionLapses
<1>8. CASE RootMoves
  <2>1. NativeTyped'
    BY <1>t, <1>8 DEF RootMoves, NativeTyped
  <2> QED
    BY <1>t, <1>8, <2>1, TypeParts, TypeFrame, FaultTyped DEF RootMoves
<1>9. CASE ServiceStops
  <2>1. ServingTyped'
    BY <1>t, <1>9 DEF ServiceStops, Idle, ServingTyped
  <2>2. HostsTyped'
    BY <1>t, <1>9 DEF ServiceStops, HostsTyped, Locations
  <2> QED
    BY <1>t, <1>9, <2>1, <2>2, TypeParts, TypeFrame, FaultTyped DEF ServiceStops
<1>10. CASE ServiceActivates
  <2>1. StoreTyped' /\ ServingTyped'
    BY <1>t, <1>10 DEF ServiceActivates, ActivateEpoch, StoreTyped, ServingTyped
  <2> QED
    BY <1>t, <1>10, <2>1, TypeParts, TypeFrame DEF ServiceActivates
<1>11. ASSUME NEW d \in Demands, CommitReceipt(d) PROVE TypeOK'
  <2> DEFINE r == [row[d] EXCEPT !.demand = "queued", !.root = admission.sequence]
  <2>1. row' = [row EXCEPT ![d] = r]
    BY <1>11 DEF CommitReceipt
  <2>2. row[d] \in Row /\ admission.sequence \in Nat
    BY <1>t DEF StoreTyped
  <2>3. r \in Row
    BY <2>2 DEF Row, DemandStates
  <2>4. StoreTyped'
    <3> HIDE DEF r
    <3> QED
      BY <1>t, <1>11, <2>1, <2>3 DEF CommitReceipt, StoreTyped
  <2> QED
    BY <1>t, <1>11, <2>4, TypeParts, TypeFrame DEF CommitReceipt
<1>12. ASSUME NEW d \in Demands, Withdraw(d) PROVE TypeOK'
  <2>1. NativeTyped'
    BY <1>t, <1>12 DEF Withdraw, NativeTyped
  <2> QED
    BY <1>t, <1>12, <2>1, TypeParts, TypeFrame, FaultTyped DEF Withdraw
<1>13. ASSUME NEW d \in Demands, LeaseExpires(d) PROVE TypeOK'
  <2>1. row[d] \in Row
    BY <1>t DEF StoreTyped
  <2>2. [row[d] EXCEPT !.lease = FALSE] \in Row
    BY <2>1 DEF Row
  <2>3. StoreTyped'
    BY <1>t, <1>13, <2>2 DEF LeaseExpires, StoreTyped
  <2> QED
    BY <1>t, <1>13, <2>3, TypeParts, TypeFrame DEF LeaseExpires
<1>14. CASE UNCHANGED vars
  BY <1>t, <1>14, TypeParts, TypeFrame
<1> QED
  BY <1>1, <1>2, <1>3, <1>4, <1>5, <1>6, <1>7, <1>8, <1>9, <1>10, <1>11, <1>12, <1>13, <1>14
     DEF Next, ReporterStep
-----------------------------------------------------------------------------
(***************************************************************************)
(* Every step, seen from one row of the store.  Each move says what it     *)
(* does to the row and which journal its step found: that is all the rest  *)
(* of the proof needs to know about the actions that write the store.      *)
(***************************************************************************)

SameClaim(d) ==
  /\ row'[d].claim = row[d].claim /\ row'[d].receipt = row[d].receipt
  /\ row'[d].recovery = row[d].recovery /\ row'[d].outbox = row[d].outbox
  /\ row'[d].owner = row[d].owner

RowStays(d) ==
  /\ SameClaim(d) /\ row'[d].root = row[d].root
  /\ \/ row'[d].demand = row[d].demand
     \/ row[d].demand \in {"queued", "preparing"} /\ row'[d].demand = "superseded"
RowCommitted(d) ==
  /\ SameClaim(d) /\ row[d].demand = "none" /\ row'[d].demand = "queued"
  /\ row'[d].root = admission.sequence /\ admission' = admission
RowReserved(c, d) ==
  /\ pc[c] = "reserve" /\ Occupied(c) = {} /\ requested[c] = None /\ requested'[c] = d
  /\ row[d].demand = "queued" /\ AtAdmittedRoot(d) /\ admission' = admission
  /\ row'[d].demand = "preparing" /\ row'[d].claim = "preparing" /\ row'[d].owner = c
  /\ row'[d].root = row[d].root /\ row'[d].receipt = row[d].receipt
  /\ row'[d].recovery = row[d].recovery /\ row'[d].outbox = row[d].outbox
RowActivated(d) ==
  /\ row[d].claim = "preparing" /\ Names(row[d].owner, "activation", d)
  /\ row'[d].demand = "active" /\ row'[d].claim = "active" /\ row'[d].receipt = "active"
  /\ row'[d].owner = row[d].owner /\ row'[d].root = row[d].root
  /\ row'[d].recovery = row[d].recovery /\ row'[d].outbox = row[d].outbox
RowAccepted(d) ==
  /\ row[d].claim = "active" /\ Names(row[d].owner, "result", d)
  /\ row'[d].demand = "reported" /\ row'[d].claim = "reported" /\ row'[d].receipt = "reported"
  /\ row'[d].outbox = "pending" /\ row'[d].recovery = row[d].recovery
  /\ row'[d].owner = row[d].owner /\ row'[d].root = row[d].root
RowRecovering(d) ==
  /\ row[d].claim \in {"active", "reported", "recovering"} /\ Names(row[d].owner, "recovery", d)
  /\ row'[d].claim = "recovering" /\ row'[d].receipt = "recovering" /\ row'[d].recovery = "requested"
  /\ row'[d].demand = row[d].demand /\ row'[d].outbox = row[d].outbox
  /\ row'[d].owner = row[d].owner /\ row'[d].root = row[d].root
RowRevoked(d) ==
  /\ row[d].claim = "recovering" /\ attempt[d] = "revoked" /\ attempt' = attempt
  /\ row'[d].claim = "released" /\ row'[d].receipt = "released" /\ row'[d].recovery = "revoked"
  /\ \/ row[d].outbox = "pending" /\ row'[d].outbox = "denied" /\ row'[d].demand = "completed"
     \/ row[d].outbox = "none" /\ row'[d].outbox = "none" /\ row'[d].demand = "superseded"
  /\ row'[d].owner = row[d].owner /\ row'[d].root = row[d].root
RowDelivered(d) ==
  /\ row[d].claim = "reported" /\ d \in status
  /\ row'[d].claim = "released" /\ row'[d].receipt = "released"
  /\ row'[d].outbox = "delivered" /\ row'[d].demand = "completed"
  /\ row'[d].recovery = row[d].recovery
  /\ row'[d].owner = row[d].owner /\ row'[d].root = row[d].root

RowMove(d) ==
  \/ RowStays(d) \/ RowCommitted(d) \/ (\E c \in Capacities : RowReserved(c, d))
  \/ RowActivated(d) \/ RowAccepted(d) \/ RowRecovering(d) \/ RowRevoked(d) \/ RowDelivered(d)

\* A step that leaves the store alone leaves every row where it is.
LEMMA RowsStay ==
  ASSUME UNCHANGED row
  PROVE  \A d \in Demands : RowStays(d)
BY DEF RowStays, SameClaim

\* A step that writes one row leaves the others where they are.
LEMMA OtherRowsStay ==
  ASSUME StoreTyped, NEW d \in Demands, NEW r, row' = [row EXCEPT ![d] = r]
  PROVE  /\ row'[d] = r
         /\ \A e \in Demands : e # d => RowStays(e)
BY DEF StoreTyped, RowStays, SameClaim

\* The rows that steps write, and their fields.
ActivatedRow(r) ==
  [r EXCEPT !.demand = "active", !.claim = "active", !.receipt = "active", !.lease = TRUE]
RevokedRow(r) ==
  [r EXCEPT !.claim = "released", !.receipt = "released", !.recovery = "revoked"]
DeniedRow(r) == [RevokedRow(r) EXCEPT !.outbox = "denied", !.demand = "completed"]
WithdrawnRow(r) == [RevokedRow(r) EXCEPT !.demand = "superseded"]
DeliveredRow(r) ==
  [r EXCEPT !.outbox = "delivered", !.claim = "released", !.receipt = "released",
            !.demand = "completed"]
CommittedRow(r, n) == [r EXCEPT !.demand = "queued", !.root = n]

LEMMA ReservedFields ==
  ASSUME NEW c, NEW d, row[d] \in Row
  PROVE  LET s == ClaimOf(c, d)
         IN  /\ s.demand = "preparing" /\ s.claim = "preparing" /\ s.owner = c
             /\ s.root = row[d].root /\ s.receipt = row[d].receipt
             /\ s.recovery = row[d].recovery /\ s.outbox = row[d].outbox
<1> DEFINE r == row[d]
<1>1. [r EXCEPT !.demand = "preparing", !.claim = "preparing", !.owner = c, !.epoch = epoch]
      = ClaimOf(c, d)
  BY DEF ClaimOf
<1>2. r \in Row
  OBVIOUS
<1> HIDE DEF r
<1> QED
  BY <1>1, <1>2 DEF Row, r

LEMMA ActivatedFields ==
  ASSUME NEW r \in Row
  PROVE  LET s == ActivatedRow(r)
         IN  /\ s.demand = "active" /\ s.claim = "active" /\ s.receipt = "active"
             /\ s.owner = r.owner /\ s.root = r.root
             /\ s.recovery = r.recovery /\ s.outbox = r.outbox
BY DEF Row, ActivatedRow

LEMMA RevokedFields ==
  ASSUME NEW r \in Row
  PROVE  /\ LET s == DeniedRow(r)
            IN  /\ s.demand = "completed" /\ s.claim = "released" /\ s.receipt = "released"
                /\ s.recovery = "revoked" /\ s.outbox = "denied"
                /\ s.owner = r.owner /\ s.root = r.root
         /\ LET s == WithdrawnRow(r)
            IN  /\ s.demand = "superseded" /\ s.claim = "released" /\ s.receipt = "released"
                /\ s.recovery = "revoked" /\ s.outbox = r.outbox
                /\ s.owner = r.owner /\ s.root = r.root
BY DEF Row, DeniedRow, WithdrawnRow, RevokedRow

LEMMA DeliveredFields ==
  ASSUME NEW r \in Row
  PROVE  LET s == DeliveredRow(r)
         IN  /\ s.demand = "completed" /\ s.claim = "released" /\ s.receipt = "released"
             /\ s.outbox = "delivered" /\ s.recovery = r.recovery
             /\ s.owner = r.owner /\ s.root = r.root
BY DEF Row, DeliveredRow

LEMMA CommittedFields ==
  ASSUME NEW r \in Row, NEW n
  PROVE  LET s == CommittedRow(r, n)
         IN  /\ s.demand = "queued" /\ s.root = n /\ s.claim = r.claim /\ s.receipt = r.receipt
             /\ s.recovery = r.recovery /\ s.outbox = r.outbox /\ s.owner = r.owner
BY DEF Row, CommittedRow

LEMMA ReserveMoves ==
  ASSUME RootCiInv, NEW c \in Capacities, Reserve(c)
  PROVE  \A d \in Demands : RowMove(d)
<1>t. StoreTyped /\ HostsTyped
  BY TypeParts DEF RootCiInv
<1> DEFINE d == Oldest(Claimable)
<1>1. d \in Claimable /\ d \in Demands
  BY OldestExists DEF Reserve, Claimable
<1>2. row' = [row EXCEPT ![d] = ClaimOf(c, d)] /\ requested' = [requested EXCEPT ![c] = d]
  BY DEF Reserve
<1> HIDE DEF d
<1>3. row'[d] = ClaimOf(c, d) /\ \A e \in Demands : e # d => RowStays(e)
  BY <1>t, <1>1, <1>2, OtherRowsStay
<1>4. row[d] \in Row
  BY <1>t, <1>1 DEF StoreTyped
<1>5. requested'[c] = d
  BY <1>t, <1>2 DEF HostsTyped
<1>6. RowReserved(c, d)
  BY <1>1, <1>3, <1>4, <1>5, ReservedFields DEF Reserve, Claimable, RowReserved
<1> QED
  BY <1>3, <1>6 DEF RowMove

LEMMA AcceptMoves ==
  ASSUME RootCiInv, NEW c \in Capacities, pc[c] \in {"report", "replay"},
         Acceptable(JobOf(c)), Accept(JobOf(c))
  PROVE  \A d \in Demands : RowMove(d)
<1> DEFINE d == JobOf(c)
           n == 1 + Cardinality({e \in Demands : HasResult(e)})
           r == [row[d] EXCEPT !.demand = "reported", !.claim = "reported",
                               !.receipt = "reported", !.outbox = "pending", !.order = n]
<1>t. StoreTyped /\ WorkerInStep(c) /\ JournalTrue(c)
  BY TypeParts DEF RootCiInv, WorkersInStep, JournalsTrue
<1>1. Names(c, "result", d) /\ row[d].owner = c /\ d \in Demands
  BY <1>t DEF WorkerInStep, JournalTrue, Names
<1>2. CASE HasResult(d)
  BY <1>2, RowsStay DEF Accept, RowMove
<1>3. CASE ~HasResult(d)
  <2>1. row' = [row EXCEPT ![d] = r]
    BY <1>3 DEF Accept
  <2>2. row[d].claim = "active"
    BY <1>3 DEF Acceptable, ActiveClaim
  <2> HIDE DEF n
  <2>3. row[d] \in Row
    BY <1>t, <1>1 DEF StoreTyped
  <2>4. row'[d] = r /\ \A e \in Demands : e # d => RowStays(e)
    BY <1>t, <1>1, <2>1, OtherRowsStay
  <2> HIDE DEF d
  <2>5. RowAccepted(d)
    BY <1>1, <2>2, <2>3, <2>4 DEF RowAccepted, Row
  <2> QED
    BY <2>4, <2>5 DEF RowMove
<1> QED
  BY <1>2, <1>3

LEMMA ActivateMoves ==
  ASSUME RootCiInv, NEW s, NEW h \in Handlers, HandlerSound(h), Activate(s, h)
  PROVE  \A d \in Demands : RowMove(d)
<1> DEFINE d == h.demand
           r == ActivatedRow(row[d])
<1>t. StoreTyped /\ d \in Demands
  BY TypeParts DEF RootCiInv, Handlers
<1>1. CASE UNCHANGED row
  BY <1>1, RowsStay DEF RowMove
<1>2. CASE ~UNCHANGED row
  <2>1. row' = [row EXCEPT ![d] = r] /\ h.op = "activate" /\ row[d].claim = "preparing"
    BY <1>2 DEF Activate, Activatable, CurrentReservation, ActivatedRow
  <2>2. Names(row[d].owner, "activation", d)
    BY <2>1 DEF HandlerSound
  <2>3. row[d] \in Row
    BY <1>t DEF StoreTyped
  <2>4. row'[d] = r /\ \A e \in Demands : e # d => RowStays(e)
    BY <1>t, <2>1, OtherRowsStay
  <2> HIDE DEF d
  <2>5. RowActivated(d)
    BY <2>1, <2>2, <2>3, <2>4, ActivatedFields DEF RowActivated
  <2> QED
    BY <2>4, <2>5 DEF RowMove
<1> QED
  BY <1>1, <1>2

LEMMA PrepareMoves ==
  ASSUME RootCiInv, NEW s, NEW h \in Handlers, HandlerSound(h), PrepareRecovery(s, h)
  PROVE  \A d \in Demands : RowMove(d)
<1> DEFINE d == h.demand
           r == [row[d] EXCEPT !.receipt = "recovering", !.claim = "recovering",
                               !.recovery = "requested"]
<1>t. StoreTyped /\ d \in Demands /\ RowShape(row[d])
  BY TypeParts DEF RootCiInv, Handlers, RowsShaped
<1>1. CASE UNCHANGED row
  BY <1>1, RowsStay DEF RowMove
<1>2. CASE ~UNCHANGED row
  <2>1. row' = [row EXCEPT ![d] = r] /\ h.op = "recover"
        /\ row[d].receipt \in {"active", "recovering", "reported"}
    BY <1>2 DEF PrepareRecovery
  <2>2. row[d] \in Row
    BY <1>t DEF StoreTyped
  <2>3. row[d].claim \in {"active", "reported", "recovering"}
    BY <1>t, <2>1, <2>2 DEF RowShape, Row, ClaimStates
  <2>4. Names(row[d].owner, "recovery", d)
    BY <2>1 DEF HandlerSound
  <2>5. row'[d] = r /\ \A e \in Demands : e # d => RowStays(e)
    BY <1>t, <2>1, OtherRowsStay
  <2> HIDE DEF d
  <2>6. RowRecovering(d)
    BY <2>2, <2>3, <2>4, <2>5 DEF RowRecovering, Row
  <2> QED
    BY <2>5, <2>6 DEF RowMove
<1> QED
  BY <1>1, <1>2

LEMMA CompleteMoves ==
  ASSUME RootCiInv, NEW s, NEW h \in Handlers, HandlerSound(h), CompleteRecovery(s, h)
  PROVE  \A d \in Demands : RowMove(d)
<1> DEFINE d == h.demand
<1>t. StoreTyped /\ d \in Demands /\ RowShape(row[d])
  BY TypeParts DEF RootCiInv, Handlers, RowsShaped
<1>0. row[d] \in Row
  BY <1>t DEF StoreTyped
<1>1. CASE UNCHANGED row
  BY <1>1, RowsStay DEF RowMove
<1>2. CASE ~UNCHANGED row
  <2>1. /\ h.op = "recover" /\ h.stage = "complete" /\ row[d].receipt = "recovering"
        /\ UNCHANGED attempt
        /\ \/ /\ row[d].outbox = "pending"
              /\ row' = [row EXCEPT ![d] = DeniedRow(row[d])]
           \/ /\ row[d].outbox = "none"
              /\ row' = [row EXCEPT ![d] = WithdrawnRow(row[d])]
    BY <1>2 DEF CompleteRecovery, DeniedRow, WithdrawnRow, RevokedRow
  <2>2. row[d].claim = "recovering"
    BY <1>t, <1>0, <2>1 DEF RowShape, Row, ClaimStates
  <2>3. attempt[d] = "revoked"
    BY <2>1 DEF HandlerSound
  <2> HIDE DEF d
  <2>4. ASSUME row[d].outbox = "pending",
               row' = [row EXCEPT ![d] = DeniedRow(row[d])]
        PROVE  RowRevoked(d) /\ \A e \in Demands : e # d => RowStays(e)
    <3>1. row'[d] = DeniedRow(row[d])
          /\ \A e \in Demands : e # d => RowStays(e)
      BY <1>t, <2>4, OtherRowsStay
    <3> QED
      BY <1>0, <2>1, <2>2, <2>3, <2>4, <3>1, RevokedFields DEF RowRevoked
  <2>5. ASSUME row[d].outbox = "none",
               row' = [row EXCEPT ![d] = WithdrawnRow(row[d])]
        PROVE  RowRevoked(d) /\ \A e \in Demands : e # d => RowStays(e)
    <3>1. row'[d] = WithdrawnRow(row[d])
          /\ \A e \in Demands : e # d => RowStays(e)
      BY <1>t, <2>5, OtherRowsStay
    <3> QED
      BY <1>0, <2>1, <2>2, <2>3, <2>5, <3>1, RevokedFields DEF RowRevoked
  <2> QED
    BY <2>1, <2>4, <2>5 DEF RowMove
<1> QED
  BY <1>1, <1>2

LEMMA AcknowledgeMoves ==
  ASSUME RootCiInv, Acknowledge
  PROVE  \A d \in Demands : RowMove(d)
<1> DEFINE d == reporter.demand
           r == DeliveredRow(row[d])
<1>t. StoreTyped /\ d \in Demands /\ d \in status
  BY TypeParts DEF RootCiInv, StatusesEarned, Acknowledge
<1>1. CASE ~Acknowledgeable(d)
  BY <1>1, RowsStay DEF RowMove, Acknowledge
<1>2. CASE Acknowledgeable(d)
  <2>1. row' = [row EXCEPT ![d] = r] /\ row[d].claim = "reported"
    BY <1>2 DEF Acknowledge, Acknowledgeable, Reported, DeliveredRow
  <2>2. row[d] \in Row
    BY <1>t DEF StoreTyped
  <2>3. row'[d] = r /\ \A e \in Demands : e # d => RowStays(e)
    BY <1>t, <2>1, OtherRowsStay
  <2> HIDE DEF d
  <2>4. RowDelivered(d)
    BY <1>t, <2>1, <2>2, <2>3, DeliveredFields DEF RowDelivered
  <2> QED
    BY <2>3, <2>4 DEF RowMove
<1> QED
  BY <1>1, <1>2

LEMMA IntakeMoves ==
  ASSUME RootCiInv,
         Register \/ (\E d \in Demands : CommitReceipt(d) \/ LeaseExpires(d))
  PROVE  \A d \in Demands : RowMove(d)
<1>t. StoreTyped
  BY TypeParts DEF RootCiInv
<1>1. CASE Register
  <2>1. ASSUME NEW d \in Demands PROVE row'[d] = row[d] \/ row'[d] = Superseded(row[d])
    BY <1>1 DEF Register
  <2>2. ASSUME NEW d \in Demands PROVE RowStays(d)
    <3>1. row[d] \in Row
      BY <1>t DEF StoreTyped
    <3>2. CASE row'[d] = row[d]
      BY <3>2 DEF RowStays, SameClaim
    <3>3. CASE row'[d] = Superseded(row[d]) /\ row[d].demand \in {"queued", "preparing"}
      BY <3>1, <3>3 DEF Superseded, RowStays, SameClaim, Row
    <3> QED
      BY <2>1, <3>2, <3>3 DEF Superseded
  <2> QED
    BY <2>2 DEF RowMove
<1>2. ASSUME NEW d \in Demands, CommitReceipt(d) PROVE \A e \in Demands : RowMove(e)
  <2> DEFINE r == CommittedRow(row[d], admission.sequence)
  <2>1. row[d] \in Row
    BY <1>t DEF StoreTyped
  <2>2. row' = [row EXCEPT ![d] = r]
    BY <1>2 DEF CommitReceipt, CommittedRow
  <2>3. row'[d] = r /\ \A e \in Demands : e # d => RowStays(e)
    BY <1>t, <2>2, OtherRowsStay
  <2>4. RowCommitted(d)
    BY <1>2, <2>1, <2>3, CommittedFields DEF CommitReceipt, RowCommitted, SameClaim
  <2> QED
    BY <2>3, <2>4 DEF RowMove
<1>3. ASSUME NEW d \in Demands, LeaseExpires(d) PROVE \A e \in Demands : RowMove(e)
  <2>1. row[d] \in Row
    BY <1>t DEF StoreTyped
  <2>2. row' = [row EXCEPT ![d] = [row[d] EXCEPT !.lease = FALSE]]
    BY <1>3 DEF LeaseExpires
  <2>3. row'[d] = [row[d] EXCEPT !.lease = FALSE] /\ \A e \in Demands : e # d => RowStays(e)
    BY <1>t, <2>2, OtherRowsStay
  <2>4. RowStays(d)
    BY <2>1, <2>3 DEF RowStays, SameClaim, Row
  <2> QED
    BY <2>3, <2>4 DEF RowMove
<1> QED
  BY <1>1, <1>2, <1>3

\* Every step moves every row in one of these ways.
LEMMA RowMoves ==
  ASSUME RootCiInv, [Next]_vars
  PROVE  \A d \in Demands : RowMove(d)
<1>1. ASSUME NEW c \in Capacities, WorkerStep(c) \/ Start(c) \/ GiveUp(c) \/ Crash(c)
      PROVE  \A d \in Demands : RowMove(d)
  <2>1. CASE Reserve(c)
    BY <2>1, ReserveMoves
  <2>2. CASE Report(c) \/ ReplayReport(c)
    <3>1. UNCHANGED row \/ (Acceptable(JobOf(c)) /\ Accept(JobOf(c)))
      BY <2>2 DEF Report, ReplayReport
    <3>2. pc[c] \in {"report", "replay"}
      BY <2>2 DEF Report, ReplayReport
    <3> QED
      BY <3>1, <3>2, RowsStay, AcceptMoves DEF RowMove
  <2>3. CASE UNCHANGED row
    BY <2>3, RowsStay DEF RowMove
  <2> QED
    BY <1>1, <2>1, <2>2, <2>3 DEF WorkerStep, Poll, ReserveReplay, ReserveRefused, IssueCall,
       ActivateCall, Unavailable, StartLease, FetchCandidate, Launch, Complete, Submit, Abandon,
       CleanupFails, RecoverCall, Start, GiveUp, Crash
<1>2. ASSUME NEW s \in Capacities \cup {None}, HandlerStep(s)
      PROVE  \A d \in Demands : RowMove(d)
  <2>1. PICK h \in IF s = None THEN orphans ELSE {handler[s]} \ {None} :
          \/ IssueAttempt(s, h) \/ IssueReply(s, h)
          \/ ProveAttempt(s, h) \/ Activate(s, h)
          \/ PrepareRecovery(s, h) \/ RevokeAttempt(s, h) \/ CompleteRecovery(s, h)
    BY <1>2 DEF HandlerStep
  <2>2. h \in Handlers /\ HandlerSound(h)
    BY HandlerHeld DEF RootCiInv
  <2>3. CASE UNCHANGED row
    BY <2>3, RowsStay DEF RowMove
  <2> QED
    BY <2>1, <2>2, <2>3, ActivateMoves, PrepareMoves, CompleteMoves
       DEF IssueAttempt, IssueReply, ProveAttempt, RevokeAttempt
<1>3. CASE Acknowledge
  BY <1>3, AcknowledgeMoves
<1>4. CASE Register \/ (\E d \in Demands : CommitReceipt(d) \/ LeaseExpires(d))
  BY <1>4, IntakeMoves
<1>5. CASE UNCHANGED row
  BY <1>5, RowsStay DEF RowMove
<1> QED
  BY <1>1, <1>2, <1>3, <1>4, <1>5 DEF Next, ReporterStep, TakeOldest, Send, AdmissionLapses,
     RootMoves, ServiceStops, ServiceActivates, Withdraw
-----------------------------------------------------------------------------
(* What follows for the store from the moves of its rows. *)

LEMMA RowFacts ==
  ASSUME RootCiInv, NEW d \in Demands
  PROVE  /\ row[d] \in Row /\ RowShape(row[d])
         /\ row[d].claim \in ClaimStates /\ row[d].demand \in DemandStates
         /\ row[d].owner \in Capacities \cup {None}
<1>1. row[d] \in Row
  BY DEF RootCiInv, TypeOK
<1> QED
  BY <1>1 DEF RootCiInv, RowsShaped, Row

\* Every move keeps a row in one of its shapes.
LEMMA ShapeStep ==
  ASSUME RootCiInv, [Next]_vars
  PROVE  RowsShaped'
<1> SUFFICES ASSUME NEW d \in Demands PROVE RowShape(row'[d])
  BY DEF RowsShaped
<1>0. RowShape(row[d]) /\ row[d].claim \in ClaimStates
  BY RowFacts
<1>1. CASE RowStays(d)
  BY <1>0, <1>1 DEF RowStays, SameClaim, RowShape, ClaimStates
<1>2. CASE RowCommitted(d)
  BY <1>0, <1>2 DEF RowCommitted, SameClaim, RowShape, ClaimStates
<1>3. ASSUME NEW c \in Capacities, RowReserved(c, d) PROVE RowShape(row'[d])
  BY <1>0, <1>3 DEF RowReserved, RowShape, ClaimStates
<1>4. CASE RowActivated(d)
  BY <1>0, <1>4 DEF RowActivated, RowShape
<1>5. CASE RowAccepted(d)
  BY <1>0, <1>5 DEF RowAccepted, RowShape
<1>6. CASE RowRecovering(d)
  BY <1>0, <1>6 DEF RowRecovering, RowShape
<1>7. CASE RowRevoked(d)
  BY <1>0, <1>7 DEF RowRevoked, RowShape
<1>8. CASE RowDelivered(d)
  BY <1>0, <1>8 DEF RowDelivered, RowShape
<1> QED
  BY <1>1, <1>2, <1>3, <1>4, <1>5, <1>6, <1>7, <1>8, RowMoves DEF RowMove

\* The admission only moves on, and then supersedes what waited for the old root.
LEMMA AdmissionMoves ==
  ASSUME RootCiInv, [Next]_vars
  PROVE  \/ admission'.sequence = admission.sequence
         \/ /\ admission'.sequence \in Nat /\ admission'.sequence > admission.sequence
            /\ \A d \in Demands : /\ row'[d].demand \notin {"queued", "preparing"}
                                  /\ row'[d].root = row[d].root
<1>t. StoreTyped /\ NativeTyped
  BY TypeParts DEF RootCiInv
<1>1. CASE Register
  <2>1. PICK t \in admission.sequence .. head :
          /\ admission' = [sequence |-> t, fresh |-> TRUE]
          /\ row' = IF t > admission.sequence
                    THEN [d \in Demands |-> Superseded(row[d])] ELSE row
    BY <1>1 DEF Register
  <2>2. t \in Nat /\ t >= admission.sequence /\ admission.sequence \in Nat
    BY <1>t DEF StoreTyped, NativeTyped
  <2>3. CASE t > admission.sequence
    <3>1. ASSUME NEW r \in Row
          PROVE  /\ Superseded(r).demand \notin {"queued", "preparing"}
                 /\ Superseded(r).root = r.root
      BY <3>1 DEF Superseded, Row
    <3> QED
      BY <1>t, <2>1, <2>2, <2>3, <3>1 DEF StoreTyped
  <2> QED
    BY <2>1, <2>2, <2>3
<1>2. CASE AdmissionLapses
  BY <1>t, <1>2 DEF AdmissionLapses, StoreTyped
<1>3. CASE UNCHANGED admission
  BY <1>3
<1>4. ASSUME NEW c \in Capacities, WorkerStep(c) \/ Start(c) \/ GiveUp(c) \/ Crash(c)
      PROVE  UNCHANGED admission
  BY <1>4 DEF WorkerStep, Poll, ReserveReplay, ReserveRefused, Reserve, IssueCall,
     ActivateCall, Unavailable, StartLease, FetchCandidate, Launch, Complete, Submit, Abandon,
     CleanupFails, Report, ReplayReport, RecoverCall, Start, GiveUp, Crash
<1>5. ASSUME NEW s \in Capacities \cup {None}, HandlerStep(s)
      PROVE  UNCHANGED admission
  BY <1>5 DEF HandlerStep, IssueAttempt, IssueReply, ProveAttempt, Activate, PrepareRecovery,
     RevokeAttempt, CompleteRecovery
<1> QED
  BY <1>1, <1>2, <1>3, <1>4, <1>5 DEF Next, ReporterStep, TakeOldest, Send, Acknowledge,
     RootMoves, ServiceStops, ServiceActivates, CommitReceipt, Withdraw, LeaseExpires

\* What may be claimed or activated is of the admitted root.
LEMMA RootsStep ==
  ASSUME RootCiInv, [Next]_vars
  PROVE  RootsAdmitted'
<1> SUFFICES ASSUME NEW d \in Demands
             PROVE  /\ row'[d].root <= admission'.sequence
                    /\ row'[d].demand \in {"queued", "preparing"} =>
                         row'[d].root = admission'.sequence
  BY DEF RootsAdmitted, ReceiptConsistent, DemandConsistent, AtAdmittedRoot
<1>0. /\ row[d].root <= admission.sequence
      /\ row[d].demand \in {"queued", "preparing"} => row[d].root = admission.sequence
  BY DEF RootCiInv, RootsAdmitted, ReceiptConsistent, DemandConsistent, AtAdmittedRoot
<1>t. row[d].root \in Nat /\ admission.sequence \in Nat
  BY RowFacts, TypeParts DEF RootCiInv, StoreTyped, Row
<1>1. CASE admission'.sequence = admission.sequence
  <2>1. CASE RowStays(d)
    BY <1>0, <1>1, <2>1 DEF RowStays
  <2>2. CASE RowCommitted(d)
    BY <1>t, <1>1, <2>2 DEF RowCommitted
  <2>3. ASSUME NEW c \in Capacities, RowReserved(c, d)
        PROVE  row'[d].root = admission.sequence
    BY <2>3 DEF RowReserved, AtAdmittedRoot
  <2>4. CASE RowActivated(d) \/ RowAccepted(d) \/ RowRevoked(d) \/ RowDelivered(d)
    BY <1>0, <1>1, <2>4 DEF RowActivated, RowAccepted, RowRevoked, RowDelivered
  <2>5. CASE RowRecovering(d)
    <3>1. row[d].demand \in {"active", "reported"}
      BY <2>5, RowFacts DEF RowRecovering, RowShape
    <3> QED
      BY <1>0, <1>1, <2>5, <3>1 DEF RowRecovering
  <2> QED
    BY <1>t, <1>1, <2>1, <2>2, <2>3, <2>4, <2>5, RowMoves DEF RowMove
<1>2. CASE /\ admission'.sequence \in Nat /\ admission'.sequence > admission.sequence
           /\ row'[d].demand \notin {"queued", "preparing"}
           /\ row'[d].root = row[d].root
  BY <1>0, <1>t, <1>2
<1> QED
  BY <1>1, <1>2, AdmissionMoves

\* No move gives a capacity a second claim.
LEMMA OccupancyStep ==
  ASSUME RootCiInv, [Next]_vars
  PROVE  SingleOccupancy'
<1> SUFFICES ASSUME NEW d \in Demands, NEW e \in Demands,
                    row'[d].owner = row'[e].owner, row'[d].owner # None,
                    row'[d].claim # "released", row'[e].claim # "released"
             PROVE  d = e
  BY DEF SingleOccupancy
<1> DEFINE Old(x) == row[x].owner = row'[x].owner /\ row[x].claim # "released"
           New(x) == \E c \in Capacities :
                       Occupied(c) = {} /\ row'[x].owner = c /\ requested'[c] = x
<1>1. ASSUME NEW x \in Demands, row'[x].claim # "released" PROVE Old(x) \/ New(x)
  BY <1>1, RowMoves DEF RowMove, RowStays, SameClaim, RowCommitted, RowReserved, RowActivated,
     RowAccepted, RowRecovering, RowRevoked, RowDelivered
<1>2. CASE Old(d) /\ Old(e)
  BY <1>2 DEF RootCiInv, SingleOccupancy
<1>3. CASE New(d) /\ New(e)
  BY <1>3
<1>4. ASSUME NEW x \in Demands, NEW y \in Demands, Old(x), New(y),
             row'[x].owner = row'[y].owner
      PROVE  FALSE
  BY <1>4 DEF Occupied
<1> QED
  BY <1>1, <1>2, <1>3, <1>4
-----------------------------------------------------------------------------
(***************************************************************************)
(* Every step, seen from the journal of one capacity, with what holds of   *)
(* the claim after it.                                                     *)
(***************************************************************************)

NamesNext(c, kind, d) == journal'[c].kind = kind /\ journal'[c].demand = d
Owns(c, d) == d \in Demands /\ row'[d].owner = c /\ row'[d].claim = "preparing"

JournalStays(c) == journal'[c] = journal[c] /\ requested'[c] = requested[c]
JournalAsks(c) ==
  journal[c].kind = "none" /\ journal'[c].kind = "claim" /\ requested'[c] = None
JournalReserves(c) ==
  /\ journal[c].kind = "claim" /\ requested[c] \in {None, requested'[c]}
  /\ Owns(c, requested'[c])
  /\ journal'[c] = journal[c] \/ NamesNext(c, "reserved", requested'[c])
JournalRefused(c) ==
  /\ journal[c].kind = "claim" /\ journal'[c].kind = "none"
  /\ \A d \in Demands : row'[d].owner = c => row'[d].claim \in {"reported", "released"}
JournalIssued(c, d) == Names(c, "reserved", d) /\ NamesNext(c, "activation", d)
JournalActivated(c, d) ==
  Names(c, "activation", d) /\ NamesNext(c, "active", d) /\ row'[d].claim = "active"
JournalSubmits(c, d) ==
  Names(c, "active", d) /\ NamesNext(c, "result", d) /\ pc[c] = "finished"
JournalRecovers(c, d) ==
  (Names(c, "active", d) \/ Names(c, "result", d)) /\ NamesNext(c, "recovery", d)
JournalReported(c, d) ==
  /\ Names(c, "result", d) /\ journal'[c].kind = "none"
  /\ row'[d].claim \in {"reported", "released"}
JournalRecovered(c, d) ==
  Names(c, "recovery", d) /\ journal'[c].kind = "none" /\ row'[d].claim = "released"

JournalMove(c) ==
  \/ JournalStays(c) \/ JournalAsks(c) \/ JournalReserves(c) \/ JournalRefused(c)
  \/ \E d \in Demands :
       \/ JournalIssued(c, d) \/ JournalActivated(c, d) \/ JournalSubmits(c, d)
       \/ JournalRecovers(c, d) \/ JournalReported(c, d) \/ JournalRecovered(c, d)

\* A step that leaves the journals alone moves none of them.
LEMMA JournalsStay ==
  ASSUME UNCHANGED <<journal, requested>>
  PROVE  \A c \in Capacities : JournalMove(c)
BY DEF JournalMove, JournalStays

\* A step that writes one journal leaves the others alone.
LEMMA OtherJournalsStay ==
  ASSUME HostsTyped, NEW c \in Capacities, NEW j, journal' = [journal EXCEPT ![c] = j],
         \A b \in Capacities : b # c => requested'[b] = requested[b]
  PROVE  /\ journal'[c] = j
         /\ \A b \in Capacities : b # c => JournalStays(b)
BY DEF HostsTyped, JournalStays

\* What a worker's place says about the claim it works on.
LEMMA PlaceFacts ==
  ASSUME RootCiInv, NEW c \in Capacities
  PROVE  /\ pc[c] = "activate" => Names(c, "activation", JobOf(c))
         /\ pc[c] \in Executing => Names(c, "active", JobOf(c))
         /\ pc[c] \in {"report", "replay"} => Names(c, "result", JobOf(c))
         /\ pc[c] = "recover" => Names(c, "recovery", JobOf(c))
         /\ journal[c].kind \notin {"none", "claim"} =>
              JobOf(c) \in Demands /\ row[JobOf(c)].owner = c
         /\ WorkerInStep(c) /\ JournalTrue(c)
BY DEF RootCiInv, WorkersInStep, WorkerInStep, JournalsTrue, JournalTrue, Names

\* An accepted result leaves its claim reported, or released already.
LEMMA AcceptedClaim ==
  ASSUME RootCiInv, NEW c \in Capacities, Names(c, "result", JobOf(c)),
         Acceptable(JobOf(c)), Accept(JobOf(c))
  PROVE  row'[JobOf(c)].claim \in {"reported", "released"}
<1> DEFINE d == JobOf(c)
           n == 1 + Cardinality({e \in Demands : HasResult(e)})
           r == [row[d] EXCEPT !.demand = "reported", !.claim = "reported",
                               !.receipt = "reported", !.outbox = "pending", !.order = n]
<1>1. d \in Demands /\ row[d].claim \in {"active", "reported", "released"}
  BY PlaceFacts DEF Names, JournalTrue
<1>2. CASE HasResult(d)
  <2>1. row[d].claim # "active"
    BY <1>1, <1>2, RowFacts DEF RowShape, HasResult
  <2> QED
    BY <1>1, <1>2, <2>1 DEF Accept
<1>3. CASE ~HasResult(d)
  <2>1. row' = [row EXCEPT ![d] = r]
    BY <1>3 DEF Accept
  <2>2. row[d] \in Row
    BY <1>1, RowFacts
  <2>3. StoreTyped
    BY TypeParts DEF RootCiInv
  <2> HIDE DEF n, d
  <2>4. row'[d] = r
    BY <1>1, <2>1, <2>3 DEF StoreTyped
  <2>5. r.claim = "reported"
    BY <2>2 DEF Row
  <2> HIDE DEF r
  <2>6. row'[d].claim = "reported"
    BY <2>4, <2>5
  <2> QED
    BY <2>6 DEF d
<1> QED
  BY <1>2, <1>3

\* The journal moves of a worker's own steps.
LEMMA WorkerJournalMoves ==
  ASSUME RootCiInv, NEW c \in Capacities,
         WorkerStep(c) \/ Start(c) \/ GiveUp(c) \/ Crash(c)
  PROVE  \A b \in Capacities : JournalMove(b)
<1>t. HostsTyped /\ StoreTyped
  BY TypeParts DEF RootCiInv
<1> DEFINE Goal == \A b \in Capacities : JournalMove(b)
           d == JobOf(c)
<1>0. ASSUME NEW j, journal' = [journal EXCEPT ![c] = j], UNCHANGED requested
      PROVE  journal'[c] = j /\ \A b \in Capacities : b # c => JournalMove(b)
  BY <1>t, <1>0, OtherJournalsStay DEF JournalMove
<1>1. CASE UNCHANGED <<journal, requested>>
  BY <1>1, JournalsStay
<1>2. CASE Poll(c)
  <2>1. journal' = [journal EXCEPT ![c] = [kind |-> "claim", demand |-> None]]
        /\ requested' = [requested EXCEPT ![c] = None] /\ journal[c].kind = "none"
    BY <1>2, PlaceFacts DEF Poll, Journaled, WorkerInStep
  <2>2. \A b \in Capacities : b # c => JournalStays(b)
    BY <1>t, <2>1 DEF HostsTyped, JournalStays
  <2>3. JournalAsks(c)
    BY <1>t, <2>1 DEF HostsTyped, JournalAsks
  <2> QED
    BY <2>2, <2>3 DEF JournalMove
<1>3. CASE ReserveReplay(c)
  <2>1. Dies(c) \/ Journaled(c, "reserved", requested[c])
    BY <1>3 DEF ReserveReplay, ReserveReturns, ReplyLost
  <2>2. /\ journal[c].kind = "claim" /\ requested[c] # None /\ requested[c] \in Demands
        /\ UNCHANGED <<row, requested>>
        /\ row[requested[c]].owner = c /\ row[requested[c]].claim = "preparing"
    BY <1>t, <1>3, PlaceFacts DEF ReserveReplay, WorkerInStep, JournalTrue, HostsTyped
  <2>3. CASE Dies(c)
    BY <1>1, <2>2, <2>3 DEF Dies
  <2>4. CASE Journaled(c, "reserved", requested[c])
    <3>1. journal'[c] = [kind |-> "reserved", demand |-> requested[c]]
          /\ \A b \in Capacities : b # c => JournalMove(b)
      BY <1>0, <2>2, <2>4 DEF Journaled
    <3>2. JournalReserves(c)
      BY <2>2, <3>1 DEF JournalReserves, NamesNext, Owns
    <3> QED
      BY <3>1, <3>2 DEF JournalMove
  <2> QED
    BY <2>1, <2>3, <2>4
<1>4. CASE ReserveRefused(c)
  <2>1. CASE Dies(c)
    BY <1>1, <1>4, <2>1 DEF ReserveRefused, Dies
  <2>2. CASE Cleared(c) /\ ~\E e \in Occupied(c) : row[e].claim # "reported"
    <3>1. journal'[c] = NoJournal /\ \A b \in Capacities : b # c => JournalMove(b)
      BY <1>0, <1>4, <2>2 DEF ReserveRefused, Cleared
    <3>2. journal[c].kind = "claim" /\ UNCHANGED row
      BY <1>4, PlaceFacts DEF ReserveRefused, WorkerInStep
    <3>3. \A e \in Demands : row'[e].owner = c => row'[e].claim \in {"reported", "released"}
      BY <2>2, <3>2 DEF Occupied
    <3>4. JournalRefused(c)
      BY <3>1, <3>2, <3>3 DEF JournalRefused, NoJournal
    <3> QED
      BY <3>1, <3>4 DEF JournalMove
  <2> QED
    BY <1>4, <2>1, <2>2 DEF ReserveRefused
<1>5. CASE Reserve(c)
  <2> DEFINE e == Oldest(Claimable)
  <2>1. e \in Demands
    BY <1>5, OldestExists DEF Reserve, Claimable
  <2>2. /\ row' = [row EXCEPT ![e] = ClaimOf(c, e)]
        /\ requested' = [requested EXCEPT ![c] = e]
        /\ ReserveReturns(c, e) /\ requested[c] = None
    BY <1>5 DEF Reserve
  <2> HIDE DEF e
  <2>3. row'[e] = ClaimOf(c, e) /\ row[e] \in Row /\ journal[c].kind = "claim"
    BY <1>t, <1>5, <2>1, <2>2, RowFacts, PlaceFacts DEF StoreTyped, Reserve, WorkerInStep
  <2>4. Owns(c, e)
    BY <2>1, <2>3, ReservedFields DEF Owns
  <2>5. requested'[c] = e /\ \A b \in Capacities : b # c => requested'[b] = requested[b]
    BY <1>t, <2>2 DEF HostsTyped
  <2>6. CASE UNCHANGED journal
    BY <2>2, <2>3, <2>4, <2>5, <2>6 DEF JournalMove, JournalStays, JournalReserves
  <2>7. CASE Journaled(c, "reserved", e)
    <3>1. journal'[c] = [kind |-> "reserved", demand |-> e]
          /\ \A b \in Capacities : b # c => JournalStays(b)
      BY <1>t, <2>5, <2>7, OtherJournalsStay DEF Journaled
    <3>2. JournalReserves(c)
      BY <2>2, <2>3, <2>4, <2>5, <3>1 DEF JournalReserves, NamesNext
    <3> QED
      BY <3>1, <3>2 DEF JournalMove
  <2> QED
    BY <2>2, <2>6, <2>7 DEF ReserveReturns, ReplyLost, Dies
<1>6. CASE ActivateCall(c)
  <2>1. UNCHANGED <<journal, requested>>
        \/ (Journaled(c, "active", d) /\ ActivationReplay(d) /\ UNCHANGED <<row, requested>>)
    BY <1>6 DEF ActivateCall, ReplyLost, Dies, Awaits
  <2>2. CASE Journaled(c, "active", d) /\ ActivationReplay(d) /\ UNCHANGED <<row, requested>>
    <3>1. Names(c, "activation", d) /\ d \in Demands /\ row[d].claim \in {"preparing", "active"}
      BY <1>6, PlaceFacts DEF ActivateCall, Names, JournalTrue
    <3>2. row'[d].claim = "active"
      BY <2>2, <3>1, RowFacts DEF RowShape, ActivationReplay
    <3>3. journal'[c] = [kind |-> "active", demand |-> d]
          /\ \A b \in Capacities : b # c => JournalMove(b)
      BY <1>0, <2>2 DEF Journaled
    <3>4. JournalActivated(c, d)
      BY <3>1, <3>2, <3>3 DEF JournalActivated, NamesNext
    <3> QED
      BY <3>1, <3>3, <3>4 DEF JournalMove
  <2> QED
    BY <1>1, <2>1, <2>2
<1>7. CASE Submit(c)
  <2>1. Names(c, "active", d) /\ d \in Demands /\ pc[c] = "finished"
    BY <1>7, PlaceFacts DEF Submit, Executing, Names
  <2>2. journal'[c] = [kind |-> "result", demand |-> d]
        /\ \A b \in Capacities : b # c => JournalMove(b)
    BY <1>0, <1>7 DEF Submit, Journaled
  <2>3. JournalSubmits(c, d)
    BY <2>1, <2>2 DEF JournalSubmits, NamesNext
  <2> QED
    BY <2>1, <2>2, <2>3 DEF JournalMove
<1>8. ASSUME Journaled(c, "recovery", d), Names(c, "active", d) \/ Names(c, "result", d),
             UNCHANGED requested
      PROVE  Goal
  <2>1. journal'[c] = [kind |-> "recovery", demand |-> d]
        /\ \A b \in Capacities : b # c => JournalMove(b)
    BY <1>0, <1>8 DEF Journaled
  <2>2. JournalRecovers(c, d) /\ d \in Demands
    BY <1>8, <2>1, PlaceFacts DEF JournalRecovers, NamesNext, Names
  <2> QED
    BY <2>1, <2>2 DEF JournalMove
<1>9. CASE Abandon(c)
  BY <1>8, <1>9, PlaceFacts DEF Abandon, AsksRecovery
<1>10. ASSUME Cleared(c), Names(c, "result", d), UNCHANGED requested,
              Acceptable(d), Accept(d)
       PROVE  Goal
  <2>1. journal'[c] = NoJournal /\ \A b \in Capacities : b # c => JournalMove(b)
    BY <1>0, <1>10 DEF Cleared
  <2>2. row'[d].claim \in {"reported", "released"}
    BY <1>10, AcceptedClaim
  <2>3. JournalReported(c, d) /\ d \in Demands
    BY <1>10, <2>1, <2>2, PlaceFacts DEF JournalReported, NoJournal, Names
  <2> QED
    BY <2>1, <2>3 DEF JournalMove
<1>11. CASE Report(c)
  <2>1. \/ Acceptable(d) /\ Accept(d) /\ Cleared(c)
        \/ AsksRecovery(c) \/ UNCHANGED journal
    BY <1>11 DEF Report, RetryReport
  <2>2. Names(c, "result", d) /\ UNCHANGED requested
    BY <1>11, PlaceFacts DEF Report
  <2> QED
    BY <1>1, <1>8, <1>10, <2>1, <2>2 DEF AsksRecovery
<1>12. CASE ReplayReport(c)
  <2>1. \/ Acceptable(d) /\ Accept(d) /\ Cleared(c)
        \/ AsksRecovery(c) \/ UNCHANGED journal
    BY <1>12 DEF ReplayReport, ReplyLost, Dies
  <2>2. Names(c, "result", d) /\ UNCHANGED requested
    BY <1>12, PlaceFacts DEF ReplayReport
  <2> QED
    BY <1>1, <1>8, <1>10, <2>1, <2>2 DEF AsksRecovery
<1>13. CASE RecoverCall(c)
  <2>1. /\ UNCHANGED <<row, requested>>
        /\ \/ UNCHANGED journal
           \/ Cleared(c) /\ RecoveryReplay(row[d]) = "released"
    BY <1>13 DEF RecoverCall, ReplyLost, Dies, Awaits
  <2>2. CASE Cleared(c) /\ RecoveryReplay(row[d]) = "released"
    <3>1. Names(c, "recovery", d) /\ d \in Demands
      BY <1>13, PlaceFacts DEF RecoverCall, Names
    <3>2. row[d].receipt = "released"
      BY <2>2 DEF RecoveryReplay
    <3>3. row'[d].claim = "released"
      BY <2>1, <3>1, <3>2, RowFacts DEF RowShape, ClaimStates
    <3>4. journal'[c] = NoJournal /\ \A b \in Capacities : b # c => JournalMove(b)
      BY <1>0, <2>1, <2>2 DEF Cleared
    <3>5. JournalRecovered(c, d)
      BY <3>1, <3>3, <3>4 DEF JournalRecovered, NoJournal
    <3> QED
      BY <3>1, <3>4, <3>5 DEF JournalMove
  <2> QED
    BY <1>1, <2>1, <2>2
<1>14. CASE Start(c)
  <2>1. UNCHANGED requested /\ (UNCHANGED journal
          \/ (Journaled(c, "recovery", d) /\ journal[c].kind = "active"))
    BY <1>14 DEF Start
  <2> QED
    BY <1>1, <1>8, <2>1 DEF Names
<1>15. CASE IssueCall(c) \/ Unavailable(c) \/ StartLease(c) \/ FetchCandidate(c) \/ Launch(c)
            \/ Complete(c) \/ CleanupFails(c) \/ GiveUp(c) \/ Crash(c)
  BY <1>1, <1>15 DEF IssueCall, Unavailable, StartLease, FetchCandidate, Launch, Complete,
     CleanupFails, GiveUp, Crash, Awaits, Dies
<1> QED
  BY <1>2, <1>3, <1>4, <1>5, <1>6, <1>7, <1>9, <1>11, <1>12, <1>13, <1>14, <1>15 DEF WorkerStep

\* The journal moves of an answer to the worker that waited for it.
LEMMA HandlerJournalMoves ==
  ASSUME RootCiInv, NEW s \in Capacities \cup {None}, HandlerStep(s)
  PROVE  \A b \in Capacities : JournalMove(b)
<1>1. PICK h \in IF s = None THEN orphans ELSE {handler[s]} \ {None} :
        \/ IssueAttempt(s, h) \/ IssueReply(s, h)
        \/ ProveAttempt(s, h) \/ Activate(s, h)
        \/ PrepareRecovery(s, h) \/ RevokeAttempt(s, h) \/ CompleteRecovery(s, h)
  BY DEF HandlerStep
<1> DEFINE d == h.demand
<1>t. HostsTyped /\ StoreTyped
  BY TypeParts DEF RootCiInv
<1>2. h \in Handlers /\ d \in Demands /\ (s # None => s \in Capacities /\ handler[s] = h /\ h # None)
  BY HandlerHeld DEF RootCiInv
<1>3. CASE UNCHANGED <<journal, requested>>
  BY <1>3, JournalsStay
<1>r. UNCHANGED requested
  BY <1>1 DEF IssueAttempt, IssueReply, ProveAttempt, Activate, PrepareRecovery, RevokeAttempt,
     CompleteRecovery
<1>4. ASSUME s # None, NEW j, journal' = [journal EXCEPT ![s] = j]
      PROVE  journal'[s] = j /\ \A b \in Capacities : b # s => JournalMove(b)
  BY <1>t, <1>2, <1>r, <1>4, OtherJournalsStay DEF JournalMove
<1>5. ASSUME s # None
      PROVE  /\ h.op = "issue" => Names(s, "reserved", d)
             /\ h.op = "activate" => Names(s, "activation", d)
             /\ h.op = "recover" => Names(s, "recovery", d)
  BY <1>2, <1>5, PlaceFacts DEF WorkerInStep, Names
<1>6. ASSUME Answers(s, h), h.op = "activate" => row'[d].claim = "active",
             h.op = "recover" => row'[d].claim = "released"
      PROVE  \A b \in Capacities : JournalMove(b)
  <2>1. Continues(s, h)
    BY <1>2, <1>6, AnswersEffect
  <2>2. CASE s = None
    BY <1>3, <1>r, <2>1, <2>2 DEF Continues
  <2>3. CASE s # None /\ h.op = "issue" /\ Journaled(s, "activation", d)
    <3>1. JournalIssued(s, d) /\ \A b \in Capacities : b # s => JournalMove(b)
      BY <1>4, <1>5, <2>3 DEF Journaled, JournalIssued, NamesNext
    <3> QED
      BY <1>2, <3>1 DEF JournalMove
  <2>4. CASE s # None /\ h.op = "activate" /\ Journaled(s, "active", d)
    <3>1. JournalActivated(s, d) /\ \A b \in Capacities : b # s => JournalMove(b)
      BY <1>4, <1>5, <1>6, <2>4 DEF Journaled, JournalActivated, NamesNext
    <3> QED
      BY <1>2, <3>1 DEF JournalMove
  <2>5. CASE s # None /\ h.op = "recover" /\ Cleared(s)
    <3>1. JournalRecovered(s, d) /\ \A b \in Capacities : b # s => JournalMove(b)
      BY <1>4, <1>5, <1>6, <2>5 DEF Cleared, NoJournal, JournalRecovered
    <3> QED
      BY <1>2, <3>1 DEF JournalMove
  <2> QED
    BY <2>1, <2>2, <2>3, <2>4, <2>5 DEF Continues
<1>7. ASSUME Rejects(s, h) \/ (\E g : Advance(s, h, g)) PROVE \A b \in Capacities : JournalMove(b)
  BY <1>3, <1>7, <1>r DEF Rejects, Dies, Advance
<1>8. CASE IssueAttempt(s, h) \/ ProveAttempt(s, h) \/ RevokeAttempt(s, h)
  BY <1>7, <1>8 DEF IssueAttempt, ProveAttempt, RevokeAttempt
<1>9. CASE IssueReply(s, h)
  BY <1>6, <1>9 DEF IssueReply
<1>10. CASE Activate(s, h)
  <2>1. CASE Rejects(s, h)
    BY <1>7, <2>1
  <2>2. CASE ~Rejects(s, h)
    <3>1. row' = [row EXCEPT ![d] = ActivatedRow(row[d])] /\ Answers(s, h) /\ h.op = "activate"
      BY <1>10, <2>2 DEF Activate, ActivatedRow
    <3>2. row'[d] = ActivatedRow(row[d]) /\ row[d] \in Row
      BY <1>t, <1>2, <3>1 DEF StoreTyped
    <3>3. row'[d].claim = "active"
      BY <3>2, ActivatedFields
    <3> QED
      BY <1>6, <3>1, <3>3
  <2> QED
    BY <2>1, <2>2
<1>11. CASE PrepareRecovery(s, h)
  <2>1. CASE Answers(s, h) /\ UNCHANGED row /\ row[d].receipt = "released" /\ h.op = "recover"
    <3>1. row'[d].claim = "released"
      BY <1>2, <2>1, RowFacts DEF RowShape, ClaimStates
    <3> QED
      BY <1>6, <2>1, <3>1
  <2> QED
    BY <1>7, <1>11, <2>1 DEF PrepareRecovery
<1>12. CASE CompleteRecovery(s, h)
  <2>1. CASE Rejects(s, h)
    BY <1>7, <2>1
  <2>2. CASE ~Rejects(s, h)
    <3>1. /\ Answers(s, h) /\ h.op = "recover"
          /\ \/ row' = [row EXCEPT ![d] = DeniedRow(row[d])]
             \/ row' = [row EXCEPT ![d] = WithdrawnRow(row[d])]
      BY <1>12, <2>2 DEF CompleteRecovery, DeniedRow, WithdrawnRow, RevokedRow
    <3>2. row'[d] \in {DeniedRow(row[d]), WithdrawnRow(row[d])} /\ row[d] \in Row
      BY <1>t, <1>2, <3>1 DEF StoreTyped
    <3>3. row'[d].claim = "released"
      BY <3>2, RevokedFields
    <3> QED
      BY <1>6, <3>1, <3>3
  <2> QED
    BY <2>1, <2>2
<1> QED
  BY <1>1, <1>8, <1>9, <1>10, <1>11, <1>12

\* Every step moves every journal in one of these ways.
LEMMA JournalMoves ==
  ASSUME RootCiInv, [Next]_vars
  PROVE  \A c \in Capacities : JournalMove(c)
<1>1. CASE \E c \in Capacities : WorkerStep(c) \/ Start(c) \/ GiveUp(c) \/ Crash(c)
  BY <1>1, WorkerJournalMoves
<1>2. CASE \E s \in Capacities \cup {None} : HandlerStep(s)
  BY <1>2, HandlerJournalMoves
<1>3. CASE UNCHANGED <<journal, requested>>
  BY <1>3, JournalsStay
<1> QED
  BY <1>1, <1>2, <1>3 DEF Next, ReporterStep, TakeOldest, Send, Acknowledge, Register,
     AdmissionLapses, RootMoves, ServiceStops, ServiceActivates, CommitReceipt, Withdraw, LeaseExpires

-----------------------------------------------------------------------------
(* What follows for the journals and the claims. *)

USE DEF Names, NamesNext

\* A claim that its owner's journal pins down stays where the journal says.
LEMMA PinnedClaims ==
  ASSUME RootCiInv, [Next]_vars, NEW c \in Capacities, NEW d \in Demands, row[d].owner = c
  PROVE  /\ row'[d].owner = c
         /\ row[d].claim = "preparing" /\ ~Names(c, "activation", d) => row'[d].claim = "preparing"
         /\ row[d].claim = "preparing" => row'[d].claim \in {"preparing", "active"}
         /\ row[d].claim = "active" /\ ~Names(c, "result", d) /\ ~Names(c, "recovery", d)
              => row'[d].claim = "active"
         /\ row[d].claim \in {"active", "reported", "released"} /\ ~Names(c, "recovery", d)
              => row'[d].claim \in {"active", "reported", "released"}
         /\ row[d].claim \in {"active", "reported", "recovering", "released"}
              => row'[d].claim \in {"active", "reported", "recovering", "released"}
         /\ row[d].claim \in {"reported", "released"} /\ ~Names(c, "recovery", d)
              => row'[d].claim \in {"reported", "released"}
         /\ row[d].claim = "released" => row'[d].claim = "released"
         /\ row'[d].claim = "active" =>
              row[d].claim = "active" \/ (row[d].claim = "preparing" /\ Names(c, "activation", d))
<1>0. row[d].claim # "none" /\ row[d].claim \in ClaimStates /\ RowShape(row[d])
  BY RowFacts, RootCiAssumption DEF RowShape
<1>1. CASE RowStays(d) \/ RowCommitted(d)
  BY <1>1 DEF RowStays, RowCommitted, SameClaim
<1>2. ~\E b \in Capacities : RowReserved(b, d)
  BY <1>0 DEF RowReserved, RowShape, ClaimStates
<1>3. CASE RowActivated(d)
  BY <1>3 DEF RowActivated
<1>4. CASE RowAccepted(d)
  BY <1>4 DEF RowAccepted
<1>5. CASE RowRecovering(d)
  BY <1>5 DEF RowRecovering
<1>6. CASE RowRevoked(d)
  <2>1. Names(c, "recovery", d)
    BY <1>6 DEF RowRevoked, RootCiInv, ClaimIsJournaled
  <2> QED
    BY <1>6, <2>1 DEF RowRevoked
<1>7. CASE RowDelivered(d)
  BY <1>7 DEF RowDelivered
<1> QED
  BY <1>1, <1>2, <1>3, <1>4, <1>5, <1>6, <1>7, RowMoves DEF RowMove

LEMMA JournalsStep ==
  ASSUME RootCiInv, [Next]_vars
  PROVE  JournalsTrue'
<1> SUFFICES ASSUME NEW c \in Capacities PROVE JournalTrue(c)'
  BY DEF JournalsTrue
<1>t. JournalTrue(c) /\ journal[c] \in Journals /\ requested[c] \in Demands \cup {None}
  BY PlaceFacts, TypeParts DEF RootCiInv, HostsTyped
<1>1. CASE JournalStays(c)
  <2>1. CASE journal[c].kind = "claim"
    BY <1>t, <1>1, <2>1, PinnedClaims DEF JournalStays, JournalTrue
  <2>2. CASE journal[c].kind # "claim" /\ journal[c].kind # "none"
    <3>1. JobOf(c) \in Demands /\ row[JobOf(c)].owner = c
      BY <1>t, <2>2 DEF JournalTrue
    <3> QED
      BY <1>t, <1>1, <2>2, <3>1, PinnedClaims DEF JournalStays, JournalTrue
  <2>3. CASE journal[c].kind = "none"
    BY <1>1, <2>3 DEF JournalStays, JournalTrue
  <2> QED
    BY <2>1, <2>2, <2>3
<1>2. CASE JournalAsks(c) \/ JournalRefused(c)
  BY <1>2 DEF JournalAsks, JournalRefused, JournalTrue
<1>3. CASE JournalReserves(c)
  BY <1>3 DEF JournalReserves, Owns, JournalTrue
<1>4. ASSUME NEW d \in Demands,
             JournalIssued(c, d) \/ JournalActivated(c, d) \/ JournalSubmits(c, d)
      PROVE  JournalTrue(c)'
  <2>1. row[d].owner = c
    BY <1>t, <1>4 DEF JournalIssued, JournalActivated, JournalSubmits, JournalTrue
  <2> QED
    BY <1>t, <1>4, <2>1, PinnedClaims DEF JournalIssued, JournalActivated, JournalSubmits, JournalTrue
<1>5. ASSUME NEW d \in Demands, JournalRecovers(c, d) PROVE JournalTrue(c)'
  <2>1. row[d].owner = c /\ row[d].claim \in {"active", "reported", "released"}
    BY <1>t, <1>5 DEF JournalRecovers, JournalTrue
  <2> QED
    BY <1>t, <1>5, <2>1, PinnedClaims DEF JournalRecovers, JournalTrue
<1>6. ASSUME NEW d \in Demands, JournalReported(c, d) \/ JournalRecovered(c, d)
      PROVE  JournalTrue(c)'
  BY <1>6 DEF JournalReported, JournalRecovered, JournalTrue
<1> QED
  BY <1>1, <1>2, <1>3, <1>4, <1>5, <1>6, JournalMoves DEF JournalMove

LEMMA ClaimsStep ==
  ASSUME RootCiInv, [Next]_vars
  PROVE  ClaimIsJournaled'
<1> SUFFICES ASSUME NEW d \in Demands, NEW c \in Capacities, row'[d].owner = c
             PROVE  /\ row'[d].claim = "preparing" =>
                         \/ journal'[c].kind \in {"reserved", "activation"} /\ journal'[c].demand = d
                         \/ journal'[c].kind = "claim" /\ requested'[c] = d
                    /\ row'[d].claim = "active" =>
                         /\ journal'[c].kind \in {"activation", "active", "result", "recovery"}
                         /\ journal'[c].demand = d
                    /\ row'[d].claim = "recovering" =>
                         journal'[c].kind = "recovery" /\ journal'[c].demand = d
  BY ShapeStep DEF ClaimIsJournaled, RowsShaped, RowShape
<1>n. d # None
  BY RootCiAssumption
<1>1. JournalMove(c)
  BY JournalMoves
<1>2. CASE row[d].owner = c
  <2>1. CASE row'[d].claim = "preparing"
    <3>1. row[d].claim = "preparing"
      BY <1>2, <2>1, PinnedClaims, RowFacts, RootCiAssumption DEF RowShape, ClaimStates
    <3>2. \/ journal[c].kind \in {"reserved", "activation"} /\ JobOf(c) = d
          \/ journal[c].kind = "claim" /\ requested[c] = d
      BY <1>2, <3>1 DEF RootCiInv, ClaimIsJournaled
    <3> QED
      BY <1>n, <1>1, <2>1, <3>2, <1>2 DEF JournalMove, JournalStays, JournalAsks, JournalReserves,
         JournalRefused, JournalIssued, JournalActivated, JournalSubmits, JournalRecovers,
         JournalReported, JournalRecovered
  <2>2. CASE row'[d].claim = "active"
    <3>1. row[d].claim = "active" \/ (row[d].claim = "preparing" /\ Names(c, "activation", d))
      BY <1>2, <2>2, PinnedClaims
    <3>2. journal[c].kind \in {"activation", "active", "result", "recovery"} /\ JobOf(c) = d
      BY <1>2, <3>1 DEF RootCiInv, ClaimIsJournaled
    <3> QED
      BY <1>1, <2>2, <3>2 DEF JournalMove, JournalStays, JournalAsks, JournalReserves,
         JournalRefused, JournalIssued, JournalActivated, JournalSubmits, JournalRecovers,
         JournalReported, JournalRecovered
  <2>3. CASE row'[d].claim = "recovering"
    <3>1. row[d].claim \in {"active", "reported", "recovering"}
      BY <1>2, <2>3, PinnedClaims, RowFacts, RootCiAssumption DEF RowShape, ClaimStates
    <3>2. Names(c, "recovery", d)
      BY <1>2, <2>3, <3>1, PinnedClaims DEF RootCiInv, ClaimIsJournaled
    <3> QED
      BY <1>1, <2>3, <3>2 DEF JournalMove, JournalStays, JournalAsks, JournalReserves,
         JournalRefused, JournalIssued, JournalActivated, JournalSubmits, JournalRecovers,
         JournalReported, JournalRecovered
  <2> QED
    BY <2>1, <2>2, <2>3
<1>3. CASE row[d].owner # c
  <2>1. RowReserved(c, d)
    BY <1>3, RowMoves DEF RowMove, RowStays, RowCommitted, SameClaim, RowReserved, RowActivated,
       RowAccepted, RowRecovering, RowRevoked, RowDelivered
  <2>2. journal[c].kind = "claim" /\ requested[c] = None /\ requested'[c] = d
        /\ row'[d].claim = "preparing"
    BY <2>1, PlaceFacts DEF RowReserved, WorkerInStep
  <2> QED
    BY <1>n, <1>1, <2>2 DEF JournalMove, JournalStays, JournalAsks, JournalReserves,
       JournalRefused, JournalIssued, JournalActivated, JournalSubmits, JournalRecovers,
       JournalReported, JournalRecovered
<1> QED
  BY <1>2, <1>3
-----------------------------------------------------------------------------
(* What follows for the handlers. *)

\* An attempt is issued only while it is not revoked, and revoked only for a
\* claim whose recovery was requested.
AttemptMove(d) ==
  \/ attempt'[d] = attempt[d]
  \/ attempt[d] # "revoked" /\ attempt'[d] = "issued" /\ UNCHANGED <<row, status>>
  \/ attempt'[d] = "revoked" /\ row[d].recovery # "none" /\ UNCHANGED <<row, status>>

LEMMA AttemptMoves ==
  ASSUME RootCiInv, [Next]_vars
  PROVE  \A d \in Demands : AttemptMove(d)
<1>t. NativeTyped
  BY TypeParts DEF RootCiInv
<1>1. CASE UNCHANGED attempt
  BY <1>1 DEF AttemptMove
<1>2. ASSUME NEW s \in Capacities \cup {None}, HandlerStep(s)
      PROVE  \A d \in Demands : AttemptMove(d)
  <2>1. PICK h \in IF s = None THEN orphans ELSE {handler[s]} \ {None} :
          \/ IssueAttempt(s, h) \/ IssueReply(s, h)
          \/ ProveAttempt(s, h) \/ Activate(s, h)
          \/ PrepareRecovery(s, h) \/ RevokeAttempt(s, h) \/ CompleteRecovery(s, h)
    BY <1>2 DEF HandlerStep
  <2>2. HandlerSound(h) /\ h.demand \in Demands
    BY HandlerHeld DEF RootCiInv
  <2>3. CASE IssueAttempt(s, h) /\ attempt' # attempt
    <3>1. attempt' = [attempt EXCEPT ![h.demand] = "issued"] /\ attempt[h.demand] # "revoked"
          /\ UNCHANGED <<row, status>>
      BY <2>3 DEF IssueAttempt
    <3> QED
      BY <1>t, <3>1 DEF AttemptMove, NativeTyped
  <2>4. CASE RevokeAttempt(s, h)
    <3>1. attempt' = [attempt EXCEPT ![h.demand] = "revoked"] /\ UNCHANGED <<row, status>>
          /\ row[h.demand].recovery # "none"
      BY <2>2, <2>4 DEF RevokeAttempt, HandlerSound
    <3> QED
      BY <1>t, <3>1 DEF AttemptMove, NativeTyped
  <2> QED
    BY <1>1, <2>1, <2>3, <2>4 DEF IssueReply, ProveAttempt, Activate, PrepareRecovery, CompleteRecovery
<1>3. CASE \E c \in Capacities : WorkerStep(c) \/ Start(c) \/ GiveUp(c) \/ Crash(c)
  BY <1>1, <1>3 DEF WorkerStep, Poll, ReserveReplay, ReserveRefused, Reserve, IssueCall,
     ActivateCall, Unavailable, StartLease, FetchCandidate, Launch, Complete, Submit, Abandon,
     CleanupFails, Report, ReplayReport, RecoverCall, Start, GiveUp, Crash
<1> QED
  BY <1>1, <1>2, <1>3 DEF Next, ReporterStep, TakeOldest, Send, Acknowledge, Register,
     AdmissionLapses, RootMoves, ServiceStops, ServiceActivates, CommitReceipt, Withdraw, LeaseExpires

\* A recovery once requested is never forgotten, nor is the revocation of an attempt.
LEMMA RecoveryStays ==
  ASSUME RootCiInv, [Next]_vars, NEW d \in Demands
  PROVE  /\ row[d].recovery # "none" => row'[d].recovery # "none"
         /\ attempt[d] = "revoked" => attempt'[d] = "revoked"
<1>0. RowShape(row[d])
  BY RowFacts
<1>1. row[d].recovery # "none" => row'[d].recovery # "none"
  <2>1. CASE RowStays(d) \/ RowCommitted(d)
    BY <2>1 DEF RowStays, RowCommitted, SameClaim
  <2>2. CASE \E c \in Capacities : RowReserved(c, d)
    BY <2>2 DEF RowReserved
  <2>3. CASE RowActivated(d) \/ RowAccepted(d) \/ RowDelivered(d)
    BY <2>3 DEF RowActivated, RowAccepted, RowDelivered
  <2>4. CASE RowRecovering(d) \/ RowRevoked(d)
    BY <2>4 DEF RowRecovering, RowRevoked
  <2> QED
    BY <2>1, <2>2, <2>3, <2>4, RowMoves DEF RowMove
<1> QED
  BY <1>1, AttemptMoves DEF AttemptMove

\* What is true of a handler stays true of what it becomes.
LEMMA SoundStays ==
  ASSUME RootCiInv, [Next]_vars, NEW h \in Handlers, HandlerSound(h),
         NEW k \in Handlers, k.op = h.op, k.demand = h.demand,
         k.op = "recover" /\ k.stage \in {"revoke", "complete"} =>
           row'[k.demand].recovery # "none",
         k.op = "recover" /\ k.stage = "complete" => attempt'[k.demand] = "revoked"
  PROVE  HandlerSound(k)'
<1> DEFINE d == h.demand
           c == row[d].owner
<1>1. d \in Demands /\ row[d].claim # "none"
  BY DEF Handlers, HandlerSound
<1>2. c \in Capacities /\ row[d].claim \in ClaimStates /\ RowShape(row[d])
  BY <1>1, RowFacts DEF RowShape
<1>3. RowShape(row'[d]) /\ row'[d].claim \in ClaimStates
  BY <1>1, ShapeStep, TypeStep DEF RowsShaped, TypeOK, Row
<1>4. JournalMove(c)
  BY <1>2, JournalMoves
<1>5. row'[d].owner = c /\ row'[d].claim # "none"
  BY <1>1, <1>2, PinnedClaims DEF ClaimStates
<1>6. ASSUME k.op = "activate", row'[d].claim = "preparing"
      PROVE  NamesNext(c, "activation", d)
  <2>1. row[d].claim = "preparing"
    BY <1>1, <1>2, <1>6, PinnedClaims DEF ClaimStates
  <2>2. Names(c, "activation", d)
    BY <1>6, <2>1 DEF HandlerSound
  <2> QED
    BY <1>4, <1>6, <2>2 DEF JournalMove, JournalStays, JournalAsks, JournalReserves,
         JournalRefused, JournalIssued, JournalActivated, JournalSubmits, JournalRecovers,
         JournalReported, JournalRecovered
<1>7. ASSUME k.op = "recover"
      PROVE  /\ row'[d].receipt # "none"
             /\ row'[d].receipt = "released" \/ NamesNext(c, "recovery", d)
  <2>1. /\ row[d].receipt # "none"
        /\ row[d].receipt = "released" \/ Names(c, "recovery", d)
    BY <1>7 DEF HandlerSound
  <2>2. row[d].claim \in {"active", "reported", "recovering", "released"}
    BY <1>1, <1>2, <2>1 DEF RowShape, ClaimStates
  <2>3. row'[d].claim \in {"active", "reported", "recovering", "released"}
    BY <1>1, <1>2, <2>2, PinnedClaims
  <2>4. row'[d].receipt # "none" /\ (row'[d].claim = "released" => row'[d].receipt = "released")
    BY <1>3, <2>3 DEF RowShape
  <2>5. CASE row[d].receipt = "released"
    <3>1. row[d].claim = "released"
      BY <1>2, <2>2, <2>5 DEF RowShape
    <3> QED
      BY <1>1, <1>2, <2>4, <3>1, PinnedClaims
  <2>6. CASE Names(c, "recovery", d)
    BY <1>4, <2>4, <2>6 DEF JournalMove, JournalStays, JournalAsks, JournalReserves,
         JournalRefused, JournalIssued, JournalActivated, JournalSubmits, JournalRecovers,
         JournalReported, JournalRecovered
  <2> QED
    BY <2>1, <2>4, <2>5, <2>6
<1> QED
  BY <1>5, <1>6, <1>7 DEF HandlerSound

\* Every handler after a step was there before it, is one that advanced, or was
\* sound when its request was taken up.
Comes(k) ==
  /\ k \in Handlers
  /\ \E h \in Handlers :
       /\ HandlerSound(h) /\ k.op = h.op /\ k.demand = h.demand
       /\ \/ k.stage = h.stage
          \/ /\ k.stage \in {"revoke", "complete"} => row'[k.demand].recovery # "none"
             /\ k.stage = "complete" => attempt'[k.demand] = "revoked"

HandlersCome ==
  /\ \A o \in orphans' : Comes(o)
  /\ \A c \in Capacities : handler'[c] # None => Comes(handler'[c])

\* The handlers there are come from themselves.
LEMMA OldCome ==
  ASSUME TypeOK, HandlersSound
  PROVE  /\ \A o \in orphans : Comes(o)
         /\ \A c \in Capacities : handler[c] # None => Comes(handler[c])
<1>1. ASSUME NEW h \in Handlers, HandlerSound(h) PROVE Comes(h)
  BY <1>1 DEF Comes
<1> QED
  BY <1>1 DEF HandlersSound, TypeOK

\* A request that a worker makes is taken up by a sound handler.
LEMMA AwaitsCome ==
  ASSUME RootCiInv, NEW c \in Capacities, NEW op, NEW g, Awaits(c, op, g),
         [op |-> op, demand |-> JobOf(c), stage |-> g] \in Handlers,
         HandlerSound([op |-> op, demand |-> JobOf(c), stage |-> g])
  PROVE  HandlersCome
<1> DEFINE k == [op |-> op, demand |-> JobOf(c), stage |-> g]
<1>0. TypeOK /\ HandlersSound /\ ServingTyped
  BY TypeParts DEF RootCiInv
<1>1. handler' = [handler EXCEPT ![c] = k] /\ UNCHANGED orphans
  BY DEF Awaits
<1>2. k \in Handlers /\ HandlerSound(k)
  OBVIOUS
<1> HIDE DEF k
<1>3. Comes(k)
  BY <1>2 DEF Comes
<1>4. \A b \in Capacities : handler'[b] = handler[b] \/ handler'[b] = k
  BY <1>0, <1>1 DEF ServingTyped
<1> QED
  BY <1>0, <1>1, <1>3, <1>4, OldCome DEF HandlersCome

\* A handler that advances to this stage comes from what it was.
LEMMA AdvanceCome ==
  ASSUME RootCiInv, NEW s \in Capacities \cup {None}, NEW h \in Handlers, HandlerSound(h),
         NEW g, s # None => handler[s] = h, Advance(s, h, g),
         \/ h.op = "issue" /\ g = "reply"
         \/ h.op = "activate" /\ g = "commit"
         \/ h.op = "recover" /\ g \in {"prepare", "revoke", "complete"},
         g \in {"revoke", "complete"} => row'[h.demand].recovery # "none",
         g = "complete" => attempt'[h.demand] = "revoked"
  PROVE  HandlersCome
<1>0. TypeOK /\ HandlersSound /\ ServingTyped
  BY TypeParts DEF RootCiInv
<1>1. PICK k \in Handlers :
              /\ k = [op |-> h.op, demand |-> h.demand, stage |-> g]
              /\ \A o \in orphans' : o \in orphans \/ o = k
              /\ \A c \in Capacities : handler'[c] = handler[c] \/ (c = s /\ handler'[c] = k)
  BY <1>0, AdvanceEffect
<1>2. k.op = h.op /\ k.demand = h.demand /\ k.stage = g
  BY <1>1
<1>3. Comes(k)
  BY <1>2 DEF Comes
<1> QED
  BY <1>0, <1>1, <1>3, OldCome DEF HandlersCome

\* Nothing comes of a handler that ends.
LEMMA EndsCome ==
  ASSUME RootCiInv, NEW s \in Capacities \cup {None}, NEW h, Ends(s, h)
  PROVE  HandlersCome
<1>0. TypeOK /\ HandlersSound /\ ServingTyped
  BY TypeParts DEF RootCiInv
<1> QED
  BY <1>0, EndsEffect, OldCome DEF HandlersCome

\* The handlers after a step of a worker.
LEMMA WorkerHandlersCome ==
  ASSUME RootCiInv, NEW c \in Capacities,
         WorkerStep(c) \/ Start(c) \/ GiveUp(c) \/ Crash(c)
  PROVE  HandlersCome
<1>0. TypeOK /\ HandlersSound /\ ServingTyped
  BY TypeParts DEF RootCiInv
<1> DEFINE d == JobOf(c)
<1>1. CASE UNCHANGED <<handler, orphans>>
  BY <1>0, <1>1, OldCome DEF HandlersCome
<1>2. CASE IssueCall(c)
  <2>1. CASE Awaits(c, "issue", "issue") /\ row[d].claim = "preparing"
    <3> DEFINE k == [op |-> "issue", demand |-> d, stage |-> "issue"]
    <3>1. d \in Demands
      BY <1>0, <1>2, JobType DEF IssueCall, RootCiInv
    <3>2. k \in Handlers
      BY <3>1 DEF Handlers
    <3>3. HandlerSound(k)
      BY <2>1 DEF HandlerSound
    <3> QED
      BY <2>1, <3>2, <3>3, AwaitsCome
  <2> QED
    BY <1>1, <1>2, <2>1 DEF IssueCall, CurrentReservation
<1>3. CASE ActivateCall(c)
  <2>1. CASE Awaits(c, "activate", "prove") /\ row[d].claim = "preparing"
    <3> DEFINE k == [op |-> "activate", demand |-> d, stage |-> "prove"]
    <3>1. Names(c, "activation", d) /\ d \in Demands /\ row[d].owner = c
      BY <1>3, PlaceFacts DEF ActivateCall
    <3>2. k \in Handlers
      BY <3>1 DEF Handlers
    <3>3. HandlerSound(k)
      BY <2>1, <3>1 DEF HandlerSound
    <3> QED
      BY <2>1, <3>2, <3>3, AwaitsCome
  <2> QED
    BY <1>1, <1>3, <2>1 DEF ActivateCall, Activatable, CurrentReservation
<1>4. CASE RecoverCall(c)
  <2>0. Names(c, "recovery", d) /\ d \in Demands /\ row[d].owner = c /\ JournalTrue(c)
    BY <1>4, PlaceFacts DEF RecoverCall
  <2>1. row[d].receipt # "none" /\ row[d].claim # "none"
    BY <2>0, RowFacts DEF RowShape, JournalTrue
  <2>2. ASSUME NEW g \in {"revoke", "prove"}, Awaits(c, "recover", g),
               g = "revoke" => row[d].recovery # "none"
        PROVE  HandlersCome
    <3> DEFINE k == [op |-> "recover", demand |-> d, stage |-> g]
    <3>1. k \in Handlers
      BY <2>0, <2>2 DEF Handlers
    <3>2. HandlerSound(k)
      BY <2>0, <2>1, <2>2 DEF HandlerSound
    <3> QED
      BY <2>2, <3>1, <3>2, AwaitsCome
  <2>3. CASE RecoveryReplay(row[d]) = "pending" /\ Awaits(c, "recover", "revoke")
    <3>1. row[d].receipt = "recovering"
      BY <2>3 DEF RecoveryReplay
    <3>2. row[d].recovery # "none"
      BY <2>0, <3>1, RowFacts DEF RowShape, ClaimStates
    <3> QED
      BY <2>2, <2>3, <3>2
  <2>4. CASE Awaits(c, "recover", "prove")
    BY <2>2, <2>4
  <2> QED
    BY <1>1, <1>4, <2>3, <2>4 DEF RecoverCall
<1>5. CASE Orphan(c)
  <2>1. \A o \in orphans' : o \in orphans \/ (o = handler[c] /\ o # None)
    BY <1>5 DEF Orphan
  <2>2. \A b \in Capacities : handler'[b] = None \/ handler'[b] = handler[b]
    BY <1>0, <1>5 DEF Orphan, ServingTyped
  <2> QED
    BY <1>0, <2>1, <2>2, OldCome DEF HandlersCome
<1> QED
  BY <1>1, <1>2, <1>3, <1>4, <1>5 DEF WorkerStep, Poll, ReserveReplay, ReserveRefused, Reserve,
     Unavailable, StartLease, FetchCandidate, Launch, Complete, Submit, Abandon, CleanupFails,
     Report, ReplayReport, Start, GiveUp, Crash

\* The handlers after a step of a handler.
LEMMA HandlerHandlersCome ==
  ASSUME RootCiInv, NEW s \in Capacities \cup {None}, HandlerStep(s)
  PROVE  HandlersCome
<1>t. StoreTyped /\ NativeTyped /\ TypeOK /\ HandlersSound
  BY TypeParts DEF RootCiInv
<1>1. PICK h \in IF s = None THEN orphans ELSE {handler[s]} \ {None} :
        \/ IssueAttempt(s, h) \/ IssueReply(s, h)
        \/ ProveAttempt(s, h) \/ Activate(s, h)
        \/ PrepareRecovery(s, h) \/ RevokeAttempt(s, h) \/ CompleteRecovery(s, h)
  BY DEF HandlerStep
<1> DEFINE d == h.demand
<1>2. /\ h \in Handlers /\ HandlerSound(h) /\ d \in Demands
      /\ (s # None => handler[s] = h)
  BY <1>t, HandlerHeld
<1>3. ASSUME Answers(s, h) \/ Rejects(s, h) PROVE HandlersCome
  BY <1>3, EndsCome DEF Answers, Rejects
<1>4. CASE IssueAttempt(s, h)
  <2>1. CASE Advance(s, h, "reply")
    BY <1>2, <1>4, <2>1, AdvanceCome DEF IssueAttempt
  <2> QED
    BY <1>3, <1>4, <2>1 DEF IssueAttempt
<1>5. CASE ProveAttempt(s, h)
  <2>0. h.op \in {"activate", "recover"}
    BY <1>2, <1>5 DEF ProveAttempt, Handlers
  <2>1. CASE h.op = "activate" /\ Advance(s, h, "commit")
    BY <1>2, <2>1, AdvanceCome
  <2>2. CASE h.op = "recover" /\ Advance(s, h, "prepare")
    BY <1>2, <2>2, AdvanceCome
  <2> QED
    BY <1>3, <1>5, <2>0, <2>1, <2>2 DEF ProveAttempt
<1>6. CASE PrepareRecovery(s, h)
  <2>1. CASE Advance(s, h, "revoke") /\ row' = [row EXCEPT ![d].receipt = "recovering",
               ![d].claim = "recovering", ![d].recovery = "requested"]
    <3>1. row'[d].recovery = "requested"
      BY <1>t, <1>2, <2>1 DEF StoreTyped, Row
    <3> QED
      BY <1>2, <1>6, <2>1, <3>1, AdvanceCome DEF PrepareRecovery
  <2> QED
    BY <1>3, <1>6, <2>1 DEF PrepareRecovery
<1>7. CASE RevokeAttempt(s, h)
  <2>1. row'[d].recovery # "none" /\ attempt'[d] = "revoked" /\ h.op = "recover"
        /\ Advance(s, h, "complete")
    BY <1>t, <1>2, <1>7 DEF RevokeAttempt, HandlerSound, NativeTyped
  <2> QED
    BY <1>2, <2>1, AdvanceCome
<1>8. CASE IssueReply(s, h) \/ Activate(s, h) \/ CompleteRecovery(s, h)
  BY <1>3, <1>8 DEF IssueReply, Activate, CompleteRecovery
<1> QED
  BY <1>1, <1>4, <1>5, <1>6, <1>7, <1>8

\* Every handler stays sound: no orphan acts on what is no longer so.
LEMMA HandlersStep ==
  ASSUME RootCiInv, [Next]_vars
  PROVE  HandlersSound'
<1>0. TypeOK /\ HandlersSound
  BY DEF RootCiInv
<1>1. HandlersCome
  <2>1. CASE \E c \in Capacities : WorkerStep(c) \/ Start(c) \/ GiveUp(c) \/ Crash(c)
    BY <2>1, WorkerHandlersCome
  <2>2. CASE \E s \in Capacities \cup {None} : HandlerStep(s)
    BY <2>2, HandlerHandlersCome
  <2>3. CASE UNCHANGED <<handler, orphans>>
    BY <1>0, <2>3, OldCome DEF HandlersCome
  <2>4. CASE ServiceStops
    BY <2>4 DEF ServiceStops, HandlersCome
  <2> QED
    BY <2>1, <2>2, <2>3, <2>4 DEF Next, ReporterStep, TakeOldest, Send, Acknowledge, Register,
     AdmissionLapses, RootMoves, ServiceActivates, CommitReceipt, Withdraw, LeaseExpires
<1>2. ASSUME NEW k, Comes(k) PROVE HandlerSound(k)'
  <2>1. PICK h \in Handlers :
       /\ HandlerSound(h) /\ k.op = h.op /\ k.demand = h.demand
       /\ \/ k.stage = h.stage
          \/ /\ k.stage \in {"revoke", "complete"} => row'[k.demand].recovery # "none"
             /\ k.stage = "complete" => attempt'[k.demand] = "revoked"
    BY <1>2 DEF Comes
  <2>2. k \in Handlers /\ k.demand \in Demands
    BY <1>2 DEF Comes, Handlers
  <2>3. /\ k.op = "recover" /\ k.stage \in {"revoke", "complete"} => row'[k.demand].recovery # "none"
        /\ k.op = "recover" /\ k.stage = "complete" => attempt'[k.demand] = "revoked"
    BY <2>1, <2>2, RecoveryStays DEF HandlerSound
  <2> QED
    BY <2>1, <2>2, <2>3, SoundStays
<1> QED
  BY <1>1, <1>2 DEF HandlersCome, HandlersSound
-----------------------------------------------------------------------------
(* What follows for the workers. *)

LEMMA AtEffect ==
  ASSUME HostsTyped, NEW c \in Capacities, NEW w, At(c, w)
  PROVE  pc'[c] = w /\ \A b \in Capacities : b # c => pc'[b] = pc[b]
BY DEF At, HostsTyped

LEMMA JournaledEffect ==
  ASSUME HostsTyped, NEW c \in Capacities, NEW k, NEW d, Journaled(c, k, d)
  PROVE  /\ journal'[c].kind = k /\ journal'[c].demand = d
         /\ \A b \in Capacities : b # c => journal'[b] = journal[b]
BY DEF Journaled, HostsTyped

LEMMA ClearedEffect ==
  ASSUME HostsTyped, NEW c \in Capacities, Cleared(c)
  PROVE  /\ journal'[c].kind = "none"
         /\ \A b \in Capacities : b # c => journal'[b] = journal[b]
BY DEF Cleared, NoJournal, HostsTyped

\* The other workers do not notice a step of this one.
Alone(b) ==
  /\ pc'[b] = pc[b] /\ journal'[b] = journal[b] /\ handler'[b] = handler[b]
  /\ tries'[b] = tries[b] /\ container'[b] = container[b]

LEMMA AloneStays ==
  ASSUME NEW b \in Capacities, WorkerInStep(b), Alone(b)
  PROVE  WorkerInStep(b)'
BY DEF WorkerInStep, Alone

\* A worker that does not wait has no handler; one that ended is in step.
LEMMA NotWaiting ==
  ASSUME RootCiInv, NEW c \in Capacities, pc[c] # "waiting"
  PROVE  handler[c] = None
BY PlaceFacts DEF WorkerInStep

LEMMA DownInStep ==
  ASSUME NEW c \in Capacities, pc'[c] = "down", handler'[c] = None
  PROVE  WorkerInStep(c)'
BY DEF WorkerInStep, Executing

\* A worker at this place, with the journal of that kind, is in step.
LEMMA PlaceInStep ==
  ASSUME NEW c \in Capacities, handler'[c] = None,
         \/ pc'[c] = "poll" /\ journal'[c].kind = "none"
         \/ pc'[c] = "reserve" /\ journal'[c].kind = "claim"
         \/ pc'[c] = "issue" /\ journal'[c].kind = "reserved"
         \/ pc'[c] = "activate" /\ journal'[c].kind = "activation"
         \/ pc'[c] \in Executing /\ journal'[c].kind = "active"
         \/ pc'[c] = "report" /\ journal'[c].kind = "result" /\ tries'[c] < ReportTries
         \/ pc'[c] = "replay" /\ journal'[c].kind = "result"
         \/ pc'[c] = "recover" /\ journal'[c].kind = "recovery"
         \/ pc'[c] \in {"down", "waiting"}
  PROVE  WorkerInStep(c)'
BY DEF WorkerInStep, Executing

LEMMA WorkerAlone ==
  ASSUME RootCiInv, NEW c \in Capacities,
         WorkerStep(c) \/ Start(c) \/ GiveUp(c) \/ Crash(c)
  PROVE  \A b \in Capacities : b # c => Alone(b)
<1>t. HostsTyped /\ ServingTyped
  BY TypeParts DEF RootCiInv
<1> SUFFICES ASSUME NEW b \in Capacities, b # c PROVE Alone(b)
  OBVIOUS
<1>1. pc'[b] = pc[b]
  <2>1. \/ UNCHANGED pc
        \/ \E w : At(c, w)
    BY DEF WorkerStep, Poll, ReserveReplay, ReserveRefused, Reserve, ReserveReturns, ReplyLost,
       IssueCall, ActivateCall, Awaits, Unavailable, StartLease, FetchCandidate, Launch, Complete,
       Submit, Abandon, CleanupFails, Report, ReplayReport, RetryReport, AsksRecovery, RecoverCall,
       Returns, Start, GiveUp, Crash, Dies
  <2> QED
    BY <1>t, <2>1, AtEffect
<1>2. journal'[b] = journal[b]
  <2>1. \/ UNCHANGED journal \/ Cleared(c)
        \/ \E k, d : Journaled(c, k, d)
    BY DEF WorkerStep, Poll, ReserveReplay, ReserveRefused, Reserve, ReserveReturns, ReplyLost,
       IssueCall, ActivateCall, Awaits, Unavailable, StartLease, FetchCandidate, Launch, Complete,
       Submit, Abandon, CleanupFails, Report, ReplayReport, RetryReport, AsksRecovery, RecoverCall,
       Start, GiveUp, Crash, Dies
  <2> QED
    BY <1>t, <2>1, JournaledEffect, ClearedEffect
<1>3. handler'[b] = handler[b]
  <2>1. UNCHANGED handler \/ \E k : handler' = [handler EXCEPT ![c] = k]
    BY DEF WorkerStep, Poll, ReserveReplay, ReserveRefused, Reserve,
       IssueCall, ActivateCall, Awaits, Unavailable, StartLease, FetchCandidate, Launch, Complete,
       Submit, Abandon, CleanupFails, Report, ReplayReport, RecoverCall,
       Start, GiveUp, Crash, Orphan
  <2> QED
    BY <1>t, <2>1 DEF ServingTyped
<1>4. tries'[b] = tries[b]
  <2>1. UNCHANGED tries \/ \E n : tries' = [tries EXCEPT ![c] = n]
    BY DEF WorkerStep, Poll, ReserveReplay, ReserveRefused, Reserve,
       IssueCall, ActivateCall, Unavailable, StartLease, FetchCandidate, Launch, Complete,
       Submit, Abandon, CleanupFails, Report, ReplayReport, RetryReport, RecoverCall,
       Start, GiveUp, Crash
  <2> QED
    BY <1>t, <2>1 DEF HostsTyped
<1>5. container'[b] = container[b]
  <2>1. UNCHANGED container \/ \E d : container' = [container EXCEPT ![c] = d]
    BY DEF WorkerStep, Poll, ReserveReplay, ReserveRefused, Reserve,
       IssueCall, ActivateCall, Unavailable, StartLease, FetchCandidate, Launch, Complete,
       Submit, Abandon, CleanupFails, Report, ReplayReport, RecoverCall,
       Start, GiveUp, Crash
  <2> QED
    BY <1>t, <2>1 DEF HostsTyped
<1> QED
  BY <1>1, <1>2, <1>3, <1>4, <1>5 DEF Alone

\* A worker's own step leaves it in step with its journal.
LEMMA WorkerOwnStep ==
  ASSUME RootCiInv, NEW c \in Capacities,
         WorkerStep(c) \/ Start(c) \/ GiveUp(c) \/ Crash(c)
  PROVE  WorkerInStep(c)'
<1>t. HostsTyped /\ ServingTyped
  BY TypeParts DEF RootCiInv
<1>i. WorkerInStep(c)
  BY PlaceFacts
<1> DEFINE d == JobOf(c)
<1>n. ASSUME pc[c] # "waiting", UNCHANGED handler PROVE handler'[c] = None
  BY <1>n, NotWaiting
<1>d. ASSUME Dies(c), pc[c] # "waiting", UNCHANGED handler PROVE WorkerInStep(c)'
  BY <1>t, <1>d, <1>n, AtEffect, DownInStep DEF Dies
<1>r. ASSUME AsksRecovery(c), pc[c] # "waiting", UNCHANGED handler PROVE WorkerInStep(c)'
  BY <1>t, <1>r, <1>n, AtEffect, JournaledEffect, PlaceInStep DEF AsksRecovery
<1>p. ASSUME Cleared(c), At(c, "poll"), pc[c] # "waiting", UNCHANGED handler PROVE WorkerInStep(c)'
  BY <1>t, <1>p, <1>n, AtEffect, ClearedEffect, PlaceInStep
<1>a. ASSUME NEW op, NEW g, Awaits(c, op, g),
             \/ op = "issue" /\ journal[c].kind = "reserved"
             \/ op = "activate" /\ journal[c].kind = "activation"
             \/ op = "recover" /\ journal[c].kind = "recovery"
      PROVE  WorkerInStep(c)'
  <2> DEFINE k == [op |-> op, demand |-> JobOf(c), stage |-> g]
  <2>1. pc'[c] = "waiting" /\ UNCHANGED journal
    BY <1>t, <1>a, AtEffect DEF Awaits
  <2>2. handler'[c] = k
    BY <1>t, <1>a DEF Awaits, ServingTyped
  <2>3. k.op = op /\ k.demand = JobOf(c)
    OBVIOUS
  <2> HIDE DEF k
  <2> QED
    BY <1>a, <2>1, <2>2, <2>3 DEF WorkerInStep, Executing
<1>1. CASE Poll(c)
  BY <1>t, <1>1, <1>n, AtEffect, JournaledEffect, PlaceInStep DEF Poll
<1>2. ASSUME NEW e, ReserveReturns(c, e), pc[c] = "reserve", UNCHANGED handler
      PROVE  WorkerInStep(c)'
  <2>1. CASE Journaled(c, "reserved", e) /\ At(c, "issue")
    BY <1>t, <1>2, <1>n, <2>1, AtEffect, JournaledEffect, PlaceInStep
  <2> QED
    BY <1>2, <1>d, <2>1 DEF ReserveReturns, ReplyLost
<1>3. CASE ReserveReplay(c)
  BY <1>2, <1>3 DEF ReserveReplay
<1>4. CASE Reserve(c)
  BY <1>2, <1>4 DEF Reserve
<1>5. CASE ReserveRefused(c)
  BY <1>5, <1>d, <1>p DEF ReserveRefused
<1>6. CASE IssueCall(c)
  BY <1>6, <1>i, <1>d, <1>a DEF IssueCall, WorkerInStep
<1>7. CASE ActivateCall(c)
  <2>1. CASE Journaled(c, "active", d) /\ At(c, "lease") /\ UNCHANGED handler
    <3>1. handler'[c] = None
      BY <1>7, <1>n, <2>1 DEF ActivateCall
    <3>2. pc'[c] = "lease" /\ journal'[c].kind = "active"
      BY <1>t, <2>1, AtEffect, JournaledEffect
    <3> QED
      BY <3>1, <3>2, PlaceInStep DEF Executing
  <2> QED
    BY <1>7, <1>i, <1>d, <1>a, <2>1 DEF ActivateCall, WorkerInStep, ReplyLost
<1>8. CASE Unavailable(c)
  BY <1>8, <1>d DEF Unavailable
<1>9. ASSUME NEW w \in Executing, At(c, w), pc[c] \in Executing, UNCHANGED <<journal, handler>>
      PROVE  WorkerInStep(c)'
  <2>1. handler'[c] = None /\ journal'[c].kind = "active" /\ pc'[c] = w
    BY <1>t, <1>i, <1>9, <1>n, AtEffect DEF WorkerInStep, Executing
  <2> QED
    BY <1>9, <2>1, PlaceInStep
<1>10. CASE StartLease(c) \/ FetchCandidate(c) \/ Launch(c) \/ Complete(c)
  BY <1>9, <1>10 DEF StartLease, FetchCandidate, Launch, Complete, Executing
<1>11. CASE Submit(c)
  <2>1. handler'[c] = None /\ pc'[c] = "report" /\ journal'[c].kind = "result"
    BY <1>t, <1>11, <1>n, AtEffect, JournaledEffect DEF Submit
  <2>2. tries'[c] < ReportTries
    BY <1>t, <1>11, Bounds DEF Submit, HostsTyped
  <2> QED
    BY <2>1, <2>2, PlaceInStep
<1>12. CASE Abandon(c)
  BY <1>12, <1>r DEF Abandon, Executing
<1>13. CASE CleanupFails(c)
  BY <1>13, <1>d DEF CleanupFails
<1>14. CASE Report(c)
  <2>1. CASE UNCHANGED <<journal, pc>> /\ tries' = [tries EXCEPT ![c] = @ + 1]
             /\ tries[c] + 1 # ReportTries
    <3>1. handler'[c] = None /\ pc'[c] = "report" /\ journal'[c].kind = "result"
          /\ tries[c] < ReportTries
      BY <1>i, <1>14, <1>n, <2>1 DEF Report, WorkerInStep
    <3>2. tries'[c] = tries[c] + 1 /\ tries[c] \in Nat
      BY <1>t, <2>1, Bounds DEF HostsTyped
    <3>3. tries'[c] < ReportTries
      BY <2>1, <3>1, <3>2, Bounds
    <3> QED
      BY <3>1, <3>3, PlaceInStep
  <2> QED
    BY <1>14, <1>r, <1>p, <2>1 DEF Report, RetryReport
<1>15. CASE ReplayReport(c)
  BY <1>15, <1>r, <1>p, <1>d DEF ReplayReport, ReplyLost
<1>16. CASE RecoverCall(c)
  <2>1. CASE Cleared(c) /\ At(c, "down") /\ UNCHANGED handler
    BY <1>t, <1>16, <1>n, <2>1, AtEffect, DownInStep DEF RecoverCall
  <2> QED
    BY <1>16, <1>i, <1>d, <1>p, <1>a, <2>1 DEF RecoverCall, Returns, WorkerInStep, ReplyLost
<1>17. CASE GiveUp(c) \/ Crash(c)
  <2>1. Orphan(c) /\ Dies(c)
    BY <1>17 DEF GiveUp, Crash
  <2>2. handler'[c] = None /\ pc'[c] = "down"
    BY <1>t, <2>1, AtEffect DEF Orphan, Dies, ServingTyped
  <2> QED
    BY <2>2, DownInStep
<1>18. CASE Start(c)
  <2>1. handler'[c] = None
    BY <1>18, <1>n DEF Start
  <2>2. journal[c].kind \in {"none", "claim", "reserved", "activation", "active", "result", "recovery"}
    BY <1>t DEF HostsTyped, Journals
  <2>3. ASSUME NEW w, At(c, w), journal[c].kind # "active", UNCHANGED journal,
               \/ w = "poll" /\ journal[c].kind = "none"
               \/ w = "reserve" /\ journal[c].kind = "claim"
               \/ w = "issue" /\ journal[c].kind = "reserved"
               \/ w = "activate" /\ journal[c].kind = "activation"
               \/ w = "replay" /\ journal[c].kind = "result"
               \/ w = "recover" /\ journal[c].kind = "recovery"
        PROVE  WorkerInStep(c)'
    BY <1>t, <2>1, <2>3, AtEffect, PlaceInStep
  <2>4. CASE journal[c].kind = "active"
    <3>1. At(c, "recover") /\ Journaled(c, "recovery", JobOf(c))
      BY <1>18, <2>4 DEF Start
    <3> QED
      BY <1>t, <2>1, <3>1, AtEffect, JournaledEffect, PlaceInStep
  <2>5. CASE journal[c].kind = "none"
    BY <1>18, <2>3, <2>5 DEF Start
  <2>6. CASE journal[c].kind = "claim"
    BY <1>18, <2>3, <2>6 DEF Start
  <2>7. CASE journal[c].kind = "reserved"
    BY <1>18, <2>3, <2>7 DEF Start
  <2>8. CASE journal[c].kind = "activation"
    BY <1>18, <2>3, <2>8 DEF Start
  <2>9. CASE journal[c].kind = "result"
    BY <1>18, <2>3, <2>9 DEF Start
  <2>10. CASE journal[c].kind = "recovery"
    BY <1>18, <2>3, <2>10 DEF Start
  <2> QED
    BY <2>2, <2>4, <2>5, <2>6, <2>7, <2>8, <2>9, <2>10
<1> QED
  BY <1>1, <1>3, <1>4, <1>5, <1>6, <1>7, <1>8, <1>10, <1>11, <1>12, <1>13, <1>14, <1>15,
     <1>16, <1>17, <1>18 DEF WorkerStep
-----------------------------------------------------------------------------
(***************************************************************************)
(* Every step, seen from the place of one worker: what it does to the      *)
(* container, and what the journal says then.                              *)
(***************************************************************************)

PlaceStays(c) == pc'[c] = pc[c] /\ container'[c] = container[c] /\ journal'[c] = journal[c]
PlaceLeft(c) ==
  /\ pc'[c] \notin Executing
  /\ \/ container'[c] = None
     \/ container'[c] = container[c] /\ (journal'[c] = journal[c] \/ journal[c].kind # "active")
PlaceEntered(c) ==
  /\ pc'[c] = "lease" /\ container'[c] = container[c]
  /\ journal[c].kind = "activation" /\ NamesNext(c, "active", JobOf(c))
PlaceNears(c) ==
  /\ pc[c] \in {"lease", "fetch"} /\ pc'[c] \in {"fetch", "launch"}
  /\ container'[c] = container[c] /\ journal'[c] = journal[c]
PlaceLaunches(c) ==
  /\ pc[c] = "launch" /\ pc'[c] = "run" /\ journal'[c] = journal[c]
  /\ container'[c] = JobOf(c) /\ JobOf(c) \in launched'
PlaceCleans(c) ==
  /\ pc[c] = "run" /\ pc'[c] = "finished" /\ journal'[c] = journal[c] /\ container'[c] = None

PlaceMove(c) ==
  \/ PlaceStays(c) \/ PlaceLeft(c) \/ PlaceEntered(c) \/ PlaceNears(c)
  \/ PlaceLaunches(c) \/ PlaceCleans(c)

\* Candidate code is started by a worker that has come to launch it.
LaunchMove ==
  \/ UNCHANGED launched
  \/ \E c \in Capacities :
       /\ pc[c] = "launch" /\ pc'[c] = "run" /\ launched' = launched \cup {JobOf(c)}
       /\ UNCHANGED <<row, journal, status>>
       /\ \A b \in Capacities : b # c => container'[b] = container[b]

LEMMA WorkerPlaceMoves ==
  ASSUME RootCiInv, NEW c \in Capacities,
         WorkerStep(c) \/ Start(c) \/ GiveUp(c) \/ Crash(c)
  PROVE  PlaceMove(c)
<1>t. HostsTyped
  BY TypeParts DEF RootCiInv
<1>i. WorkerInStep(c)
  BY PlaceFacts
<1>l. LaunchesJournaled
  BY DEF RootCiInv
<1> DEFINE d == JobOf(c)
<1>1. ASSUME NEW w, At(c, w), w \notin Executing, UNCHANGED container,
             UNCHANGED journal \/ journal[c].kind # "active" \/ container[c] = None
      PROVE  PlaceMove(c)
  BY <1>t, <1>1, AtEffect DEF PlaceMove, PlaceLeft
<1>2. ASSUME NEW w, At(c, w), w \notin Executing, container' = [container EXCEPT ![c] = None]
      PROVE  PlaceMove(c)
  <2>1. container'[c] = None
    BY <1>t, <1>2 DEF HostsTyped
  <2> QED
    BY <1>t, <1>2, <2>1, AtEffect DEF PlaceMove, PlaceLeft
<1>d. ASSUME Dies(c), UNCHANGED container PROVE PlaceMove(c)
  BY <1>d, <1>1 DEF Dies, Executing
<1>a. ASSUME NEW op, NEW g, Awaits(c, op, g), UNCHANGED container PROVE PlaceMove(c)
  BY <1>a, <1>1 DEF Awaits, Executing
<1>3. CASE Poll(c)
  BY <1>1, <1>3, <1>i DEF Poll, Executing, WorkerInStep
<1>4. CASE ReserveReplay(c) \/ Reserve(c) \/ ReserveRefused(c)
  BY <1>1, <1>4, <1>d, <1>i DEF ReserveReplay, Reserve, ReserveRefused, ReserveReturns, ReplyLost,
     Executing, WorkerInStep
<1>5. CASE IssueCall(c) \/ Unavailable(c) \/ CleanupFails(c) \/ GiveUp(c) \/ Crash(c)
  BY <1>5, <1>d, <1>a DEF IssueCall, Unavailable, CleanupFails, GiveUp, Crash
<1>6. CASE ActivateCall(c)
  <2>1. CASE Journaled(c, "active", d) /\ At(c, "lease") /\ UNCHANGED container
    <3>1. journal[c].kind = "activation"
      BY <1>i, <1>6 DEF ActivateCall, WorkerInStep
    <3> QED
      BY <1>t, <2>1, <3>1, AtEffect, JournaledEffect DEF PlaceMove, PlaceEntered
  <2> QED
    BY <1>6, <1>d, <1>a, <2>1 DEF ActivateCall, ReplyLost
<1>7. CASE StartLease(c) \/ FetchCandidate(c)
  BY <1>t, <1>7, AtEffect DEF StartLease, FetchCandidate, PlaceMove, PlaceNears
<1>8. CASE Launch(c)
  <2>1. container'[c] = d /\ d \in launched' /\ pc'[c] = "run"
    BY <1>t, <1>8, AtEffect DEF Launch, HostsTyped
  <2> QED
    BY <1>8, <2>1 DEF Launch, PlaceMove, PlaceLaunches
<1>9. CASE Complete(c)
  <2>1. container'[c] = None /\ pc'[c] = "finished"
    BY <1>t, <1>9, AtEffect DEF Complete, HostsTyped
  <2> QED
    BY <1>9, <2>1 DEF Complete, PlaceMove, PlaceCleans
<1>10. CASE Submit(c)
  BY <1>1, <1>10, <1>l DEF Submit, LaunchesJournaled, Executing
<1>11. CASE Abandon(c)
  BY <1>2, <1>11 DEF Abandon, AsksRecovery, Executing
<1>12. CASE Report(c)
  <2>1. journal[c].kind = "result" /\ UNCHANGED container
    BY <1>12, <1>i DEF Report, WorkerInStep
  <2>2. CASE UNCHANGED <<journal, pc>>
    BY <2>1, <2>2 DEF PlaceMove, PlaceStays
  <2> QED
    BY <1>1, <1>12, <2>1, <2>2 DEF Report, RetryReport, AsksRecovery, Executing
<1>13. CASE ReplayReport(c)
  <2>1. journal[c].kind = "result" /\ UNCHANGED container
    BY <1>13, <1>i DEF ReplayReport, WorkerInStep
  <2> QED
    BY <1>1, <1>13, <1>d, <2>1 DEF ReplayReport, AsksRecovery, ReplyLost, Executing
<1>14. CASE RecoverCall(c)
  <2>1. journal[c].kind = "recovery" /\ UNCHANGED container
    BY <1>14, <1>i DEF RecoverCall, WorkerInStep
  <2> QED
    BY <1>1, <1>14, <1>d, <1>a, <2>1 DEF RecoverCall, Returns, ReplyLost, Executing
<1>15. CASE Start(c)
  <2>1. PICK w : At(c, w) /\ w \notin Executing
    <3>1. journal[c].kind \in {"none", "claim", "reserved", "activation", "active", "result", "recovery"}
      BY <1>t DEF HostsTyped, Journals
    <3>2. CASE journal[c].kind = "none"
      BY <1>15, <3>2 DEF Start, Executing
    <3>3. CASE journal[c].kind = "claim"
      BY <1>15, <3>3 DEF Start, Executing
    <3>4. CASE journal[c].kind = "reserved"
      BY <1>15, <3>4 DEF Start, Executing
    <3>5. CASE journal[c].kind = "activation"
      BY <1>15, <3>5 DEF Start, Executing
    <3>6. CASE journal[c].kind = "result"
      BY <1>15, <3>6 DEF Start, Executing
    <3>7. CASE journal[c].kind \in {"active", "recovery"}
      BY <1>15, <3>7 DEF Start, Executing
    <3> QED
      BY <3>1, <3>2, <3>3, <3>4, <3>5, <3>6, <3>7
  <2>2. CASE journal[c].kind = "active"
    <3>1. container' = [container EXCEPT ![c] = None]
      BY <1>15, <2>2 DEF Start
    <3> QED
      BY <1>2, <2>1, <3>1
  <2>3. CASE journal[c].kind # "active"
    <3>1. container' = [container EXCEPT ![c] = None] \/ UNCHANGED container
      BY <1>15 DEF Start
    <3> QED
      BY <1>1, <1>2, <2>1, <2>3, <3>1
  <2> QED
    BY <2>2, <2>3
<1> QED
  BY <1>3, <1>4, <1>5, <1>6, <1>7, <1>8, <1>9, <1>10, <1>11, <1>12, <1>13, <1>14, <1>15 DEF WorkerStep

\* A step of a handler moves at most the worker that waits for it.
LEMMA HandlerWorkerMoves ==
  ASSUME RootCiInv, NEW s \in Capacities \cup {None}, HandlerStep(s)
  PROVE  \A b \in Capacities : WorkerInStep(b)' /\ PlaceMove(b)
<1>t. HostsTyped /\ ServingTyped /\ TypeOK /\ HandlersSound
  BY TypeParts DEF RootCiInv
<1>1. PICK h \in IF s = None THEN orphans ELSE {handler[s]} \ {None} :
        \/ IssueAttempt(s, h) \/ IssueReply(s, h)
        \/ ProveAttempt(s, h) \/ Activate(s, h)
        \/ PrepareRecovery(s, h) \/ RevokeAttempt(s, h) \/ CompleteRecovery(s, h)
  BY DEF HandlerStep
<1>2. /\ h \in Handlers /\ h.op \in {"issue", "activate", "recover"}
      /\ (s # None => s \in Capacities /\ handler[s] = h /\ h # None)
  BY <1>t, HandlerHeld DEF Handlers
<1>u. UNCHANGED <<requested, tries, container, launched>>
  BY <1>1 DEF IssueAttempt, IssueReply, ProveAttempt, Activate, PrepareRecovery, RevokeAttempt,
     CompleteRecovery
<1>3. ASSUME NEW b \in Capacities, pc'[b] = pc[b], journal'[b] = journal[b],
             handler'[b] \in {handler[b], None}
      PROVE  WorkerInStep(b)' /\ PlaceMove(b)
  <2>1. PlaceMove(b)
    BY <1>u, <1>3 DEF PlaceMove, PlaceStays
  <2>2. WorkerInStep(b)
    BY <1>3, PlaceFacts
  <2> QED
    BY <1>u, <1>3, <2>1, <2>2 DEF WorkerInStep
<1>4. ASSUME NEW g, Advance(s, h, g),
             \/ h.op = "issue" /\ g = "reply"
             \/ h.op = "activate" /\ g = "commit"
             \/ h.op = "recover" /\ g \in {"prepare", "revoke", "complete"}
      PROVE  \A b \in Capacities : WorkerInStep(b)' /\ PlaceMove(b)
  <2>1. UNCHANGED <<journal, pc>>
    BY <1>4 DEF Advance
  <2>2. PICK k \in Handlers :
              /\ k = [op |-> h.op, demand |-> h.demand, stage |-> g]
              /\ \A o \in orphans' : o \in orphans \/ o = k
              /\ \A c \in Capacities : handler'[c] = handler[c] \/ (c = s /\ handler'[c] = k)
    BY <1>t, <1>2, <1>4, AdvanceEffect
  <2>3. k.op = h.op /\ k.demand = h.demand
    BY <2>2
  <2>4. ASSUME NEW b \in Capacities, b = s, handler'[b] = k PROVE WorkerInStep(b)' /\ PlaceMove(b)
    <3>1. PlaceMove(b)
      BY <1>u, <2>1 DEF PlaceMove, PlaceStays
    <3>2. WorkerInStep(b) /\ handler[b] = h /\ h # None
      BY <1>2, <2>4, PlaceFacts, RootCiAssumption
    <3> QED
      BY <1>u, <2>1, <2>3, <2>4, <3>1, <3>2 DEF WorkerInStep
  <2> QED
    BY <1>3, <2>1, <2>2, <2>4
<1>5. ASSUME NEW b \in Capacities, b # s, Ends(s, h), pc'[b] = pc[b], journal'[b] = journal[b]
      PROVE  WorkerInStep(b)' /\ PlaceMove(b)
  BY <1>t, <1>3, <1>5, EndsEffect
<1>6. ASSUME Rejects(s, h) PROVE \A b \in Capacities : WorkerInStep(b)' /\ PlaceMove(b)
  <2>1. /\ Ends(s, h) /\ UNCHANGED journal
        /\ \A c \in Capacities : pc'[c] = pc[c] \/ (c = s /\ pc'[c] = "down")
    BY <1>t, <1>6, <1>u, RejectsEffect
  <2>2. ASSUME NEW b \in Capacities, b = s, pc'[b] = "down" PROVE WorkerInStep(b)' /\ PlaceMove(b)
    <3>1. handler'[b] = None
      BY <1>t, <2>1, <2>2, EndsEffect
    <3> QED
      BY <1>u, <2>1, <2>2, <3>1, DownInStep DEF PlaceMove, PlaceLeft, Executing
  <2>3. ASSUME NEW b \in Capacities, pc'[b] = pc[b] PROVE WorkerInStep(b)' /\ PlaceMove(b)
    <3>1. handler'[b] \in {handler[b], None}
      BY <1>t, <2>1, EndsEffect
    <3> QED
      BY <1>3, <2>1, <2>3, <3>1
  <2> QED
    BY <2>1, <2>2, <2>3
<1>7. ASSUME Answers(s, h) PROVE \A b \in Capacities : WorkerInStep(b)' /\ PlaceMove(b)
  <2>1. Ends(s, h) /\ Continues(s, h)
    BY <1>2, <1>7, AnswersEffect
  <2>2. CASE s = None
    <3>1. UNCHANGED <<journal, pc>>
      BY <2>1, <2>2 DEF Continues
    <3> QED
      BY <1>5, <2>1, <2>2, <3>1, RootCiAssumption
  <2>3. ASSUME s # None, NEW w, At(s, w),
               Cleared(s) \/ (\E kind : Journaled(s, kind, h.demand))
        PROVE  \A b \in Capacities : b # s => WorkerInStep(b)' /\ PlaceMove(b)
    <3>1. \A b \in Capacities : b # s => pc'[b] = pc[b] /\ journal'[b] = journal[b]
      BY <1>t, <1>2, <2>3, AtEffect, JournaledEffect, ClearedEffect
    <3> QED
      BY <1>5, <2>1, <3>1
  <2>4. ASSUME s # None
        PROVE  s \in Capacities /\ handler'[s] = None /\ WorkerInStep(s) /\ handler[s] = h /\ h # None
    BY <1>t, <1>2, <2>1, <2>4, EndsEffect, PlaceFacts
  <2>5. CASE s # None /\ h.op = "issue" /\ Journaled(s, "activation", h.demand) /\ At(s, "activate")
    <3>1. pc'[s] = "activate" /\ journal'[s].kind = "activation" /\ journal[s].kind = "reserved"
      BY <1>t, <2>4, <2>5, AtEffect, JournaledEffect DEF WorkerInStep
    <3>2. WorkerInStep(s)' /\ PlaceMove(s)
      BY <1>u, <2>4, <2>5, <3>1, PlaceInStep DEF PlaceMove, PlaceLeft, Executing
    <3> QED
      BY <2>3, <2>5, <3>2
  <2>6. CASE s # None /\ h.op = "activate" /\ Journaled(s, "active", h.demand) /\ At(s, "lease")
    <3>1. pc'[s] = "lease" /\ NamesNext(s, "active", JobOf(s)) /\ journal[s].kind = "activation"
      BY <1>t, <2>4, <2>6, AtEffect, JournaledEffect DEF WorkerInStep
    <3>2. WorkerInStep(s)' /\ PlaceMove(s)
      BY <1>u, <2>4, <2>6, <3>1, PlaceInStep DEF PlaceMove, PlaceEntered, Executing
    <3> QED
      BY <2>3, <2>6, <3>2
  <2>7. ASSUME s # None, h.op = "recover", Cleared(s), NEW w \in {"poll", "down"}, At(s, w)
        PROVE  \A b \in Capacities : WorkerInStep(b)' /\ PlaceMove(b)
    <3>1. pc'[s] = w /\ journal'[s].kind = "none" /\ journal[s].kind = "recovery"
      BY <1>t, <2>4, <2>7, AtEffect, ClearedEffect DEF WorkerInStep
    <3>2. WorkerInStep(s)' /\ PlaceMove(s)
      BY <1>u, <2>4, <2>7, <3>1, PlaceInStep DEF PlaceMove, PlaceLeft, Executing
    <3> QED
      BY <2>3, <2>7, <3>2
  <2> QED
    BY <2>1, <2>2, <2>5, <2>6, <2>7 DEF Continues
<1>8. CASE IssueAttempt(s, h) \/ IssueReply(s, h) \/ RevokeAttempt(s, h)
  BY <1>4, <1>6, <1>7, <1>8 DEF IssueAttempt, IssueReply, RevokeAttempt
<1>9. CASE ProveAttempt(s, h)
  <2>1. h.op \in {"activate", "recover"}
    BY <1>2, <1>9 DEF ProveAttempt, Handlers
  <2> QED
    BY <1>4, <1>6, <1>9, <2>1 DEF ProveAttempt
<1>10. CASE Activate(s, h) \/ CompleteRecovery(s, h)
  BY <1>6, <1>7, <1>10 DEF Activate, CompleteRecovery
<1>11. CASE PrepareRecovery(s, h)
  BY <1>4, <1>6, <1>7, <1>11 DEF PrepareRecovery
<1> QED
  BY <1>1, <1>8, <1>9, <1>10, <1>11

\* Every step leaves every worker in step with its journal, and moves it in one
\* of these ways.
LEMMA WorkerMoves ==
  ASSUME RootCiInv, [Next]_vars
  PROVE  WorkersInStep' /\ \A b \in Capacities : PlaceMove(b)
<1> SUFFICES \A b \in Capacities : WorkerInStep(b)' /\ PlaceMove(b)
  BY DEF WorkersInStep
<1>1. ASSUME NEW c \in Capacities, WorkerStep(c) \/ Start(c) \/ GiveUp(c) \/ Crash(c)
      PROVE  \A b \in Capacities : WorkerInStep(b)' /\ PlaceMove(b)
  <2>1. WorkerInStep(c)' /\ PlaceMove(c)
    BY <1>1, WorkerOwnStep, WorkerPlaceMoves
  <2>2. ASSUME NEW b \in Capacities, b # c PROVE WorkerInStep(b)' /\ PlaceMove(b)
    <3>1. Alone(b) /\ WorkerInStep(b)
      BY <1>1, <2>2, WorkerAlone, PlaceFacts
    <3> QED
      BY <3>1, AloneStays DEF PlaceMove, PlaceStays, Alone
  <2> QED
    BY <2>1, <2>2
<1>2. CASE \E s \in Capacities \cup {None} : HandlerStep(s)
  BY <1>2, HandlerWorkerMoves
<1>3. CASE UNCHANGED <<journal, pc, handler, tries, container>>
  BY <1>3, AloneStays, PlaceFacts DEF Alone, PlaceMove, PlaceStays
<1>4. CASE ServiceStops
  <2>1. ASSUME NEW b \in Capacities PROVE WorkerInStep(b)' /\ PlaceMove(b)
    <3>1. /\ handler'[b] = None /\ UNCHANGED <<journal, tries, container>>
          /\ pc'[b] = pc[b] \/ pc'[b] = "down"
      BY <1>4 DEF ServiceStops
    <3>2. WorkerInStep(b)
      BY PlaceFacts
    <3>3. CASE pc'[b] = pc[b]
      BY <3>1, <3>2, <3>3 DEF WorkerInStep, PlaceMove, PlaceStays
    <3>4. CASE pc'[b] = "down"
      BY <3>1, <3>4, DownInStep DEF PlaceMove, PlaceLeft, Executing
    <3> QED
      BY <3>1, <3>3, <3>4
  <2> QED
    BY <2>1
<1> QED
  BY <1>1, <1>2, <1>3, <1>4 DEF Next, ReporterStep, TakeOldest, Send, Acknowledge,
     Register, AdmissionLapses, RootMoves, ServiceActivates, CommitReceipt, Withdraw, LeaseExpires

LEMMA LaunchMoves ==
  ASSUME RootCiInv, [Next]_vars
  PROVE  LaunchMove
<1>1. CASE UNCHANGED launched
  BY <1>1 DEF LaunchMove
<1>2. ASSUME NEW c \in Capacities, Launch(c) PROVE LaunchMove
  <2>t. HostsTyped
    BY TypeParts DEF RootCiInv
  <2>1. /\ \A b \in Capacities : b # c => container'[b] = container[b]
        /\ pc'[c] = "run"
    BY <1>2, <2>t, AtEffect DEF Launch, HostsTyped
  <2> QED
    BY <1>2, <2>1 DEF Launch, LaunchMove
<1>3. CASE \E s \in Capacities \cup {None} : HandlerStep(s)
  BY <1>1, <1>3 DEF HandlerStep, IssueAttempt, IssueReply, ProveAttempt, Activate, PrepareRecovery,
     RevokeAttempt, CompleteRecovery
<1> QED
  BY <1>1, <1>2, <1>3 DEF Next, WorkerStep, Poll, ReserveReplay, ReserveRefused, Reserve, IssueCall,
     ActivateCall, Unavailable, StartLease, FetchCandidate, Complete, Submit, Abandon,
     CleanupFails, Report, ReplayReport, RecoverCall, Start, GiveUp, Crash, ReporterStep, TakeOldest,
     Send, Acknowledge, Register, AdmissionLapses, RootMoves, ServiceStops, ServiceActivates,
     CommitReceipt, Withdraw, LeaseExpires
-----------------------------------------------------------------------------
(* What follows for launches, results and statuses. *)

\* A claim that came past its activation stays past it, and a result stays.
LEMMA ClaimsAdvance ==
  ASSUME RootCiInv, [Next]_vars, NEW d \in Demands
  PROVE  /\ row'[d].claim \in {"none", "preparing"} => row[d].claim \in {"none", "preparing"}
         /\ row[d].outbox # "none" => row'[d].outbox # "none"
<1>0. RowShape(row[d]) /\ row[d].claim \in ClaimStates
  BY RowFacts
<1>1. CASE RowStays(d) \/ RowCommitted(d)
  BY <1>1 DEF RowStays, RowCommitted, SameClaim
<1>2. ASSUME NEW c \in Capacities, RowReserved(c, d)
      PROVE  /\ row'[d].claim \in {"none", "preparing"} => row[d].claim \in {"none", "preparing"}
             /\ row[d].outbox # "none" => row'[d].outbox # "none"
  BY <1>0, <1>2 DEF RowReserved, RowShape, ClaimStates
<1>3. CASE RowActivated(d) \/ RowAccepted(d) \/ RowRecovering(d) \/ RowDelivered(d)
  BY <1>3 DEF RowActivated, RowAccepted, RowRecovering, RowDelivered
<1>4. CASE RowRevoked(d)
  BY <1>4 DEF RowRevoked
<1> QED
  BY <1>1, <1>2, <1>3, <1>4, RowMoves DEF RowMove

\* Only one capacity's journal names a claim.
LEMMA OneJournal ==
  ASSUME RootCiInv, NEW b \in Capacities, NEW c \in Capacities, JobOf(b) = JobOf(c),
         journal[b].kind \notin {"none", "claim"}, journal[c].kind \notin {"none", "claim"}
  PROVE  b = c
BY PlaceFacts

\* A step starts the code of one active claim at most.
LEMMA Launching ==
  ASSUME RootCiInv, [Next]_vars
  PROVE  /\ launched \subseteq launched'
         /\ \A e \in launched' \ launched : \E b \in Capacities :
              /\ pc[b] = "launch" /\ pc'[b] = "run" /\ e = JobOf(b) /\ e \in Demands
              /\ journal[b].kind = "active" /\ row[e].claim = "active"
              /\ UNCHANGED <<row, journal, status>>
              /\ \A c \in Capacities : c # b => container'[c] = container[c]
<1>1. CASE UNCHANGED launched
  BY <1>1
<1>2. ASSUME NEW b \in Capacities, pc[b] = "launch", pc'[b] = "run",
             launched' = launched \cup {JobOf(b)}, UNCHANGED <<row, journal, status>>,
             \A c \in Capacities : c # b => container'[c] = container[c]
      PROVE  \A e \in launched' \ launched :
              /\ e = JobOf(b) /\ e \in Demands
              /\ journal[b].kind = "active" /\ row[e].claim = "active"
  BY <1>2, PlaceFacts DEF Executing, JournalTrue
<1> QED
  BY <1>1, <1>2, LaunchMoves DEF LaunchMove

LEMMA LaunchesStep ==
  ASSUME RootCiInv, [Next]_vars
  PROVE  LaunchesJournaled'
<1>l. LaunchesJournaled
  BY DEF RootCiInv
<1>1. ASSUME NEW d \in Demands, row'[d].claim \in {"none", "preparing"} PROVE d \notin launched'
  <2>1. row[d].claim \in {"none", "preparing"}
    BY <1>1, ClaimsAdvance
  <2>2. d \notin launched /\ row[d].claim # "active"
    BY <1>l, <2>1 DEF LaunchesJournaled
  <2> QED
    BY <2>2, Launching
<1>2. ASSUME NEW c \in Capacities, journal'[c].kind = "activation" PROVE journal'[c].demand \notin launched'
  <2>1. CASE JournalStays(c)
    <3>1. journal[c].kind = "activation" /\ journal'[c].demand = JobOf(c) /\ JobOf(c) \notin launched
      BY <1>2, <1>l, <2>1 DEF JournalStays, LaunchesJournaled
    <3> QED
      BY <3>1, Launching, OneJournal
  <2>2. ASSUME NEW d \in Demands, JournalIssued(c, d) PROVE d \notin launched'
    <3>1. row[d].claim = "preparing"
      BY <2>2, PlaceFacts DEF JournalIssued, JournalTrue
    <3>2. d \notin launched
      BY <1>l, <3>1 DEF LaunchesJournaled
    <3> QED
      BY <3>1, <3>2, Launching
  <2> QED
    BY <1>2, <2>1, <2>2, JournalMoves DEF JournalMove, JournalStays, JournalAsks, JournalReserves,
         JournalRefused, JournalIssued, JournalActivated, JournalSubmits, JournalRecovers,
         JournalReported, JournalRecovered
<1>3. ASSUME NEW c \in Capacities, pc'[c] \in {"lease", "fetch", "launch"}
      PROVE  journal'[c].demand \notin launched'
  <2>1. /\ journal'[c].demand = JobOf(c) /\ JobOf(c) \notin launched
        /\ journal[c].kind \notin {"none", "claim"} /\ pc'[c] # "run"
    <3>1. CASE PlaceStays(c) \/ PlaceNears(c)
      <4>1. journal[c].kind = "active" /\ JobOf(c) \notin launched /\ journal'[c] = journal[c]
        BY <1>l, <1>3, <3>1, PlaceFacts DEF PlaceStays, PlaceNears, LaunchesJournaled, Executing
      <4> QED
        BY <1>3, <4>1
    <3>2. CASE PlaceEntered(c)
      BY <1>l, <1>3, <3>2 DEF PlaceEntered, LaunchesJournaled
    <3> QED
      BY <1>3, <3>1, <3>2, WorkerMoves DEF PlaceMove, PlaceLeft, PlaceLaunches, PlaceCleans, Executing
  <2> QED
    BY <2>1, Launching, OneJournal
<1>4. ASSUME NEW c \in Capacities, pc'[c] \in {"run", "finished"} \/ journal'[c].kind = "result"
      PROVE  journal'[c].demand \in launched'
  <2>1. CASE pc'[c] \in {"run", "finished"}
    <3>1. CASE PlaceStays(c) \/ PlaceCleans(c)
      BY <1>l, <2>1, <3>1, Launching DEF PlaceStays, PlaceCleans, LaunchesJournaled
    <3>2. CASE PlaceLaunches(c)
      BY <3>2 DEF PlaceLaunches
    <3> QED
      BY <2>1, <3>1, <3>2, WorkerMoves DEF PlaceMove, PlaceLeft, PlaceEntered, PlaceNears, Executing
  <2>2. CASE journal'[c].kind = "result"
    <3>1. CASE JournalStays(c)
      BY <1>l, <2>2, <3>1, Launching DEF JournalStays, LaunchesJournaled
    <3>2. ASSUME NEW d \in Demands, JournalSubmits(c, d) PROVE journal'[c].demand \in launched'
      BY <1>l, <3>2, Launching DEF JournalSubmits, LaunchesJournaled
    <3> QED
      BY <2>2, <3>1, <3>2, JournalMoves DEF JournalMove, JournalAsks, JournalReserves,
         JournalRefused, JournalIssued, JournalActivated, JournalRecovers,
         JournalReported, JournalRecovered
  <2> QED
    BY <1>4, <2>1, <2>2
<1>5. ASSUME NEW c \in Capacities, container'[c] # None PROVE NamesNext(c, "active", container'[c])
  <2>0. /\ container[c] # None => Names(c, "active", container[c])
        /\ pc[c] = "launch" => Names(c, "active", JobOf(c))
    BY <1>l, PlaceFacts DEF LaunchesJournaled, Executing
  <2>1. CASE PlaceStays(c) \/ PlaceNears(c)
    BY <1>5, <2>0, <2>1 DEF PlaceStays, PlaceNears
  <2>2. CASE PlaceLeft(c) \/ PlaceCleans(c)
    BY <1>5, <2>0, <2>2 DEF PlaceLeft, PlaceCleans
  <2>3. CASE PlaceEntered(c)
    BY <1>5, <2>0, <2>3 DEF PlaceEntered
  <2>4. CASE PlaceLaunches(c)
    BY <2>0, <2>4 DEF PlaceLaunches
  <2> QED
    BY <2>1, <2>2, <2>3, <2>4, WorkerMoves DEF PlaceMove
<1>6. ASSUME NEW c \in Capacities, pc'[c] = "finished" PROVE container'[c] = None
  BY <1>6, <1>l, WorkerMoves DEF PlaceMove, PlaceStays, PlaceLeft, PlaceEntered, PlaceNears,
     PlaceLaunches, PlaceCleans, LaunchesJournaled, Executing
<1>7. ASSUME NEW d \in Demands, row'[d].outbox # "none" PROVE d \in launched'
  <2>1. CASE HasResult(d)
    BY <1>l, <2>1, Launching DEF LaunchesJournaled
  <2>2. CASE RowAccepted(d)
    <3>1. Names(row[d].owner, "result", d) /\ row[d].owner \in Capacities
      BY <2>2, RowFacts DEF RowAccepted, RowShape
    <3> QED
      BY <1>l, <3>1, Launching DEF LaunchesJournaled
  <2>3. CASE RowDelivered(d)
    BY <2>1, <2>3, RowFacts DEF HasResult, RowDelivered, RowShape
  <2>4. CASE RowRevoked(d)
    BY <1>7, <2>1, <2>4 DEF HasResult, RowRevoked
  <2> QED
    BY <1>7, <2>1, <2>2, <2>3, <2>4, RowMoves DEF HasResult, RowMove, RowStays, RowCommitted,
       SameClaim, RowReserved, RowActivated, RowRecovering
<1> QED
  BY <1>1, <1>2, <1>3, <1>4, <1>5, <1>6, <1>7 DEF LaunchesJournaled, HasResult

\* A status is added by the reporter for the result it sends.
StatusMove ==
  \/ UNCHANGED status
  \/ /\ reporter.phase = "send" /\ status' = status \cup {reporter.demand}
     /\ attempt[reporter.demand] = "issued" /\ UNCHANGED <<row, attempt>>

ReporterMove ==
  \/ UNCHANGED reporter
  \/ reporter'.phase = "idle"
  \/ reporter'.phase = "send" /\ reporter'.demand \in Deliverable
  \/ /\ reporter.phase = "send" /\ reporter'.phase = "ack"
     /\ reporter'.demand = reporter.demand /\ reporter.demand \in status'

LEMMA ReporterMoves ==
  ASSUME RootCiInv, [Next]_vars
  PROVE  StatusMove /\ ReporterMove
<1>t. ServingTyped
  BY TypeParts DEF RootCiInv
<1>1. CASE UNCHANGED <<status, reporter>>
  BY <1>1 DEF StatusMove, ReporterMove
<1>2. CASE TakeOldest
  <2>1. UNCHANGED status
    BY <1>2 DEF TakeOldest
  <2>2. PICK d \in Deliverable : reporter' = [phase |-> "send", demand |-> d]
    BY <1>2 DEF TakeOldest
  <2>3. reporter'.phase = "send" /\ reporter'.demand = d
    BY <2>2
  <2> QED
    BY <2>1, <2>3 DEF StatusMove, ReporterMove
<1>3. CASE Send
  <2>1. StatusMove
    BY <1>3 DEF Send, Publishable, StatusMove
  <2>2. CASE Idle
    BY <2>1, <2>2 DEF Idle, ReporterMove
  <2>3. CASE reporter' = [reporter EXCEPT !.phase = "ack"] /\ status' = status \cup {reporter.demand}
    <3>1. reporter'.phase = "ack" /\ reporter'.demand = reporter.demand
      BY <1>t, <2>3 DEF ServingTyped
    <3> QED
      BY <1>3, <2>1, <2>3, <3>1 DEF Send, ReporterMove
  <2> QED
    BY <1>3, <2>2, <2>3 DEF Send
<1>4. CASE Acknowledge \/ ServiceStops
  BY <1>4 DEF Acknowledge, ServiceStops, Idle, StatusMove, ReporterMove
<1>5. CASE \E s \in Capacities \cup {None} : HandlerStep(s)
  BY <1>1, <1>5 DEF HandlerStep, IssueAttempt, IssueReply, ProveAttempt, Activate, PrepareRecovery,
     RevokeAttempt, CompleteRecovery
<1>6. CASE \E c \in Capacities : WorkerStep(c) \/ Start(c) \/ GiveUp(c) \/ Crash(c)
  BY <1>1, <1>6 DEF WorkerStep, Poll, ReserveReplay, ReserveRefused, Reserve, IssueCall,
     ActivateCall, Unavailable, StartLease, FetchCandidate, Launch, Complete, Submit, Abandon,
     CleanupFails, Report, ReplayReport, RecoverCall, Start, GiveUp, Crash
<1> QED
  BY <1>1, <1>2, <1>3, <1>4, <1>5, <1>6 DEF Next, ReporterStep, Register, AdmissionLapses,
     RootMoves, ServiceActivates, CommitReceipt, Withdraw, LeaseExpires

LEMMA StatusesStep ==
  ASSUME RootCiInv, [Next]_vars
  PROVE  StatusesEarned'
<1>s. StatusesEarned /\ status \subseteq Demands
  BY DEF RootCiInv, TypeOK
<1>m. StatusMove /\ ReporterMove /\ status \subseteq status'
  BY ReporterMoves DEF StatusMove
<1>1. ASSUME NEW d \in status' PROVE row'[d].outbox # "none" /\ attempt'[d] # "none"
  <2>1. d \in Demands /\ HasResult(d) /\ attempt[d] # "none"
    BY <1>s, <1>m, <1>1 DEF StatusMove, StatusesEarned
  <2> QED
    BY <2>1, ClaimsAdvance, AttemptMoves DEF HasResult, AttemptMove
<1>2. ASSUME NEW d \in Demands, attempt'[d] = "revoked" PROVE row'[d].recovery # "none"
  <2>1. row[d].recovery # "none"
    BY <1>s, <1>2, AttemptMoves DEF AttemptMove, StatusesEarned
  <2> QED
    BY <2>1, RecoveryStays
<1>3. reporter'.phase # "idle" => reporter'.demand \in Demands
  BY <1>s, <1>m DEF ReporterMove, StatusesEarned, Deliverable
<1>4. reporter'.phase = "send" => row'[reporter'.demand].outbox # "none"
  <2>1. reporter'.phase = "send" => reporter'.demand \in Demands /\ row[reporter'.demand].outbox # "none"
    BY <1>s, <1>m DEF ReporterMove, StatusesEarned, Deliverable, HasResult
  <2> QED
    BY <2>1, ClaimsAdvance
<1>5. reporter'.phase = "ack" => reporter'.demand \in status'
  BY <1>s, <1>m DEF ReporterMove, StatusesEarned
<1>6. ASSUME NEW d \in Demands, row'[d].outbox = "delivered" PROVE d \in status'
  <2>1. CASE row[d].outbox = "delivered"
    BY <1>s, <1>m, <2>1 DEF StatusesEarned
  <2>2. CASE RowDelivered(d)
    BY <1>m, <2>2 DEF RowDelivered
  <2> QED
    BY <1>6, <2>1, <2>2, RowMoves DEF RowMove, RowStays, RowCommitted, SameClaim,
       RowReserved, RowActivated, RowAccepted, RowRecovering, RowRevoked
<1>7. ASSUME NEW d \in Demands, row'[d].claim = "released", row'[d].outbox # "delivered"
      PROVE  attempt'[d] = "revoked"
  <2>1. CASE RowStays(d) \/ RowCommitted(d)
    <3>1. row[d].claim = "released" /\ row[d].outbox # "delivered"
      BY <1>7, <2>1 DEF RowStays, RowCommitted, SameClaim
    <3>2. attempt[d] = "revoked"
      BY <1>s, <3>1 DEF StatusesEarned, ReleaseAfterRevocation
    <3> QED
      BY <3>2, RecoveryStays
  <2>2. CASE RowRevoked(d)
    BY <2>2 DEF RowRevoked
  <2> QED
    BY <1>7, <2>1, <2>2, RowMoves DEF RowMove, RowReserved, RowActivated, RowAccepted,
       RowRecovering, RowDelivered
<1> QED
  BY <1>1, <1>2, <1>3, <1>4, <1>5, <1>6, <1>7 DEF StatusesEarned, HasResult, ReleaseAfterRevocation
-----------------------------------------------------------------------------
(* The theorems. *)

LEMMA RootCiInit == Init => RootCiInv
<1> SUFFICES ASSUME Init PROVE RootCiInv
  OBVIOUS
<1>0. /\ \A d \in Demands : row[d] = NoRow
      /\ NoRow \in Row /\ RowShape(NoRow)
  BY RootCiAssumption DEF Init, NoRow, Row, RowShape, DemandStates, ClaimStates
<1>r. \A d \in Demands : /\ row[d].claim = "none" /\ row[d].demand = "none" /\ row[d].root = 0
                         /\ row[d].outbox = "none" /\ row[d].owner = None
  BY <1>0 DEF NoRow
<1>1. TypeOK
  <2>1. StoreTyped
    BY <1>0 DEF Init, StoreTyped
  <2>2. ServingTyped
    BY DEF Init, ServingTyped
  <2>3. HostsTyped
    BY Bounds DEF Init, HostsTyped, Journals, NoJournal, Locations
  <2>4. NativeTyped /\ BudgetTyped
    BY Bounds DEF Init, NativeTyped, BudgetTyped
  <2> QED
    BY <2>1, <2>2, <2>3, <2>4, TypeParts
<1>2. RowsShaped
  BY <1>0 DEF RowsShaped
<1>3. RootsAdmitted
  BY <1>r DEF Init, RootsAdmitted, ReceiptConsistent, DemandConsistent
<1>4. WorkersInStep /\ JournalsTrue
  BY DEF Init, WorkersInStep, WorkerInStep, JournalsTrue, JournalTrue, NoJournal, Executing
<1>5. ClaimIsJournaled /\ SingleOccupancy
  BY <1>r DEF ClaimIsJournaled, SingleOccupancy
<1>6. HandlersSound
  BY DEF Init, HandlersSound
<1>7. LaunchesJournaled
  BY <1>r DEF Init, LaunchesJournaled, HasResult, NoJournal
<1>8. StatusesEarned
  BY <1>r DEF Init, StatusesEarned, ReleaseAfterRevocation
<1> QED
  BY <1>1, <1>2, <1>3, <1>4, <1>5, <1>6, <1>7, <1>8 DEF RootCiInv

\* The invariant holds in every reachable state, for every number of demands,
\* capacities, restarts, crashes, lost replies and lapses.
THEOREM RootCiInductive == Spec => []RootCiInv
<1>1. RootCiInv /\ [Next]_vars => RootCiInv'
  BY TypeStep, ShapeStep, RootsStep, WorkerMoves, JournalsStep, ClaimsStep, OccupancyStep,
     HandlersStep, LaunchesStep, StatusesStep DEF RootCiInv
<1> QED
  BY RootCiInit, <1>1, PTL DEF Spec

\* Every variable keeps its type, the counters their bounds.
THEOREM RootCiTypes == Spec => []TypeOK
BY RootCiInductive, PTL DEF RootCiInv

\* A row in one of its shapes passes the checks of claims and results.
LEMMA ShapeConsistent ==
  ASSUME RootCiInv, NEW d \in Demands
  PROVE  ClaimConsistent(d) /\ ResultConsistent(d)
<1>0. /\ RowShape(row[d]) /\ row[d].claim \in ClaimStates
      /\ row[d].outbox \in {"none", "pending", "delivered", "denied"}
  BY RowFacts DEF Row
<1>1. CASE row[d].claim = "none"
  BY <1>0, <1>1 DEF RowShape, ClaimConsistent, ResultConsistent
<1>2. CASE row[d].claim = "preparing"
  BY <1>0, <1>2 DEF RowShape, ClaimConsistent, ResultConsistent
<1>3. CASE row[d].claim = "active"
  BY <1>0, <1>3 DEF RowShape, ClaimConsistent, ResultConsistent
<1>4. CASE row[d].claim = "reported"
  BY <1>0, <1>4 DEF RowShape, ClaimConsistent, ResultConsistent, Reported
<1>5. CASE row[d].claim = "recovering"
  BY <1>0, <1>5 DEF RowShape, ClaimConsistent, ResultConsistent
<1>6. CASE row[d].claim = "released"
  BY <1>0, <1>6 DEF RowShape, ClaimConsistent, ResultConsistent
<1> QED
  BY <1>0, <1>1, <1>2, <1>3, <1>4, <1>5, <1>6 DEF ClaimStates

\* Whatever interleaving the service was stopped in, its startup check accepts
\* the store: a restart is never refused.
THEOREM StartupNeverRefuses == Spec => []StartupIntegrity
<1>1. RootCiInv => StartupIntegrity
  <2> SUFFICES ASSUME RootCiInv, NEW d \in Demands
               PROVE  /\ ReceiptConsistent(d) /\ DemandConsistent(d)
                      /\ ClaimConsistent(d) /\ ResultConsistent(d)
    BY DEF StartupIntegrity, StoreConsistent
  <2> QED
    BY ShapeConsistent DEF RootCiInv, RootsAdmitted
<1> QED
  BY RootCiInductive, <1>1, PTL

\* No crash, lost reply or orphaned handler makes a host forget a claim that
\* fences its capacity.
THEOREM ClaimsAreJournaled == Spec => []ClaimIsJournaled
BY RootCiInductive, PTL DEF RootCiInv

\* A capacity never owes two claims.
THEOREM OneClaimPerCapacity == Spec => []SingleOccupancy
BY RootCiInductive, PTL DEF RootCiInv

\* Candidate code runs only for the journaled active claim of its capacity, and
\* a result or a status is only ever of code that ran and is gone.
THEOREM RunsAreFenced == Spec => []RunFenced
<1>1. ASSUME RootCiInv, NEW c \in Capacities, container[c] # None
      PROVE  /\ journal[c] = [kind |-> "active", demand |-> container[c]]
             /\ row[container[c]].claim = "active" /\ row[container[c]].owner = c
  <2>1. Names(c, "active", container[c]) /\ journal[c] \in Journals
    BY <1>1, TypeParts DEF RootCiInv, LaunchesJournaled, HostsTyped
  <2>2. journal[c] = [kind |-> "active", demand |-> container[c]]
    BY <2>1 DEF Journals
  <2> QED
    BY <2>1, <2>2, PlaceFacts, <1>1 DEF JournalTrue
<1>2. ASSUME RootCiInv, NEW d \in Demands, HasResult(d) \/ d \in status
      PROVE  d \in launched /\ \A c \in Capacities : container[c] # d
  <2>1. HasResult(d)
    BY <1>2 DEF RootCiInv, StatusesEarned
  <2>2. d \in launched
    BY <1>2, <2>1 DEF RootCiInv, LaunchesJournaled
  <2>3. row[d].claim # "active"
    BY <1>2, <2>1, RowFacts DEF RowShape, HasResult
  <2>4. d # None
    BY RootCiAssumption
  <2> QED
    BY <1>1, <1>2, <2>2, <2>3, <2>4
<1>3. RootCiInv => RunFenced
  BY <1>1, <1>2 DEF RunFenced, ContainerFenced, EvidenceAfterCleanup
<1> QED
  BY RootCiInductive, <1>3, PTL

\* A claim ends as delivered evidence of an unrevoked attempt, or with its
\* attempt revoked first: never both, whatever raced the acknowledgement.
THEOREM ClaimsEndOneWay == Spec => []EndsOneWay
<1>1. ASSUME RootCiInv, NEW d \in Demands, row[d].outbox = "delivered"
      PROVE  d \in status /\ attempt[d] = "issued"
  <2>1. d \in status /\ attempt[d] # "none"
    BY <1>1 DEF RootCiInv, StatusesEarned
  <2>2. row[d].recovery = "none"
    BY <1>1, RowFacts DEF RowShape, ClaimStates
  <2>3. attempt[d] # "revoked"
    BY <1>1, <2>2 DEF RootCiInv, StatusesEarned
  <2>4. attempt[d] \in {"none", "issued", "revoked"}
    BY <1>1 DEF RootCiInv, TypeOK
  <2> QED
    BY <2>1, <2>3, <2>4
<1>2. RootCiInv => EndsOneWay
  BY <1>1 DEF EndsOneWay, DeliveredIsCurrentEvidence, RootCiInv, StatusesEarned
<1> QED
  BY RootCiInductive, <1>2, PTL

\* Candidate code of one demand is started at most once, across crashes, journal
\* replays and service restarts.
THEOREM CodeRunsOnce == Spec => RunsOnce
<1>1. ASSUME RootCiInv, [Next]_vars, NEW c \in Capacities,
             container'[c] \notin {None, container[c]}
      PROVE  container'[c] \notin launched
  <2>1. PlaceLaunches(c)
    BY <1>1, WorkerMoves DEF PlaceMove, PlaceStays, PlaceLeft, PlaceEntered, PlaceNears, PlaceCleans
  <2> QED
    BY <1>1, <2>1 DEF PlaceLaunches, RootCiInv, LaunchesJournaled
<1>2. RootCiInv /\ [Next]_vars =>
        [\A c \in Capacities :
           container'[c] \notin {None, container[c]} => container'[c] \notin launched]_vars
  BY <1>1
<1> QED
  BY RootCiInductive, <1>2, PTL DEF Spec, RunsOnce
=============================================================================
