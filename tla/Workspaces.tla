----------------------------- MODULE Workspaces -----------------------------
(***************************************************************************)
(* The lifecycle of one native workspace of the recommended environment:   *)
(* create, setup, start, restart, update, stop, show and discard           *)
(* (core/nativeWorkspace*.ts, workspace*.ts), the host's shutdown and      *)
(* start around them (hostShutdown.ts, hostRecovery.ts), and the requests  *)
(* the controller serves for the workspace (controller.ts).                *)
(*                                                                         *)
(* "admin" is the operation that holds the host lifecycle lock; "self" is  *)
(* the restart a workspace asks of the controller for itself, which does   *)
(* not hold it.  The outer container holds the Git relay, so the relay     *)
(* lives and dies with it.  A root is the number of a protected commit; a  *)
(* workspace id is the number of the creation that made it.                *)
(***************************************************************************)
EXTENDS Naturals, FiniteSets

CONSTANTS WMaxHead,      \* bound on promotions of the Project root
          WMaxIds,       \* bound on creations
          WMaxOps,       \* bound on operations
          WMaxFaults,    \* bound on failures of Docker, setup or the controller
          WMaxRequests   \* bound on controller requests

ASSUME WorkspaceAssumption ==
    WMaxHead \in Nat /\ WMaxIds \in Nat /\ WMaxOps \in Nat /\ WMaxFaults \in Nat /\ WMaxRequests \in Nat

VARIABLES
    wHost,     \* host lifecycle record
    wRec,      \* workspace record
    wIds,      \* workspace ids handed out
    wBox,      \* outer container
    wAgent,    \* agent container: "none", "stopped", "running"
    wRelay,    \* phase the relay acts on, or "down"
    wGrants,   \* ids whose grant files exist
    wHead,     \* protected head of the Project root
    wSetup,    \* what Project setup last completed for in this container
    wOp,       \* operations under way
    wLock,     \* holders of the Project, setup and authority locks
    wReq,      \* the controller request under way
    wBlind,    \* the workspace whose discard was published without a look at its container, or 0
    wCount     \* operations, faults and requests so far

wVars == <<wHost, wRec, wIds, wBox, wAgent, wRelay, wGrants, wHead, wSetup, wOp, wLock, wReq, wBlind, wCount>>
runtimeVars == <<wBox, wAgent, wRelay, wSetup>>
worldVars == <<wHead, wReq, wIds, wBlind>>

WPhases == {"none", "creating", "setting-up", "ready", "stopped", "setup-error", "error", "discarding"}
WWorkers == {"admin", "self"}
WNobody == "nobody"
WNoRecord == [phase |-> "none", id |-> 0, root |-> 0]
WIdle == [op |-> "none", stage |-> "none", seen |-> WNoRecord, pick |-> 0,
          next |-> WNoRecord, then |-> "none", lenient |-> FALSE]
WNoRequest == [stage |-> "none", kind |-> "none", seen |-> WNoRecord]
WNoBox == [state |-> "none", root |-> 0]

WorkspaceInit ==
    /\ wHost = [phase |-> "ready", resume |-> FALSE]
    /\ wRec = WNoRecord
    /\ wIds = 0
    /\ wBox = WNoBox
    /\ wAgent = "none"
    /\ wRelay = "down"
    /\ wGrants = {}
    /\ wHead = 0
    /\ wSetup = WNoRecord
    /\ wOp = [p \in WWorkers |-> WIdle]
    /\ wLock = [l \in {"project", "setup", "authority"} |-> WNobody]
    /\ wReq = WNoRequest
    /\ wBlind = 0
    /\ wCount = [ops |-> 0, faults |-> 0, requests |-> 0]

WCounts(what, bound) == wCount[what] < bound /\ wCount' = [wCount EXCEPT ![what] = @ + 1]
WFault == WCounts("faults", WMaxFaults)

\* Mutant: a discard under way does not keep other operations out.
WActiveWhileDiscarding(record) == record.phase # "none"

(* assertWorkspaceLifecycleActive.                                         *)
WActive(record) == record.phase \notin {"none", "discarding"}

(* authenticateWorkspaceGrant: a token names the record it was issued for. *)
WHasGrant(record) == record.id \in wGrants /\ WActive(record)

WIs(p, stage) == wOp[p].stage = stage
WGoes(p, stage) == wOp' = [wOp EXCEPT ![p].stage = stage]

(* Publish record: tell the relay first, then write; then go on.  A        *)
(* lenient publication writes although the relay could not be told.        *)
WPublishes(p, record, notify, then, lenient) ==
    wOp' = [wOp EXCEPT ![p].stage = IF notify THEN "notify" ELSE "write", ![p].next = record,
                       ![p].then = then, ![p].lenient = lenient]

(* The finally blocks: every lock of p is released.  A host operation      *)
(* records how it ended.                                                   *)
\* Mutant: the Project lock is not released on the way out.
WReleasedInner(p) == [l \in DOMAIN wLock |-> IF l # "project" /\ wLock[l] = p THEN WNobody ELSE wLock[l]]
WReleased(p) == [l \in DOMAIN wLock |-> IF wLock[l] = p THEN WNobody ELSE wLock[l]]
WHostAfter(op, ok) ==
    CASE op = "shutdown" -> [wHost EXCEPT !.phase = IF ok THEN "stopped" ELSE "error"]
      [] op = "hoststart" -> IF ok THEN [phase |-> "ready", resume |-> FALSE]
                             ELSE [wHost EXCEPT !.phase = "error"]
      [] OTHER -> wHost
WEnds(p, ok) ==
    /\ wOp' = [wOp EXCEPT ![p] = WIdle]
    /\ wLock' = WReleased(p)
    /\ wHost' = WHostAfter(wOp[p].op, ok)
WGoesOn == UNCHANGED <<wLock, wHost>>

(* The outer container docker run makes for a root; one that carries       *)
(* another root than the record; one that stops, and its relay with it.    *)
WBoxFor(root) == [state |-> "running", root |-> root]
WMismatched(record, box) == box.state # "none" /\ box.root # record.root
WStopped(box) == [box EXCEPT !.state = IF @ = "running" THEN "stopped" ELSE @]

-----------------------------------------------------------------------------
(* Operations begin.                                                       *)

(* withHostAdminAdmission admits a workspace command on a ready host.      *)
(* "show" stands for list, run and exec too: they look the same way.       *)
WTransitions == {"start", "restart", "update", "setup"}
WBegin(op) ==
    /\ wOp["admin"].op = "none" /\ wHost.phase = "ready"
    /\ WCounts("ops", WMaxOps)
    /\ op \in WTransitions => WActive(wRec)
    /\ op \in {"stop", "show", "discard"} => wRec.phase # "none"
    /\ op = "create" => wIds < WMaxIds \/ wRec.phase # "none"
    /\ wOp' = [wOp EXCEPT !["admin"] = [WIdle EXCEPT !.op = op, !.seen = wRec,
                   !.stage = IF op \in WTransitions \cup {"create"} THEN "project" ELSE "lock"]]
    /\ UNCHANGED <<wHost, wRec, runtimeVars, wGrants, worldVars, wLock>>

(* POST /api/workspace/restart: accepted once per workspace, and carried   *)
(* out after the response, without the host lifecycle lock.                *)
WAsksRestart ==
    /\ wOp["self"].op = "none" /\ wHost.phase = "ready"
    /\ WHasGrant(wRec)
    /\ WCounts("ops", WMaxOps)
    /\ wOp' = [wOp EXCEPT !["self"] = [WIdle EXCEPT !.op = "restart", !.stage = "accepted", !.seen = wRec]]
    /\ UNCHANGED <<wHost, wRec, runtimeVars, wGrants, worldVars, wLock>>

WSelfRestart ==
    /\ WIs("self", "accepted")
    /\ wOp' = IF WActive(wRec) /\ wRec.id = wOp["self"].seen.id
              THEN [wOp EXCEPT !["self"].stage = "project", !["self"].seen = wRec]
              ELSE [wOp EXCEPT !["self"] = WIdle]
    /\ WGoesOn
    /\ UNCHANGED <<wRec, runtimeVars, wGrants, worldVars, wCount>>

(* shutdownHost: capture the ready workspaces, then stop them.             *)
WShutdown ==
    /\ wOp["admin"].op = "none" /\ wHost.phase = "ready"
    /\ WCounts("ops", WMaxOps)
    /\ LET target == wRec.phase \in {"ready", "discarding"} IN
       /\ wHost' = [phase |-> IF target THEN "stopping" ELSE "stopped", resume |-> wRec.phase = "ready"]
       /\ wOp' = IF target THEN [wOp EXCEPT !["admin"] = [WIdle EXCEPT !.op = "shutdown", !.stage = "lock"]]
                 ELSE wOp
    /\ UNCHANGED <<wRec, runtimeVars, wGrants, worldVars, wLock>>

(* startHost: recover the workspaces the shutdown captured.                *)
WHostStart ==
    /\ wOp["admin"].op = "none" /\ wHost.phase # "ready"
    /\ WCounts("ops", WMaxOps)
    /\ IF wHost.resume /\ WActive(wRec)
       THEN /\ wHost' = [wHost EXCEPT !.phase = "starting"]
            /\ wOp' = [wOp EXCEPT !["admin"] = [WIdle EXCEPT !.op = "hoststart", !.stage = "project", !.seen = wRec]]
       ELSE /\ wHost' = WHostAfter("hoststart", ~wHost.resume)
            /\ UNCHANGED wOp
    /\ UNCHANGED <<wRec, runtimeVars, wGrants, worldVars, wLock>>

(* The Project lock, and the root selected under it: the protected head,   *)
(* or for setup the root the workspace already has.                        *)
WSelectRoot(p) ==
    /\ WIs(p, "project")
    /\ wLock["project"] = WNobody
    /\ wLock' = [wLock EXCEPT !["project"] = p]
    /\ wOp' = [wOp EXCEPT ![p].stage = "lock", ![p].pick = wHead]
    /\ UNCHANGED <<wHost, wRec, runtimeVars, wGrants, worldVars, wCount>>

(* readCurrent: the workspace is the one the operation began with.         *)
WUnchangedSince(p) ==
    wOp[p].op \in {"start", "restart", "update", "hoststart"}
        => wRec.id = wOp[p].seen.id /\ wRec.root = wOp[p].seen.root

WSetupLock(p) ==
    /\ WIs(p, "lock")
    /\ wLock["setup"] = WNobody
    /\ IF /\ wOp[p].op \notin {"create", "discard", "show", "shutdown"} => WActive(wRec)
          /\ wOp[p].op \in {"discard", "show", "shutdown"} => wRec.phase # "none"
          /\ wOp[p].op = "create" => wRec.phase # "discarding"
          /\ WUnchangedSince(p)
       THEN wLock' = [wLock EXCEPT !["setup"] = p] /\ WGoes(p, "enter") /\ UNCHANGED wHost
       ELSE WEnds(p, FALSE)
    /\ UNCHANGED <<wRec, runtimeVars, wGrants, worldVars, wCount>>

-----------------------------------------------------------------------------
(* What each operation does first under the setup lock.                    *)

WRunning == wBox.state = "running"
WWith(phase) == [wRec EXCEPT !.phase = phase]

(* createNativeWorkspace: claim a new record, or take the existing one.    *)
WCreate(p) ==
    /\ WIs(p, "enter") /\ wOp[p].op = "create"
    /\ IF wRec.phase = "none"
       THEN /\ wIds' = wIds + 1
            /\ wRec' = [phase |-> "creating", id |-> wIds + 1, root |-> wOp[p].pick]
       ELSE UNCHANGED <<wRec, wIds>>
    /\ WGoes(p, "reconcile") /\ WGoesOn
    /\ UNCHANGED <<runtimeVars, wGrants, wHead, wReq, wBlind, wCount>>

(* setupWorkspace: publish setting-up before the container is touched.     *)
WSetupBegins(p) ==
    /\ WIs(p, "enter") /\ wOp[p].op = "setup"
    /\ WPublishes(p, WWith("setting-up"), wRec.phase = "ready" /\ WRunning, "reconcile", TRUE)
    /\ WGoesOn
    /\ UNCHANGED <<wRec, runtimeVars, wGrants, worldVars, wCount>>

(* transitionNativeWorkspace, update: only of a container that runs the    *)
(* recorded root.                                                          *)
WUpdateBegins(p) ==
    /\ WIs(p, "enter") /\ wOp[p].op = "update"
    /\ IF WRunning /\ wBox.root = wRec.root
       THEN /\ WPublishes(p, [WWith("setting-up") EXCEPT !.root = wOp[p].pick], TRUE, "reconcile", FALSE)
            /\ WGoesOn
       ELSE WEnds(p, FALSE)
    /\ UNCHANGED <<wRec, runtimeVars, wGrants, worldVars, wCount>>

(* stopWorkspaceLocked: the relay is told, then agent and container stop,  *)
(* then the record is written.                                             *)
WStopBegins(p) ==
    /\ WIs(p, "enter") /\ wOp[p].op \in {"stop", "shutdown"}
    /\ wOp' = [wOp EXCEPT ![p].stage = IF WRunning THEN "notify" ELSE "halt", ![p].then = "end",
                          ![p].next = IF wRec.phase = "discarding" THEN wRec ELSE WWith("stopped")]
    /\ WGoesOn
    /\ UNCHANGED <<wRec, runtimeVars, wGrants, worldVars, wCount>>

(* inspectWorkspaceAgentContainer: it runs, with its own labels and mounts.*)
WAgentUp(agent) == agent = "running"

(* reconcileWorkspaceRuntimeState: what show, start, restart and recovery  *)
(* make of a record that says ready or stopped.  A mismatched root is an   *)
(* error, a running container without its agent a setup error, and a ready *)
(* workspace whose container does not run is stopped.                      *)
WFound(record, box, agent) ==
    IF record.phase \notin {"ready", "stopped"} THEN record.phase
    ELSE IF box.state = "running" /\ WMismatched(record, box) THEN "error"
    ELSE IF box.state = "running" /\ (record.phase = "stopped" \/ ~WAgentUp(agent)) THEN "setup-error"
    ELSE IF box.state = "running" THEN "ready" ELSE "stopped"

WAgentStopped == IF WAgentUp(wAgent) THEN "stopped" ELSE wAgent

(* A record that says stopped over a running container: the relay is told  *)
(* again first.                                                            *)
WInspect(p) ==
    /\ WIs(p, "enter") /\ wOp[p].op \in {"show", "start", "restart", "hoststart"}
    /\ IF wRec.phase = "stopped" /\ WRunning THEN WPublishes(p, wRec, TRUE, "inspect", FALSE)
       ELSE WGoes(p, "inspect")
    /\ WGoesOn
    /\ UNCHANGED <<wRec, runtimeVars, wGrants, worldVars, wCount>>

WReconcileRuntime(p) ==
    /\ WIs(p, "inspect")
    /\ wAgent' = IF wRec.phase = "stopped" \/ (wRec.phase = "ready" /\ ~WRunning) THEN WAgentStopped ELSE wAgent
    /\ LET found == WFound(wRec, wBox, wAgent') IN
       IF found = "ready" THEN WPublishes(p, wRec, TRUE, "decide", FALSE)
       ELSE IF found = wRec.phase THEN WGoes(p, "decide")
       ELSE WPublishes(p, WWith(found), WRunning, "decide", TRUE)
    /\ WGoesOn
    /\ UNCHANGED <<wRec, wBox, wRelay, wSetup, wGrants, worldVars, wCount>>

(* Whether the operation may go on from the phase it found.                *)
WMayGoOn(op) ==
    CASE op = "start" -> wRec.phase = "stopped"
      [] op = "hoststart" -> wRec.phase \notin {"creating", "ready"}
      [] op = "restart" -> wRec.phase = "stopped" \/ (WRunning /\ wBox.root = wRec.root)
      [] OTHER -> FALSE

WDecide(p) ==
    /\ WIs(p, "decide")
    /\ IF ~WMayGoOn(wOp[p].op)
       THEN WEnds(p, wOp[p].op = "show" \/ wRec.phase = "ready")
       ELSE /\ IF wOp[p].op = "restart" /\ wRec.phase # "stopped"
               THEN wOp' = [wOp EXCEPT ![p].stage = "notify", ![p].next = WWith("stopped"), ![p].then = "select",
                                  ![p].lenient = FALSE]
               ELSE WGoes(p, "select")
            /\ WGoesOn
    /\ UNCHANGED <<wRec, runtimeVars, wGrants, worldVars, wCount>>

(* applySelection: the record takes the selected root.                     *)
WApplySelection(p) ==
    /\ WIs(p, "select")
    /\ WPublishes(p, [wRec EXCEPT !.root = wOp[p].pick], FALSE, "reconcile", FALSE)
    /\ WGoesOn
    /\ UNCHANGED <<wRec, runtimeVars, wGrants, worldVars, wCount>>

-----------------------------------------------------------------------------
(* Publication, in two steps that a crash can separate.                    *)

(* Stopping is the one publication that halts the containers in between.   *)
WHalts(p) ==
    \/ wOp[p].op = "shutdown"
    \/ wOp[p].next.phase = "stopped" /\ wOp[p].then \in {"end", "select"}

(* notifyRecommendedWorkspaceRelayPhase: the relay takes the phase; when   *)
(* it cannot, the outer container is stopped.                              *)
WNotify(p) ==
    /\ WIs(p, "notify")
    /\ wRelay # "down"
    /\ wRelay' = wOp[p].next.phase
    /\ WGoes(p, IF WHalts(p) THEN "halt" ELSE "write")
    /\ WGoesOn
    /\ UNCHANGED <<wRec, wBox, wAgent, wSetup, wGrants, worldVars, wCount>>

WNotifyFails(p) ==
    /\ WIs(p, "notify")
    /\ IF wRelay = "down" THEN UNCHANGED wCount ELSE WFault
    /\ wBox' = WStopped(wBox)
    /\ wRelay' = "down"
    /\ IF wOp[p].lenient
       THEN wOp' = [wOp EXCEPT ![p].stage = "write", ![p].then = "failed"] /\ WGoesOn
       ELSE WEnds(p, FALSE)
    /\ UNCHANGED <<wRec, wAgent, wSetup, wGrants, worldVars>>

WHalt(p) ==
    /\ WIs(p, "halt")
    /\ wAgent' = WAgentStopped
    /\ wBox' = WStopped(wBox)
    /\ wRelay' = "down"
    /\ WGoes(p, "write") /\ WGoesOn
    /\ UNCHANGED <<wRec, wSetup, wGrants, worldVars, wCount>>

(* docker stop fails.                                                      *)
WHaltFails(p) ==
    /\ WIs(p, "halt")
    /\ WFault
    /\ wAgent' \in {wAgent, WAgentStopped}
    /\ WEnds(p, FALSE)
    /\ UNCHANGED <<wRec, wBox, wRelay, wSetup, wGrants, worldVars>>

(* writeWorkspace; the agent of a container found with the wrong root      *)
(* stops once that is published.                                           *)
WWrite(p) ==
    /\ WIs(p, "write")
    /\ wRec' = wOp[p].next
    /\ wAgent' = IF wOp[p].then = "decide" /\ wOp[p].next.phase = "error" THEN WAgentStopped ELSE wAgent
    /\ IF wOp[p].then \in {"end", "failed"} THEN WEnds(p, wOp[p].then = "end")
       ELSE WGoes(p, wOp[p].then) /\ WGoesOn
    /\ UNCHANGED <<wBox, wRelay, wSetup, wGrants, worldVars, wCount>>

-----------------------------------------------------------------------------
(* reconcileNativeWorkspace and setupWorkspaceLocked.                      *)

(* The container that reconcileContainer leaves: the same one if it has    *)
(* the recorded root, otherwise a new one.                                 *)
WSameBox == wBox.state # "none" /\ ~WMismatched(wRec, wBox)

(* ensureWorkspaceGrant, ensureAgentGrant, ensureNativeGitGrant.            *)
WGranted(record) == wGrants \cup {record.id}
WReconcile(p) ==
    /\ WIs(p, "reconcile")
    /\ wGrants' = WGranted(wRec)
    /\ wBox' = WBoxFor(wRec.root)
    /\ wRelay' = IF WSameBox /\ WRunning THEN wRelay ELSE "down"
    /\ wSetup' = IF WSameBox THEN wSetup ELSE WNoRecord
    /\ WGoes(p, "setting-up") /\ WGoesOn
    /\ UNCHANGED <<wRec, wAgent, worldVars, wCount>>

(* It fails before or after the container was removed or created.          *)
WReconcileFails(p) ==
    /\ WIs(p, "reconcile")
    /\ WFault
    /\ wGrants' \in {wGrants, WGranted(wRec)}
    /\ \/ UNCHANGED <<wBox, wRelay, wSetup>>
       \/ /\ ~WSameBox
          /\ wBox' \in {WNoBox, WBoxFor(wRec.root)}
          /\ wRelay' = "down" /\ wSetup' = WNoRecord
    /\ WPublishes(p, WWith("error"), wBox'.state = "running", "failed", TRUE)
    /\ WGoesOn
    /\ UNCHANGED <<wRec, wAgent, worldVars>>

WSettingUp(p) ==
    /\ WIs(p, "setting-up")
    /\ IF WRunning /\ wBox.root = wRec.root
       THEN WPublishes(p, WWith("setting-up"), wRec.phase = "ready", "agent", FALSE) /\ WGoesOn
       ELSE WEnds(p, FALSE)
    /\ UNCHANGED <<wRec, runtimeVars, wGrants, worldVars, wCount>>

(* ensureRelay: the relay starts, or starts over, in phase setting-up.     *)
WRelayStarts == "setting-up"

(* reconcileWorkspaceAgent.                                                *)
WAgentReady(p) ==
    /\ WIs(p, "agent") /\ WRunning
    /\ wAgent' = "running"
    /\ wRelay' = WRelayStarts
    /\ WGoes(p, "project-setup") /\ WGoesOn
    /\ UNCHANGED <<wRec, wBox, wSetup, wGrants, worldVars, wCount>>

WAgentFails(p) ==
    /\ WIs(p, "agent")
    /\ IF WRunning THEN WFault ELSE UNCHANGED wCount
    /\ wAgent' \in {wAgent, "running"}
    /\ \E started \in {FALSE} \cup {WRunning /\ wAgent' = "running"} :
         /\ wRelay' = IF started THEN WRelayStarts ELSE wRelay
         /\ WPublishes(p, WWith("setup-error"), started, "failed", TRUE)
    /\ WGoesOn
    /\ UNCHANGED <<wRec, wBox, wSetup, wGrants, worldVars>>

WProjectSetup(p) ==
    /\ WIs(p, "project-setup") /\ WRunning
    /\ wSetup' = wRec
    /\ WPublishes(p, WWith("ready"), FALSE, "announce", FALSE)
    /\ WGoesOn
    /\ UNCHANGED <<wRec, wBox, wAgent, wRelay, wGrants, worldVars, wCount>>

WProjectSetupFails(p) ==
    /\ WIs(p, "project-setup")
    /\ IF WRunning THEN WFault ELSE UNCHANGED wCount
    /\ WPublishes(p, WWith("setup-error"), TRUE, "failed", FALSE)
    /\ WGoesOn
    /\ UNCHANGED <<wRec, runtimeVars, wGrants, worldVars>>

(* The record said ready first; the relay follows.                         *)
WAnnounce(p) ==
    /\ WIs(p, "announce")
    /\ wRelay # "down"
    /\ wRelay' = "ready"
    /\ WEnds(p, TRUE)
    /\ UNCHANGED <<wRec, wBox, wAgent, wSetup, wGrants, worldVars, wCount>>

WAnnounceFails(p) ==
    /\ WIs(p, "announce")
    /\ IF wRelay = "down" THEN UNCHANGED wCount ELSE WFault
    /\ wBox' = WStopped(wBox)
    /\ wRelay' = "down"
    /\ WPublishes(p, WWith("setup-error"), FALSE, "failed", FALSE)
    /\ WGoesOn
    /\ UNCHANGED <<wRec, wAgent, wSetup, wGrants, worldVars>>

-----------------------------------------------------------------------------
(* discardWorkspace.                                                       *)

WDiscardBegins(p) ==
    /\ WIs(p, "enter") /\ wOp[p].op = "discard"
    /\ wLock["authority"] = WNobody
    /\ IF WMismatched(wRec, wBox) THEN WEnds(p, FALSE)
       ELSE /\ wLock' = [wLock EXCEPT !["authority"] = p]
            /\ WPublishes(p, WWith("discarding"), WRunning, "revoke", FALSE)
            /\ UNCHANGED wHost
    /\ UNCHANGED <<wRec, runtimeVars, wGrants, worldVars, wCount>>

(* docker inspect fails, or finds a container that is not DIM's: the record *)
(* says discarding all the same, but no relay is told and no grant goes.   *)
WDiscardBlind(p) ==
    /\ WIs(p, "enter") /\ wOp[p].op = "discard"
    /\ wLock["authority"] = WNobody
    /\ WFault
    /\ wRec' = WWith("discarding")
    /\ wBlind' = wRec.id
    /\ WEnds(p, FALSE)
    /\ UNCHANGED <<runtimeVars, wGrants, wHead, wReq, wIds>>

(* The grants go, and with them the authority lock.                        *)
WRevoke(p) ==
    /\ WIs(p, "revoke")
    /\ wGrants' = wGrants \ {wRec.id}
    /\ wLock' = [wLock EXCEPT !["authority"] = WNobody]
    /\ WGoes(p, "teardown")
    /\ UNCHANGED <<wHost, wRec, runtimeVars, worldVars, wCount>>

(* Hooks, agent, Project teardown, container and volume.                   *)
WTeardown(p) ==
    /\ WIs(p, "teardown")
    /\ wAgent' = "none"
    /\ wBox' = WNoBox
    /\ wRelay' = "down" /\ wSetup' = WNoRecord
    /\ WGoes(p, "remove") /\ WGoesOn
    /\ UNCHANGED <<wRec, wGrants, worldVars, wCount>>

(* A hook, the agent's removal, the start for teardown or the teardown     *)
(* fails; the record stays discarding for another discard.                 *)
WTeardownFails(p) ==
    /\ WIs(p, "teardown")
    /\ WFault
    /\ wAgent' \in {wAgent, "none"}
    /\ wBox' \in {wBox, [wBox EXCEPT !.state = IF wAgent' = "none" /\ @ = "stopped" THEN "running" ELSE @]}
    /\ WEnds(p, FALSE)
    /\ UNCHANGED <<wRec, wRelay, wSetup, wGrants, worldVars>>

(* removeWorkspace.                                                        *)
WRemove(p) ==
    /\ WIs(p, "remove")
    /\ wRec' = WNoRecord
    /\ WEnds(p, TRUE)
    /\ UNCHANGED <<runtimeVars, wGrants, worldVars, wCount>>

-----------------------------------------------------------------------------
(* Controller requests.                                                    *)

(* The relay forwards a Git request of its agent when the phase it was     *)
(* told allows it; the broker asks the same of the record.                 *)
WGitAllowed(phase, kind) == phase = "ready" \/ (phase = "setting-up" /\ kind = "read")
WForwards(kind) == kind = "api" \/ WGitAllowed(wRelay, kind)

(* A ready host serves everybody; while it recovers, only the workspace it *)
(* is setting up, and not Git.                                             *)
WHostAdmits(kind) ==
    \/ wHost.phase = "ready"
    \/ kind = "api" /\ wHost.phase = "starting" /\ wHost.resume /\ wRec.phase = "setting-up"

(* handleRequest up to authenticate: what the request is served for is the *)
(* record as it is now.                                                    *)
WAuthenticate(kind) ==
    /\ wReq.stage = "none"
    /\ WCounts("requests", WMaxRequests)
    /\ WForwards(kind) /\ WHostAdmits(kind) /\ WHasGrant(wRec)
    /\ wReq' = [stage |-> "authenticated", kind |-> kind, seen |-> wRec]
    /\ UNCHANGED <<wHost, wRec, runtimeVars, wGrants, wHead, wIds, wBlind, wOp, wLock>>

(* serveNativeWorkspaceGit: the phase and root of the record that was      *)
(* authenticated, the root against the protected head of now.              *)
WBrokered == WGitAllowed(wReq.seen.phase, wReq.kind) /\ wReq.seen.root = wHead

\* Mutant: the record is not read again under the authority lock.
WServeUnchecked ==
    /\ wReq.stage = "authenticated"
    /\ wLock["authority"] = WNobody
    /\ wReq' = [wReq EXCEPT !.stage = "serving"]
    /\ wLock' = [wLock EXCEPT !["authority"] = "request"]
    /\ UNCHANGED <<wHost, wRec, runtimeVars, wGrants, wHead, wIds, wBlind, wOp, wCount>>

(* runWorkspaceRequest: look again under the authority lock.               *)
WServe ==
    /\ wReq.stage = "authenticated"
    /\ wLock["authority"] = WNobody
    /\ IF /\ wRec.id = wReq.seen.id /\ WActive(wRec)
          /\ wReq.kind # "api" => WBrokered
       THEN wReq' = [wReq EXCEPT !.stage = "serving"] /\ wLock' = [wLock EXCEPT !["authority"] = "request"]
       ELSE wReq' = WNoRequest /\ UNCHANGED wLock
    /\ UNCHANGED <<wHost, wRec, runtimeVars, wGrants, wHead, wIds, wBlind, wOp, wCount>>

(* The handler returns; a Git push the broker forwards goes on after it.   *)
WServed ==
    /\ wReq.stage = "serving"
    /\ wLock' = [wLock EXCEPT !["authority"] = WNobody]
    /\ wReq' = WNoRequest
    /\ UNCHANGED <<wHost, wRec, runtimeVars, wGrants, wHead, wIds, wBlind, wOp, wCount>>

-----------------------------------------------------------------------------
(* The world.                                                              *)

WPromotes ==
    /\ wHead < WMaxHead
    /\ wHead' = wHead + 1
    /\ UNCHANGED <<wHost, wRec, wIds, wBlind, runtimeVars, wGrants, wOp, wLock, wReq, wCount>>

(* The outer container is stopped, removed or started behind DIM's back.   *)
WDockerActs ==
    /\ WFault
    /\ wBox.state # "none"
    /\ \/ wBox' = WStopped(wBox) /\ UNCHANGED wSetup
       \/ wBox' = WNoBox /\ wSetup' = WNoRecord
       \/ wBox.state = "stopped" /\ wBox' = [wBox EXCEPT !.state = "running"] /\ UNCHANGED wSetup
    /\ wRelay' = "down"
    /\ UNCHANGED <<wHost, wRec, wIds, wBlind, wAgent, wGrants, wHead, wOp, wLock, wReq>>

(* The controller process dies with everything it was doing; its locks are *)
(* those of a dead owner.                                                  *)
WControllerDies ==
    /\ WFault
    /\ wOp' = [p \in WWorkers |-> WIdle]
    /\ wLock' = [l \in DOMAIN wLock |-> WNobody]
    /\ wReq' = WNoRequest
    /\ UNCHANGED <<wHost, wRec, wIds, wBlind, runtimeVars, wGrants, wHead>>

WWork(p) ==
    \/ WSelectRoot(p) \/ WSetupLock(p) \/ WCreate(p) \/ WSetupBegins(p) \/ WUpdateBegins(p)
    \/ WStopBegins(p) \/ WInspect(p) \/ WReconcileRuntime(p) \/ WDecide(p) \/ WApplySelection(p)
    \/ WNotify(p) \/ WHalt(p) \/ WWrite(p)
    \/ WReconcile(p) \/ WSettingUp(p) \/ WAgentReady(p) \/ WProjectSetup(p) \/ WAnnounce(p)
    \/ WDiscardBegins(p) \/ WRevoke(p) \/ WTeardown(p) \/ WRemove(p)
    \/ WNotifyFails(p) \/ WHaltFails(p) \/ WReconcileFails(p) \/ WAgentFails(p)
    \/ WProjectSetupFails(p) \/ WAnnounceFails(p) \/ WTeardownFails(p) \/ WDiscardBlind(p)

WOperations == {"create", "setup", "start", "restart", "update", "stop", "show", "discard"}

WorkspaceNext ==
    \/ \E op \in WOperations : WBegin(op)
    \/ WAsksRestart \/ WSelfRestart \/ WShutdown \/ WHostStart
    \/ \E p \in WWorkers : WWork(p)
    \/ \E kind \in {"api", "read", "write"} : WAuthenticate(kind)
    \/ WServe \/ WServed
    \/ WPromotes \/ WDockerActs \/ WControllerDies

WorkspaceFairness ==
    /\ \A p \in WWorkers : WF_wVars(WWork(p))
    /\ WF_wVars(WSelfRestart) /\ WF_wVars(WServe \/ WServed)

WorkspaceSpec == WorkspaceInit /\ [][WorkspaceNext]_wVars

-----------------------------------------------------------------------------
WorkspaceTypeOK ==
    /\ wHost.phase \in {"ready", "stopping", "stopped", "starting", "error"}
    /\ wRec.phase \in WPhases /\ wRec.id \in 0..WMaxIds /\ wRec.root \in 0..WMaxHead
    /\ wBox.state \in {"none", "stopped", "running"}
    /\ wAgent \in {"none", "stopped", "running"}
    /\ wRelay \in (WPhases \ {"none"}) \cup {"down"}
    /\ wGrants \subseteq 1..WMaxIds
    /\ \A l \in DOMAIN wLock : wLock[l] \in WWorkers \cup {WNobody, "request"}
    /\ wBox.state # "running" => wRelay = "down"

(* An agent whose relay says ready works in a container where Project      *)
(* setup completed for exactly the root and workspace the record names,    *)
(* and the record says ready too; or a discard of just that workspace was  *)
(* published by an operation that could not look at the container.         *)
RelayReadyIsSetUp ==
    wRelay = "ready" => /\ wRec.phase = "ready" \/ (wRec.phase = "discarding" /\ wBlind = wRec.id)
                        /\ wBox.state = "running" /\ wBox.root = wRec.root
                        /\ wSetup.id = wRec.id /\ wSetup.root = wRec.root

(* A grant opens only the workspace that exists; a request is served only  *)
(* while that workspace is the one it was authenticated for and no discard *)
(* has been published.                                                     *)
GrantsAreCurrent ==
    /\ \A id \in wGrants : id = wRec.id
    /\ wReq.stage = "serving" => wRec.phase \notin {"none", "discarding"} /\ wRec.id = wReq.seen.id

(* Whoever is let in, agent or request, finds the workspace it was let     *)
(* into: the two above together.                                           *)
EntryIsCurrent == RelayReadyIsSetUp /\ GrantsAreCurrent

(* A published discard is final: the record changes only by going away,    *)
(* whatever operations were already waiting for the workspace.             *)
DiscardIsFinal == [][wRec.phase = "discarding" => wRec' \in {wRec, WNoRecord}]_wVars

(* Every operation ends, and a restart that was accepted is carried out or *)
(* refused.                                                                *)
OperationsEnd == \A p \in WWorkers : (wOp[p].op # "none") ~> (wOp[p].op = "none")
=============================================================================
