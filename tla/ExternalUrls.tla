---------------------------- MODULE ExternalUrls ----------------------------
(***************************************************************************)
(* The external URLs plugin (plugin-external-urls, plugin-dns-cloudflare): *)
(* routes of one workspace, their approval, the in-memory registry the     *)
(* listeners forward by, live flows, ingress configuration and the managed *)
(* Caddy and DNS record of the HTTP ingress.                               *)
(*                                                                         *)
(* RouteMutationQueue runs one operation at a time; every await of it is a *)
(* step here, and connections open and close between the steps.  A TCP     *)
(* listener's single route is the registry row of the listener's own       *)
(* authority.  A policy stands for everything ingressPolicyRevision        *)
(* hashes, so it is its own revision.                                      *)
(***************************************************************************)
EXTENDS Naturals, FiniteSets

CONSTANTS UHttp,         \* the HTTP ingress, behind a managed Caddy
          UTcp,          \* the TCP ingress, on the tailnet
          URequests,     \* requests: ingress, slug, target, path
          UPolicies,     \* ingress policies, numbered from 1
          UGuarded,      \* those that require approval
          UMaxIds,       \* bound on stored URLs
          UMaxStarts,    \* bound on controller starts
          UMaxEdits,     \* bound on ingress configuration changes
          UMaxMoves,     \* bound on restarts of target containers
          UMaxFaults     \* bound on failures and crashes

\* A TCP request has neither a slug nor a path (validateRequest).
ASSUME UrlAssumption ==
    /\ UHttp # UTcp /\ UGuarded \subseteq UPolicies /\ UPolicies \subseteq Nat \ {0}
    /\ \A r \in URequests : r.ingress \in {UHttp, UTcp}
    /\ \A r, s \in URequests : r.ingress = UTcp /\ s.ingress = UTcp /\ r.target = s.target => r = s

VARIABLES
    uStored,     \* stored URLs by id
    uConfig,     \* policy of each configured ingress in external-urls.json, 0: none
    uLive,       \* policy of each ingress the controller serves, 0: none
    uRegistry,   \* authority -> claim, upstream, enabled
    uFlows,      \* open connections: listener, authority, claim, upstream
    uAddress,    \* incarnation of each target container
    uCaddy,      \* the managed Caddy: deployment written, container up
    uDns,        \* policy whose wildcard record exists at the provider, 0: none
    uOp,         \* the operation at the head of the queue
    uPhase,      \* controller: down, starting, up
    uCount

uVars == <<uStored, uConfig, uLive, uRegistry, uFlows, uAddress, uCaddy, uDns, uOp, uPhase, uCount>>

UIngresses == {UHttp, UTcp}
UTargets == {r.target : r \in URequests}
UNoCaddy == [written |-> FALSE, up |-> FALSE]
UNothing == [x \in {} |-> 0]
UIdle == [kind |-> "none", stage |-> "none", id |-> 0, request |-> 0, acquired |-> FALSE, todo |-> {}]

UInit ==
    /\ uStored = UNothing
    /\ \E policy \in UPolicies : uConfig = [i \in UIngresses |-> policy]
    /\ uLive = [i \in UIngresses |-> 0]
    /\ uRegistry = UNothing
    /\ uFlows = {}
    /\ uAddress = [t \in UTargets |-> 0]
    /\ uCaddy = UNoCaddy
    /\ uDns = 0
    /\ uOp = UIdle
    /\ uPhase = "down"
    /\ uCount = [ids |-> 0, starts |-> 0, edits |-> 0, moves |-> 0, faults |-> 0]

UCounts(what, most) == uCount[what] < most /\ uCount' = [uCount EXCEPT ![what] = @ + 1]
UFault == UCounts("faults", UMaxFaults)
UAt(stage) == uOp.stage = stage
UGoes(stage) == uOp' = [uOp EXCEPT !.stage = stage]

-----------------------------------------------------------------------------
(* Claims, authorities and the registry.                                   *)

(* routeClaim: workspace, ingress, slug and target; a route that needs     *)
(* approval is claimed by its own id.                                      *)
URouteClaim(r) == [of |-> "route", id |-> 0, ingress |-> r.ingress, slug |-> r.slug, target |-> r.target]
UOwnClaim(id) == [of |-> "url", id |-> id, ingress |-> UHttp, slug |-> 0, target |-> 0]

(* The slug the route policy admits and the permalink of the id, under the *)
(* ingress's domain; a TCP listener has its one address.                   *)
UAuthorities(r, id, policy) ==
    IF r.ingress = UTcp
    THEN {[kind |-> "tcp", name |-> 0, policy |-> policy]}
    ELSE {[kind |-> "slug", name |-> r.slug, policy |-> policy],
          [kind |-> "permalink", name |-> id, policy |-> policy]}
UAuthoritiesOf(id) == UAuthorities(uStored[id].request, id, uStored[id].policy)

UEnabled(approval) == approval \in {"not-required", "approved"}

(* No authority wanted belongs to another claim.                           *)
UUnclaimed(authorities, claim) ==
    \A a \in authorities \cap DOMAIN uRegistry : uRegistry[a].claim = claim

(* provision: rows are taken or refreshed; a changed upstream first closes *)
(* the claim's flows.                                                      *)
URebinds(authorities, upstream) ==
    \E a \in authorities \cap DOMAIN uRegistry : uRegistry[a].upstream # upstream
UDestroyClaim(claim) == uFlows' = {f \in uFlows : f.claim # claim}
UProvisioned(authorities, claim, upstream, enabled) ==
    /\ uRegistry' = [a \in DOMAIN uRegistry \cup authorities |->
                       IF a \in authorities THEN [claim |-> claim, upstream |-> upstream, enabled |-> enabled]
                       ELSE uRegistry[a]]
    /\ IF URebinds(authorities, upstream) THEN UDestroyClaim(claim) ELSE UNCHANGED uFlows

(* revoke: the claim's rows go, and its flows with them.                   *)
URows(authorities, claim) == {a \in authorities \cap DOMAIN uRegistry : uRegistry[a].claim = claim}
URevokeRoute(authorities, claim) ==
    /\ uRegistry' = [a \in DOMAIN uRegistry \ URows(authorities, claim) |-> uRegistry[a]]
    /\ UDestroyClaim(claim)

(* setApproval refuses a route that is not in the registry.                *)
UActiveRoute(id) == UAuthoritiesOf(id) = URows(UAuthoritiesOf(id), uStored[id].claim)
USwitched(id, enabled) ==
    uRegistry' = [a \in DOMAIN uRegistry |->
                    IF a \in UAuthoritiesOf(id) THEN [uRegistry[a] EXCEPT !.enabled = enabled] ELSE uRegistry[a]]

-----------------------------------------------------------------------------
(* Stored URLs.  put replaces the file atomically.                         *)

UPut(id, entry) == uStored' = [x \in DOMAIN uStored \cup {id} |-> IF x = id THEN entry ELSE uStored[x]]
URemove(ids) == uStored' = [x \in DOMAIN uStored \ ids |-> uStored[x]]

(* deduplicateRoutes keeps the last file of each route id.  An HTTP route  *)
(* gets a fresh id; the id of a TCP route is its claim; file names are     *)
(* random.                                                                 *)
USameRoute(x, y) ==
    x = y \/ (uStored[x].request.ingress = UTcp /\ uStored[y].request.ingress = UTcp
              /\ uStored[x].claim = uStored[y].claim)
UDeduplicated(ids) ==
    /\ ids \subseteq DOMAIN uStored
    /\ \A x \in DOMAIN uStored : \E y \in ids : USameRoute(x, y)
    /\ \A x, y \in ids : USameRoute(x, y) => x = y

-----------------------------------------------------------------------------
(* Connections: #proxy, #upgrade, #forward.                                *)

UDocked(i, a) == IF i = UTcp THEN a.kind = "tcp" ELSE a.kind # "tcp"

UConnect(i, a) ==
    /\ uPhase # "down" /\ uLive[i] # 0
    /\ a \in DOMAIN uRegistry /\ UDocked(i, a) /\ uRegistry[a].enabled
    /\ uFlows' = uFlows \cup {[ingress |-> i, authority |-> a, claim |-> uRegistry[a].claim,
                               upstream |-> uRegistry[a].upstream]}
    /\ UNCHANGED <<uStored, uConfig, uLive, uRegistry, uAddress, uCaddy, uDns, uOp, uPhase, uCount>>

UDisconnect(f) ==
    /\ uFlows' = uFlows \ {f}
    /\ UNCHANGED <<uStored, uConfig, uLive, uRegistry, uAddress, uCaddy, uDns, uOp, uPhase, uCount>>

(* The target's container comes back at another address.                   *)
UTargetMoves(t) ==
    /\ UCounts("moves", UMaxMoves)
    /\ uAddress' = [uAddress EXCEPT ![t] = @ + 1]
    /\ UNCHANGED <<uStored, uConfig, uLive, uRegistry, uFlows, uCaddy, uDns, uOp, uPhase>>

(* resolveWorkspaceTarget: the container in the workspace, or one nested in *)
(* it behind a relay, as it is inspected now.                              *)
UResolved(t) == uAddress[t]

uRouteVars == <<uStored, uRegistry, uFlows>>
uHostVars == <<uConfig, uLive, uAddress, uCaddy, uDns, uPhase>>

-----------------------------------------------------------------------------
(* reconcileStoredRoute, for an existing request, a listing or a start.    *)

(* The next URL, in the order of the file names, or the end: a start is    *)
(* then done.                                                              *)
UTakes(op, stage, ids) ==
    IF ids = {} THEN uOp' = UIdle
    ELSE \E x \in ids : uOp' = [op EXCEPT !.stage = stage, !.id = x, !.todo = ids \ {x}, !.acquired = FALSE]
UAdvances ==
    /\ UTakes(uOp, "reconcile", uOp.todo)
    /\ uPhase' = IF uOp.kind = "start" /\ uOp.todo = {} THEN "up" ELSE uPhase
(* A failure ends a request; a start logs it and goes on.                  *)
UFails == IF uOp.kind = "start" THEN UAdvances ELSE uOp' = UIdle /\ UNCHANGED uPhase

UEntry == uStored[uOp.id]
UPolicyOf(r) == uLive[r.ingress]
UDrifted == UEntry.policy # UPolicyOf(UEntry.request)

UReconcilable == UPolicyOf(UEntry.request) # 0 /\ UEntry.approval # "revoked"

UReconcileSkips ==
    /\ UAt("reconcile") /\ ~UReconcilable
    /\ IF UEntry.approval = "revoked" THEN UAdvances ELSE UFails
    /\ UNCHANGED <<uRouteVars, uConfig, uLive, uAddress, uCaddy, uDns, uCount>>

UReconcileFails ==
    /\ UAt("reconcile") /\ UReconcilable /\ UFault
    /\ UFails
    /\ UNCHANGED <<uRouteVars, uConfig, uLive, uAddress, uCaddy, uDns>>

(* A changed policy that asks for approval: pending, before anything else. *)
UReconcile ==
    /\ UAt("reconcile") /\ UReconcilable
    /\ IF UDrifted /\ UPolicyOf(UEntry.request) \in UGuarded
       THEN UPut(uOp.id, [UEntry EXCEPT !.approval = "pending"])
       ELSE UNCHANGED uStored
    /\ UGoes("rebind")
    /\ UNCHANGED <<uRegistry, uFlows, uHostVars, uCount>>

UWanted == UAuthorities(UEntry.request, uOp.id, UPolicyOf(UEntry.request))

URebind ==
    /\ UAt("rebind") /\ UUnclaimed(UWanted, UEntry.claim)
    /\ UProvisioned(UWanted, UEntry.claim, UResolved(UEntry.request.target), UEnabled(UEntry.approval))
    /\ IF UDrifted
       THEN /\ uOp' = [uOp EXCEPT !.stage = "renew", !.acquired = ~(UWanted \subseteq DOMAIN uRegistry)]
            /\ UNCHANGED uPhase
       ELSE UAdvances
    /\ UNCHANGED <<uStored, uConfig, uLive, uAddress, uCaddy, uDns, uCount>>

(* The target does not resolve, or an authority belongs to another route.  *)
URebindFails ==
    /\ UAt("rebind")
    /\ IF UUnclaimed(UWanted, UEntry.claim) THEN UFault ELSE UNCHANGED uCount
    /\ UFails
    /\ UNCHANGED <<uRouteVars, uConfig, uLive, uAddress, uCaddy, uDns>>

URenew ==
    /\ UAt("renew")
    /\ UPut(uOp.id, [UEntry EXCEPT !.policy = UPolicyOf(UEntry.request)])
    /\ UAdvances
    /\ UNCHANGED <<uRegistry, uFlows, uConfig, uLive, uAddress, uCaddy, uDns, uCount>>

(* A put that fails gives back what was acquired.                          *)
URenewFails ==
    /\ UAt("renew") /\ UFault
    /\ IF uOp.acquired THEN URevokeRoute(UWanted, UEntry.claim) ELSE UNCHANGED <<uRegistry, uFlows>>
    /\ UFails
    /\ UNCHANGED <<uStored, uConfig, uLive, uAddress, uCaddy, uDns>>

-----------------------------------------------------------------------------
(* Requests of the workspace.                                              *)

UServes == uPhase = "up" /\ UAt("none")
UBegins(kind, stage, id, r) ==
    uOp' = [UIdle EXCEPT !.kind = kind, !.stage = stage, !.id = id, !.request = r]

UExisting(r) == {x \in DOMAIN uStored : uStored[x].approval # "revoked" /\ uStored[x].request = r}

(* createUrl: an equal request is reconciled, a new one provisioned.       *)
UValid(r) == UPolicyOf(r) # 0
UCreate(r) ==
    /\ UServes /\ UValid(r)
    /\ IF UExisting(r) # {}
       THEN \E x \in UExisting(r) : UBegins("create", "reconcile", x, r) /\ UNCHANGED uCount
       ELSE UCounts("ids", UMaxIds) /\ UBegins("create", "provision", uCount.ids + 1, r)
    /\ UNCHANGED <<uRouteVars, uHostVars>>

UApprovalFor(r) == IF UPolicyOf(r) \in UGuarded THEN "pending" ELSE "not-required"
UClaimFor(r, id) == IF UPolicyOf(r) \in UGuarded THEN UOwnClaim(id) ELSE URouteClaim(r)
UNewAuthorities == UAuthorities(uOp.request, uOp.id, UPolicyOf(uOp.request))
UNewClaim == UClaimFor(uOp.request, uOp.id)

UProvision ==
    /\ UAt("provision") /\ UUnclaimed(UNewAuthorities, UNewClaim)
    /\ UProvisioned(UNewAuthorities, UNewClaim, UResolved(uOp.request.target), UEnabled(UApprovalFor(uOp.request)))
    /\ uOp' = [uOp EXCEPT !.stage = "store", !.acquired = ~(UNewAuthorities \subseteq DOMAIN uRegistry)]
    /\ UNCHANGED <<uStored, uHostVars, uCount>>

UProvisionFails ==
    /\ UAt("provision")
    /\ IF UUnclaimed(UNewAuthorities, UNewClaim) THEN UFault ELSE UNCHANGED uCount
    /\ uOp' = UIdle
    /\ UNCHANGED <<uRouteVars, uHostVars>>

UStore ==
    /\ UAt("store")
    /\ UPut(uOp.id, [request |-> uOp.request, claim |-> UNewClaim,
                     approval |-> UApprovalFor(uOp.request), policy |-> UPolicyOf(uOp.request)])
    /\ uOp' = UIdle
    /\ UNCHANGED <<uRegistry, uFlows, uHostVars, uCount>>

UStoreFails ==
    /\ UAt("store") /\ UFault
    /\ IF uOp.acquired THEN URevokeRoute(UNewAuthorities, UNewClaim) ELSE UNCHANGED <<uRegistry, uFlows>>
    /\ uOp' = UIdle
    /\ UNCHANGED <<uStored, uHostVars>>

(* listUrls reconciles every route.                                        *)
UList(ids) ==
    /\ UServes /\ ids # {} /\ UDeduplicated(ids)
    /\ UTakes([UIdle EXCEPT !.kind = "list"], "reconcile", ids)
    /\ UNCHANGED <<uRouteVars, uHostVars, uCount>>

(* url-revoke, deleteUrl and removeWorkspaceRoutes mark the URL revoked,   *)
(* then close the route; the deletions then remove the file.               *)
URevoke(kind, ids) ==
    /\ UServes /\ ids \subseteq DOMAIN uStored /\ ids # {}
    /\ kind \in {"revoke", "delete"} => Cardinality(ids) = 1
    /\ kind = "revoke" => \A x \in ids : uStored[x].approval # "revoked"
    /\ kind = "delete-all" => ids = DOMAIN uStored
    /\ kind # "delete-all" => \A x \in ids : UPolicyOf(uStored[x].request) # 0
    /\ UTakes([UIdle EXCEPT !.kind = kind], "mark", ids)
    /\ UNCHANGED <<uRouteVars, uHostVars, uCount>>

UMark ==
    /\ UAt("mark")
    /\ UPut(uOp.id, [UEntry EXCEPT !.approval = "revoked"])
    /\ UGoes("close")
    /\ UNCHANGED <<uRegistry, uFlows, uHostVars, uCount>>

UMarkFails ==
    /\ uOp.stage \in {"mark", "remove"} /\ UFault
    /\ uOp' = UIdle
    /\ UNCHANGED <<uRouteVars, uHostVars>>

\* Mutant: only the registry row goes; connections already open stay.
UCloseKeepingFlows ==
    /\ UAt("close")
    /\ uRegistry' = [a \in DOMAIN uRegistry \ URows(UAuthoritiesOf(uOp.id), UEntry.claim) |-> uRegistry[a]]
    /\ IF uOp.kind = "revoke" THEN uOp' = UIdle ELSE UGoes("remove")
    /\ UNCHANGED <<uStored, uFlows, uHostVars, uCount>>
UClose ==
    /\ UAt("close")
    /\ IF UPolicyOf(UEntry.request) # 0
       THEN URevokeRoute(UAuthoritiesOf(uOp.id), UEntry.claim)
       ELSE UNCHANGED <<uRegistry, uFlows>>
    /\ IF uOp.kind = "revoke" THEN uOp' = UIdle ELSE UGoes("remove")
    /\ UNCHANGED <<uStored, uHostVars, uCount>>

UDeleted ==
    /\ UAt("remove")
    /\ URemove({uOp.id})
    /\ UTakes(uOp, "mark", uOp.todo)
    /\ UNCHANGED <<uRegistry, uFlows, uHostVars, uCount>>

-----------------------------------------------------------------------------
(* The administrator approves: the route is switched off, the approval     *)
(* stored, the route switched on.                                          *)

UApprovable(id) ==
    /\ uStored[id].approval = "pending"
    /\ uStored[id].policy = UPolicyOf(uStored[id].request)

UApprove(id) ==
    /\ UServes /\ id \in DOMAIN uStored /\ UApprovable(id) /\ UActiveRoute(id)
    /\ USwitched(id, FALSE) /\ UDestroyClaim(uStored[id].claim)
    /\ UBegins("approve", "approve", id, 0)
    /\ UNCHANGED <<uStored, uHostVars, uCount>>

UApproved ==
    /\ UAt("approve")
    /\ UPut(uOp.id, [UEntry EXCEPT !.approval = "approved"])
    /\ UGoes("switch")
    /\ UNCHANGED <<uRegistry, uFlows, uHostVars, uCount>>

UApproveFails ==
    /\ UAt("approve") /\ UFault
    /\ uOp' = UIdle
    /\ UNCHANGED <<uRouteVars, uHostVars>>

USwitch ==
    /\ UAt("switch")
    /\ USwitched(uOp.id, TRUE)
    /\ uOp' = UIdle
    /\ UNCHANGED <<uStored, uFlows, uHostVars, uCount>>

-----------------------------------------------------------------------------
(* Ingress configuration: written now, served after the next start, except *)
(* that a removal closes the listener at once.                             *)

UConfigurations == UIngresses \X UPolicies
(* writeExternalUrlConfig: a validated copy, renamed into place.           *)
UWriteConfig(i, policy) == uConfig' = [uConfig EXCEPT ![i] = policy]
UIngressAdd(i, policy) ==
    /\ UServes /\ UCounts("edits", UMaxEdits) /\ uConfig[i] # policy
    /\ UWriteConfig(i, policy)
    /\ UNCHANGED <<uRouteVars, uLive, uAddress, uCaddy, uDns, uOp, uPhase>>

(* The DNS record goes only when asked for, and only when it is the        *)
(* configured one.                                                         *)
UDnsVerified(i) == i = UHttp /\ uDns = uConfig[i]
UIngressRemove(i, cleanup) ==
    /\ UServes /\ uConfig[i] # 0 /\ UCounts("edits", UMaxEdits)
    /\ cleanup => UDnsVerified(i)
    /\ uDns' = IF cleanup THEN 0 ELSE uDns
    /\ uOp' = [UIdle EXCEPT !.kind = "ingress-remove", !.stage = IF i = UHttp THEN "stop-caddy" ELSE "close-listener",
                            !.request = [ingress |-> i]]
    /\ UNCHANGED <<uRouteVars, uConfig, uLive, uAddress, uCaddy, uPhase>>

UStopCaddy ==
    /\ UAt("stop-caddy")
    /\ uCaddy' = UNoCaddy
    /\ UGoes("close-listener")
    /\ UNCHANGED <<uRouteVars, uConfig, uLive, uAddress, uDns, uPhase, uCount>>

UStopCaddyFails ==
    /\ UAt("stop-caddy") /\ uCaddy.written /\ UFault
    /\ uOp' = UIdle
    /\ UNCHANGED <<uRouteVars, uHostVars>>

(* close: flows of the listener end.  A TCP listener forgets its route;    *)
(* the HTTP registry keeps its rows, with no listener to reach them by.    *)
UCloseListener ==
    /\ UAt("close-listener")
    /\ uLive' = [uLive EXCEPT ![uOp.request.ingress] = 0]
    /\ uFlows' = {f \in uFlows : f.ingress # uOp.request.ingress}
    /\ uRegistry' = IF uOp.request.ingress = UTcp
                    THEN [a \in {b \in DOMAIN uRegistry : b.kind # "tcp"} |-> uRegistry[a]]
                    ELSE uRegistry
    /\ UGoes("forget")
    /\ UNCHANGED <<uStored, uConfig, uAddress, uCaddy, uDns, uPhase, uCount>>

UForget ==
    /\ UAt("forget")
    /\ URemove({x \in DOMAIN uStored : uStored[x].request.ingress = uOp.request.ingress})
    /\ UGoes("unconfigure")
    /\ UNCHANGED <<uRegistry, uFlows, uHostVars, uCount>>

UUnconfigure ==
    /\ UAt("unconfigure")
    /\ UWriteConfig(uOp.request.ingress, 0)
    /\ uOp' = UIdle
    /\ UNCHANGED <<uRouteVars, uLive, uAddress, uCaddy, uDns, uPhase, uCount>>

-----------------------------------------------------------------------------
(* The controller.                                                         *)

(* Everything in memory goes; Caddy and the record stay.                   *)
UDown ==
    /\ uLive' = [i \in UIngresses |-> 0]
    /\ uRegistry' = UNothing
    /\ uFlows' = {}
    /\ uOp' = UIdle
    /\ uPhase' = "down"
    /\ UNCHANGED <<uStored, uConfig, uAddress, uCaddy, uDns>>

UStop == UServes /\ UDown /\ UNCHANGED uCount
UCrash == uPhase # "down" /\ UFault /\ UDown

(* externalUrlsPluginFromConfig, and the listeners.                        *)
UStart ==
    /\ uPhase = "down" /\ UCounts("starts", UMaxStarts)
    /\ uLive' = uConfig
    /\ uPhase' = "starting"
    /\ UBegins("start", "stale-caddy", 0, 0)
    /\ UNCHANGED <<uRouteVars, uConfig, uAddress, uCaddy, uDns>>

(* removeStaleManagedCaddy, then ensure, render and compose up.            *)
UStaleCaddy ==
    /\ UAt("stale-caddy")
    /\ uCaddy' = IF uLive[UHttp] = 0 THEN UNoCaddy ELSE uCaddy
    /\ UGoes(IF uLive[UHttp] = 0 THEN "routes" ELSE "dns")
    /\ UNCHANGED <<uRouteVars, uConfig, uLive, uAddress, uDns, uPhase, uCount>>

UEnsureDns ==
    /\ UAt("dns")
    /\ uDns' = uLive[UHttp]
    /\ UGoes("caddy")
    /\ UNCHANGED <<uRouteVars, uConfig, uLive, uAddress, uCaddy, uPhase, uCount>>

UCaddyUp ==
    /\ UAt("caddy")
    /\ uCaddy' = [written |-> TRUE, up |-> TRUE]
    /\ UGoes("routes")
    /\ UNCHANGED <<uRouteVars, uConfig, uLive, uAddress, uDns, uPhase, uCount>>

(* The provider, the build or the daemon refuses: the controller does not  *)
(* start; what was written stays.                                          *)
UStartFails ==
    /\ uOp.stage \in {"stale-caddy", "dns", "caddy"} /\ UFault
    /\ uCaddy' = IF UAt("caddy") THEN [uCaddy EXCEPT !.written = TRUE] ELSE uCaddy
    /\ uLive' = [i \in UIngresses |-> 0]
    /\ uRegistry' = UNothing /\ uFlows' = {} /\ uOp' = UIdle /\ uPhase' = "down"
    /\ UNCHANGED <<uStored, uConfig, uAddress, uDns>>

UInitialize(ids) ==
    /\ UAt("routes") /\ UDeduplicated(ids)
    /\ UTakes(uOp, "reconcile", ids)
    /\ uPhase' = IF ids = {} THEN "up" ELSE uPhase
    /\ UNCHANGED <<uRouteVars, uConfig, uLive, uAddress, uCaddy, uDns, uCount>>

-----------------------------------------------------------------------------
URouteStep ==
    \/ \E r \in URequests : UCreate(r)
    \/ \E ids \in SUBSET DOMAIN uStored : UList(ids) \/ UInitialize(ids)
    \/ \E ids \in SUBSET DOMAIN uStored : \E kind \in {"revoke", "delete", "delete-all"} : URevoke(kind, ids)
    \/ \E id \in DOMAIN uStored : UApprove(id)
    \/ UReconcileSkips \/ UReconcile \/ UReconcileFails \/ URebind \/ URebindFails \/ URenew \/ URenewFails
    \/ UProvision \/ UProvisionFails \/ UStore \/ UStoreFails
    \/ UMark \/ UMarkFails \/ UClose \/ UDeleted
    \/ UApproved \/ UApproveFails \/ USwitch

UHostStep ==
    \/ \E i \in UIngresses, a \in DOMAIN uRegistry : UConnect(i, a)
    \/ \E f \in uFlows : UDisconnect(f)
    \/ \E t \in UTargets : UTargetMoves(t)
    \/ \E c \in UConfigurations : UIngressAdd(c[1], c[2])
    \/ \E i \in UIngresses, cleanup \in BOOLEAN : UIngressRemove(i, cleanup)
    \/ UStopCaddy \/ UStopCaddyFails \/ UCloseListener \/ UForget \/ UUnconfigure
    \/ UStop \/ UCrash \/ UStart \/ UStaleCaddy \/ UEnsureDns \/ UCaddyUp \/ UStartFails

UrlNext == URouteStep \/ UHostStep
UrlSpec == UInit /\ [][UrlNext]_uVars

-----------------------------------------------------------------------------
UApprovals == {"not-required", "pending", "approved", "revoked"}

UrlTypeOK ==
    /\ DOMAIN uStored \subseteq 1..UMaxIds
    /\ \A x \in DOMAIN uStored : uStored[x].request \in URequests /\ uStored[x].approval \in UApprovals
                                 /\ uStored[x].policy \in UPolicies
    /\ uConfig \in [UIngresses -> UPolicies \cup {0}] /\ uLive \in [UIngresses -> UPolicies \cup {0}]
    /\ uDns \in UPolicies \cup {0}
    /\ uPhase \in {"down", "starting", "up"}

(* An entry of the claim that answers at the authority, was let through    *)
(* under the policy the ingress serves, and is not revoked.                *)
UBacked(a, claim) ==
    \E x \in DOMAIN uStored :
        /\ uStored[x].claim = claim /\ a \in UAuthoritiesOf(x)
        /\ UPolicyOf(uStored[x].request) = uStored[x].policy
        /\ IF uStored[x].policy \in UGuarded THEN uStored[x].approval = "approved" ELSE UEnabled(uStored[x].approval)

(* Between operations of the queue, every open connection and every        *)
(* authority a listener would still accept belongs to a stored URL that is *)
(* neither pending nor revoked under the policy now served: approval,      *)
(* revocation, deletion, policy change, failed writes and restarts leave   *)
(* no way in behind them (transitionRouteApproval, reconcileStoredRoute,   *)
(* deleteUrl).                                                             *)
UExposureBacked ==
    UServes =>
        /\ \A f \in uFlows : UBacked(f.authority, f.claim)
        /\ \A a \in DOMAIN uRegistry :
              uRegistry[a].enabled /\ (\E i \in UIngresses : UDocked(i, a) /\ uLive[i] # 0)
                => UBacked(a, uRegistry[a].claim)

(* An open connection goes where the registry now sends its authority: a   *)
(* rebound target closes the connections to its former address             *)
(* (WorkspaceRouteRegistry.provision, TcpIngressListener.provision).       *)
UFlowsFollowTarget ==
    \A f \in uFlows : f.authority \in DOMAIN uRegistry /\ uRegistry[f.authority].claim = f.claim
                      /\ uRegistry[f.authority].upstream = f.upstream

(* No connection outlives the URL it came in by, or the address it went to.*)
UNoStrayFlow == UExposureBacked /\ UFlowsFollowTarget

(* A start restores every stored URL that is not revoked: its authorities  *)
(* are in the registry for it when the controller begins to serve.         *)
UStartRestores ==
    [][uPhase = "starting" /\ uPhase' = "up"
         => \A x \in DOMAIN uStored : uStored[x].approval # "revoked" /\ UPolicyOf(uStored[x].request) # 0
              => \A a \in UAuthoritiesOf(x)' : a \in DOMAIN uRegistry' /\ uRegistry'[a].claim = uStored'[x].claim]_uVars
=============================================================================
