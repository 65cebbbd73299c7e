------------------------- MODULE DevelopmentGateway -------------------------
(***************************************************************************)
(* dim-development-service (controller-proxy/development-service-*.ts):    *)
(* launchers in an agent share one gateway process that routes external    *)
(* URLs to local ports by authority.  An expose call starts the gateway if *)
(* none answers, takes the lock of its service, adopts the URL of the      *)
(* present route or requests a new one, and puts the route.                *)
(*                                                                         *)
(* A route is a URL, its authority and a local port.  The controller is    *)
(* external: it keeps live URLs with distinct authorities, and may revoke  *)
(* one; a later URL may get the authority of a revoked one.  Removing a    *)
(* lock directory judged stale, live by then, is a fault (GLockLost).      *)
(***************************************************************************)
EXTENDS Naturals, FiniteSets, Sequences

CONSTANTS GServices, GPorts, GAuthorities,
          GCallers,        \* expose invocations
          GMaxGateways,    \* bound on gateway processes
          GMaxUrls,        \* bound on URLs the controller issues
          GMaxFaults,      \* bound on deaths, timeouts, failed saves and lost locks
          GNone

VARIABLES
    gDisk,      \* services.json: route per service, or GNone
    gGates,     \* gateway processes
    gPort,      \* gateway that holds the TCP port, 0: free
    gControl,   \* gateway whose control socket is at the path, 0: none
    gStart,     \* owner of the start lock, or GNone
    gLocks,     \* owner of each service's expose lock, or GNone
    gUrls,      \* URLs issued: authority, live
    gCalls, gFaults

gVars == <<gDisk, gGates, gPort, gControl, gStart, gLocks, gUrls, gCalls, gFaults>>
gFileVars == <<gDisk, gStart, gLocks>>
gNetVars == <<gPort, gControl>>

GInit ==
    /\ gDisk = [s \in GServices |-> GNone]
    /\ gGates = <<>> /\ gPort = 0 /\ gControl = 0
    /\ gStart = GNone /\ gLocks = [s \in GServices |-> GNone]
    /\ gUrls = <<>>
    /\ gCalls = [c \in GCallers |-> [pc |-> "idle", service |-> GNone, port |-> GNone, route |-> GNone, gate |-> 0]]
    /\ gFaults = 0

GFault == gFaults < GMaxFaults /\ gFaults' = gFaults + 1
GAt(c, pc) == gCalls[c].pc = pc
GGoes(c, pc) == gCalls' = [gCalls EXCEPT ![c].pc = pc]
GEnded == {"idle", "done", "failed"}
GLive(c) == c # GNone /\ gCalls[c].pc \notin GEnded

(* gatewayIsReady: the control socket answers.                             *)
GReady == gControl # 0 /\ gGates[gControl].phase = "ready"

(* assertRouteAvailable: no other service has the URL or its authority.    *)
\* Mutant: only the URL is compared, not its authority.
GAvailableById(routes, s, r) ==
    \A t \in GServices \ {s} : routes[t] = GNone \/ routes[t].url # r.url
GAvailable(routes, s, r) ==
    \A t \in GServices \ {s} : routes[t] = GNone \/ (routes[t].url # r.url /\ routes[t].authority # r.authority)

GLoadable == \A s \in GServices : gDisk[s] = GNone \/ GAvailable(gDisk, s, gDisk[s])

-----------------------------------------------------------------------------
(* The gateway process.                                                    *)

(* listen: the routes are loaded before the port is taken.                 *)
GLoad(g) ==
    /\ gGates[g].phase = "spawned"
    /\ gGates' = [gGates EXCEPT ![g].phase = IF GLoadable THEN "loaded" ELSE "gone", ![g].routes = gDisk]
    /\ UNCHANGED <<gFileVars, gNetVars, gUrls, gCalls, gFaults>>

GBind(g) ==
    /\ gGates[g].phase = "loaded"
    /\ gGates' = [gGates EXCEPT ![g].phase = IF gPort = 0 THEN "bound" ELSE "gone"]
    /\ gPort' = IF gPort = 0 THEN g ELSE gPort
    /\ UNCHANGED <<gFileVars, gControl, gUrls, gCalls, gFaults>>

GListen(g) ==
    /\ gGates[g].phase = "bound"
    /\ gGates' = [gGates EXCEPT ![g].phase = "ready"]
    /\ gControl' = g
    /\ UNCHANGED <<gFileVars, gPort, gUrls, gCalls, gFaults>>

(* setRoute, one at a time: check, save, then the routes served; a gateway *)
(* that has closed its servers still ends the updates it accepted.         *)
GUpdates(g) == gGates[g].phase \in {"ready", "closing", "closed"} /\ gGates[g].queue # <<>>
GHead(g) == Head(gGates[g].queue)
GSaved(g) == [gGates[g].routes EXCEPT ![GHead(g).service] = GHead(g).route]

GApply(g) ==
    /\ GUpdates(g) /\ ~gGates[g].saving
    /\ IF GAvailable(gGates[g].routes, GHead(g).service, GHead(g).route)
       THEN /\ gDisk' = GSaved(g)
            /\ gGates' = [gGates EXCEPT ![g].saving = TRUE]
            /\ UNCHANGED gCalls
       ELSE /\ gGates' = [gGates EXCEPT ![g].queue = Tail(@)]
            /\ gCalls' = [gCalls EXCEPT ![GHead(g).caller].pc = IF @ = "answer" THEN "release" ELSE @]
            /\ UNCHANGED gDisk
    /\ UNCHANGED <<gStart, gLocks, gNetVars, gUrls, gFaults>>

GServe(g) ==
    /\ GUpdates(g) /\ gGates[g].saving
    /\ gGates' = [gGates EXCEPT ![g].routes[GHead(g).service] = GHead(g).route,
                                ![g].saving = FALSE, ![g].queue = Tail(@)]
    /\ gCalls' = [gCalls EXCEPT ![GHead(g).caller].pc = IF @ = "answer" THEN "exposed" ELSE @]
    /\ UNCHANGED <<gFileVars, gNetVars, gUrls, gFaults>>

(* saveRoutes fails before or after its rename: the routes served stay.    *)
GSaveFails(g) ==
    /\ GUpdates(g) /\ GFault
    /\ gGates' = [gGates EXCEPT ![g].saving = FALSE, ![g].queue = Tail(@)]
    /\ gCalls' = [gCalls EXCEPT ![GHead(g).caller].pc = IF @ = "answer" THEN "release" ELSE @]
    /\ UNCHANGED <<gFileVars, gNetVars, gUrls>>

(* SIGTERM: the control server stops, waits for the callers that are still *)
(* connected, and the port is freed.                                       *)
GStop(g) ==
    /\ gGates[g].phase = "ready" /\ GFault
    /\ gGates' = [gGates EXCEPT ![g].phase = "closing"]
    /\ gControl' = 0
    /\ UNCHANGED <<gFileVars, gPort, gUrls, gCalls>>

GClosed(g) ==
    /\ gGates[g].phase = "closing" /\ \A c \in GCallers : ~(GAt(c, "answer") /\ gCalls[c].gate = g)
    /\ gGates' = [gGates EXCEPT ![g].phase = "closed"]
    /\ gPort' = 0 /\ gControl' = 0
    /\ UNCHANGED <<gFileVars, gUrls, gCalls, gFaults>>

(* Death of the process: its callers lose their connections.               *)
GKilled(g) ==
    /\ gGates[g].phase # "gone" /\ GFault
    /\ gGates' = [gGates EXCEPT ![g].phase = "gone", ![g].queue = <<>>, ![g].saving = FALSE]
    /\ gPort' = IF gPort = g THEN 0 ELSE gPort
    /\ gCalls' = [c \in GCallers |-> IF GAt(c, "answer") /\ gCalls[c].gate = g
                                     THEN [gCalls[c] EXCEPT !.pc = "release"] ELSE gCalls[c]]
    /\ UNCHANGED <<gFileVars, gControl, gUrls>>

-----------------------------------------------------------------------------
(* ensureDevelopmentServiceGateway.                                        *)

GExpose(c, s, port) ==
    /\ GAt(c, "idle")
    /\ gCalls' = [gCalls EXCEPT ![c] = [pc |-> "ensure", service |-> s, port |-> port, route |-> GNone, gate |-> 0]]
    /\ UNCHANGED <<gFileVars, gGates, gNetVars, gUrls, gFaults>>

GFound(c) ==
    /\ gCalls[c].pc \in {"ensure", "start", "waiting"} /\ GReady
    /\ GGoes(c, "lock")
    /\ gStart' = IF gStart = c THEN GNone ELSE gStart
    /\ UNCHANGED <<gDisk, gLocks, gGates, gNetVars, gUrls, gFaults>>

(* acquireStartLock: a lock of a dead owner is replaced; with a live one   *)
(* the caller waits for its gateway.                                       *)
GTakeStart(c) ==
    /\ GAt(c, "ensure") /\ ~GReady
    /\ gStart' = IF GLive(gStart) THEN gStart ELSE c
    /\ GGoes(c, IF GLive(gStart) THEN "waiting" ELSE "start")
    /\ UNCHANGED <<gDisk, gLocks, gGates, gNetVars, gUrls, gFaults>>

GSpawn(c) ==
    /\ GAt(c, "start") /\ ~GReady /\ Len(gGates) < GMaxGateways
    /\ gGates' = Append(gGates, [phase |-> "spawned", routes |-> gDisk, queue |-> <<>>, saving |-> FALSE])
    /\ GGoes(c, "waiting")
    /\ UNCHANGED <<gFileVars, gNetVars, gUrls, gFaults>>

(* waitUntilReady gives up after five seconds.                             *)
GStartTimesOut(c) ==
    /\ GAt(c, "waiting") /\ ~GReady
    /\ gStart' = IF gStart = c THEN GNone ELSE gStart
    /\ GGoes(c, "failed")
    /\ UNCHANGED <<gDisk, gLocks, gGates, gNetVars, gUrls, gFaults>>

-----------------------------------------------------------------------------
(* exposeDevelopmentService.                                               *)

GLock(c) ==
    /\ GAt(c, "lock") /\ ~GLive(gLocks[gCalls[c].service])
    /\ gLocks' = [gLocks EXCEPT ![gCalls[c].service] = c]
    /\ GGoes(c, "get")
    /\ UNCHANGED <<gDisk, gStart, gGates, gNetVars, gUrls, gFaults>>

GLockLost(s) ==
    /\ GLive(gLocks[s]) /\ GFault
    /\ gLocks' = [gLocks EXCEPT ![s] = GNone]
    /\ UNCHANGED <<gDisk, gStart, gGates, gNetVars, gUrls, gCalls>>

(* releaseOwnedLock, with the outcome.                                     *)
GUnlock(c) ==
    /\ gCalls[c].pc \in {"release", "exposed"}
    /\ gLocks' = [gLocks EXCEPT ![gCalls[c].service] = IF @ = c THEN GNone ELSE @]
    /\ GGoes(c, IF GAt(c, "exposed") THEN "done" ELSE "failed")
    /\ UNCHANGED <<gDisk, gStart, gGates, gNetVars, gUrls, gFaults>>

(* getControlledRoute.                                                     *)
GGet(c) ==
    /\ GAt(c, "get")
    /\ LET route == IF GReady THEN gGates[gControl].routes[gCalls[c].service] ELSE GNone IN
       gCalls' = [gCalls EXCEPT ![c].pc = IF ~GReady THEN "release" ELSE IF route = GNone THEN "create" ELSE "list",
                                ![c].route = route]
    /\ UNCHANGED <<gFileVars, gGates, gNetVars, gUrls, gFaults>>

(* listExternalUrls and adoptCurrentRoute: a URL still listed is kept.     *)
GListed == {u \in 1..Len(gUrls) : gUrls[u].live}
GKept(c) == gCalls[c].route.url \in GListed

GAdopt(c) ==
    /\ GAt(c, "list")
    /\ gCalls' = IF GKept(c)
                 THEN [gCalls EXCEPT ![c].pc = "put", ![c].route.port = gCalls[c].port]
                 ELSE [gCalls EXCEPT ![c].pc = "create"]
    /\ UNCHANGED <<gFileVars, gGates, gNetVars, gUrls, gFaults>>

GLiveAuthorities == {gUrls[u].authority : u \in GListed}
GRouteOf(c, u, a) == [url |-> u, authority |-> a, port |-> gCalls[c].port]

(* createExternalUrl.                                                      *)
GCreate(c) ==
    /\ GAt(c, "create") /\ Len(gUrls) < GMaxUrls
    /\ \E a \in GAuthorities \ GLiveAuthorities :
         /\ gUrls' = Append(gUrls, [authority |-> a, live |-> TRUE])
         /\ gCalls' = [gCalls EXCEPT ![c].pc = "put", ![c].route = GRouteOf(c, Len(gUrls) + 1, a)]
    /\ UNCHANGED <<gFileVars, gGates, gNetVars, gFaults>>

(* The proxy or the controller denies the registration.                    *)
GCreateFails(c) ==
    /\ GAt(c, "create") /\ GFault
    /\ GGoes(c, "release")
    /\ UNCHANGED <<gFileVars, gGates, gNetVars, gUrls>>

(* setControlledRoute: the request joins the gateway's updates.            *)
GPut(c) ==
    /\ GAt(c, "put")
    /\ IF GReady
       THEN /\ gGates' = [gGates EXCEPT ![gControl].queue = Append(@,
                            [caller |-> c, service |-> gCalls[c].service, route |-> gCalls[c].route])]
            /\ gCalls' = [gCalls EXCEPT ![c].pc = "answer", ![c].gate = gControl]
       ELSE GGoes(c, "release") /\ UNCHANGED gGates
    /\ UNCHANGED <<gFileVars, gNetVars, gUrls, gFaults>>

(* The caller gives up after two seconds; the update goes on.              *)
GPutTimesOut(c) ==
    /\ GAt(c, "answer") /\ GFault
    /\ GGoes(c, "release")
    /\ UNCHANGED <<gFileVars, gGates, gNetVars, gUrls>>

GCallerDies(c) ==
    /\ GLive(c) /\ GFault
    /\ GGoes(c, "failed")
    /\ UNCHANGED <<gFileVars, gGates, gNetVars, gUrls>>

(* The controller revokes a URL.                                           *)
GRevoked(u) ==
    /\ gUrls[u].live
    /\ gUrls' = [gUrls EXCEPT ![u].live = FALSE]
    /\ UNCHANGED <<gFileVars, gGates, gNetVars, gCalls, gFaults>>

-----------------------------------------------------------------------------
GatewayNext ==
    \/ \E c \in GCallers, s \in GServices, port \in GPorts : GExpose(c, s, port)
    \/ \E c \in GCallers :
         \/ GFound(c) \/ GTakeStart(c) \/ GSpawn(c) \/ GStartTimesOut(c) \/ GLock(c) \/ GUnlock(c) \/ GGet(c)
         \/ GAdopt(c) \/ GCreate(c) \/ GCreateFails(c) \/ GPut(c) \/ GPutTimesOut(c) \/ GCallerDies(c)
    \/ \E g \in 1..Len(gGates) :
         \/ GLoad(g) \/ GBind(g) \/ GListen(g) \/ GApply(g) \/ GServe(g) \/ GSaveFails(g)
         \/ GStop(g) \/ GClosed(g) \/ GKilled(g)
    \/ \E s \in GServices : GLockLost(s)
    \/ \E u \in 1..Len(gUrls) : GRevoked(u)

GatewaySpec == GInit /\ [][GatewayNext]_gVars

-----------------------------------------------------------------------------
GRoutes == [url : 1..GMaxUrls, authority : GAuthorities, port : GPorts] \cup {GNone}

GatewayTypeOK ==
    /\ gDisk \in [GServices -> GRoutes]
    /\ \A g \in 1..Len(gGates) : gGates[g].routes \in [GServices -> GRoutes]
    /\ gPort \in 0..Len(gGates) /\ gControl \in 0..Len(gGates)
    /\ gLocks \in [GServices -> GCallers \cup {GNone}] /\ gFaults \in 0..GMaxFaults

(* The saved routes never give one URL or one authority to two services,   *)
(* so no gateway refuses its own file and every authority has one port,    *)
(* through concurrent exposes, late updates, revoked URLs whose authority  *)
(* is issued again, and gateways that overlap (setRoute,                   *)
(* assertRouteAvailable, loadRoutes).                                      *)
GRoutesExclusive ==
    \A s, t \in GServices : s # t /\ gDisk[s] # GNone /\ gDisk[t] # GNone
        => gDisk[s].url # gDisk[t].url /\ gDisk[s].authority # gDisk[t].authority
=============================================================================
