------------------------------- MODULE MCHosts --------------------------------
(* Safety of the host side for TLC: Project setup, the lifecycle lock, work-    *)
(* spaces, the two installers, external URLs, the managed proxy with its        *)
(* development gateway, and command sessions.  The parts share no variable, so  *)
(* one run explores each of them by itself: subject names the part that moves   *)
(* and the others keep their initial state.                                     *)
EXTENDS ProjectSetup, LifecycleLock, Workspaces, ControlPlaneInstall, ExternalUrls,
        RuntimeInstall, ManagedProxy, DevelopmentGateway, CommandSessions

VARIABLE subject

(* An HTTP service by name, and a TCP service by port *)
UrlRequests ==
    {[ingress |-> "h", slug |-> 1, target |-> "t", path |-> 0],
     [ingress |-> "k", slug |-> 0, target |-> "t", path |-> 0]}

(* Bound on a Workspace's operations and the promotions of its root together *)
WMaxTurns == 3

HostsInit ==
    /\ subject \in {"setup", "lock", "workspace", "control plane", "urls", "runtime", "proxy", "gateway",
                    "session"}
    /\ SetupInit /\ LockInit /\ WorkspaceInit /\ InstallInit /\ UInit /\ IInit /\ PInit /\ GInit /\ SessionInit
    /\ subject = "runtime" \/ iLink = "absent"
    /\ subject = "urls" \/ uConfig[UHttp] = 1

HostsNext ==
    \/ /\ subject = "setup" /\ SetupNext
       /\ UNCHANGED <<subject, kVars, wVars, cVars, uVars, iVars, pVars, gVars, nVars>>
    \/ /\ subject = "lock" /\ LockNext
       /\ UNCHANGED <<subject, sVars, wVars, cVars, uVars, iVars, pVars, gVars, nVars>>
    \/ /\ subject = "workspace" /\ WorkspaceNext
       /\ wCount'.ops + wHead' =< WMaxTurns
       /\ UNCHANGED <<subject, sVars, kVars, cVars, uVars, iVars, pVars, gVars, nVars>>
    \/ /\ subject = "control plane" /\ InstallNext
       /\ UNCHANGED <<subject, sVars, kVars, wVars, uVars, iVars, pVars, gVars, nVars>>
    \/ /\ subject = "urls" /\ UrlNext
       /\ UNCHANGED <<subject, sVars, kVars, wVars, cVars, iVars, pVars, gVars, nVars>>
    \/ /\ subject = "runtime" /\ RuntimeNext
       /\ UNCHANGED <<subject, sVars, kVars, wVars, cVars, uVars, pVars, gVars, nVars>>
    \/ /\ subject = "proxy" /\ ProxyNext
       /\ UNCHANGED <<subject, sVars, kVars, wVars, cVars, uVars, iVars, gVars, nVars>>
    \/ /\ subject = "gateway" /\ GatewayNext
       /\ UNCHANGED <<subject, sVars, kVars, wVars, cVars, uVars, iVars, pVars, nVars>>
    \/ /\ subject = "session" /\ SessionNext
       /\ UNCHANGED <<subject, sVars, kVars, wVars, cVars, uVars, iVars, pVars, gVars>>

HostsSpec ==
    HostsInit /\ [][HostsNext]_<<subject, sVars, kVars, wVars, cVars, uVars, iVars, pVars, gVars, nVars>>
==============================================================================
