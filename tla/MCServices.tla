------------------------------ MODULE MCServices ------------------------------
(* Safety of the CI services for TLC: the root CI service with two hosts, the   *)
(* QEMU scheduler, the delivery of review events, the standalone review stack,  *)
(* the leases of native Git's transports and its record files.  The parts share *)
(* no variable, so one run explores each of them by itself: subject names the   *)
(* part that moves and the others keep their initial state.                     *)
EXTENDS RootCi, QemuScheduler, EventDelivery, StandaloneCi, TransportLeases,
        RecordFiles

VARIABLE subject

CapacitySymmetry == Permutations(Capacities)

HeadsOfEvents == <<0, 1>>

ServicesInit ==
    /\ subject \in {"root CI", "QEMU", "delivery", "standalone", "transport", "files"}
    /\ Init /\ QemuInit /\ DeliveryInit /\ StandaloneInit /\ TransportInit
    /\ FilesInit

ServicesNext ==
    \/ subject = "root CI" /\ Next /\ UNCHANGED <<subject, qVars, dVars, aVars, tVars, fVars>>
    \/ subject = "QEMU" /\ QemuNext /\ UNCHANGED <<subject, vars, dVars, aVars, tVars, fVars>>
    \/ subject = "delivery" /\ DeliveryNext /\ UNCHANGED <<subject, vars, qVars, aVars, tVars, fVars>>
    \/ subject = "standalone" /\ StandaloneNext /\ UNCHANGED <<subject, vars, qVars, dVars, tVars, fVars>>
    \/ subject = "transport" /\ TransportNext /\ UNCHANGED <<subject, vars, qVars, dVars, aVars, fVars>>
    \/ subject = "files" /\ FilesNext /\ UNCHANGED <<subject, vars, qVars, dVars, aVars, tVars>>

ServicesSpec ==
    ServicesInit /\ [][ServicesNext]_<<subject, vars, qVars, dVars, aVars, tVars, fVars>>
==============================================================================
