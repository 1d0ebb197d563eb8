----------------------------- MODULE MCProgress -----------------------------
(***************************************************************************)
(* What must eventually happen in the ownership of leases and in the data  *)
(* plane.  The two share no state, so a behaviour runs one of them, the    *)
(* focus, under its own fairness.                                          *)
(***************************************************************************)
EXTENDS MCOwnershipLease

CONSTANTS Account, User, Request, Slot, ForceStop, Actors

VARIABLES focus, catalog, route, file, loaded, running, selection, edge, request,
          container, op, mover, rollout

Plane == INSTANCE DataPlane

planeVars == <<catalog, route, file, loaded, running, selection, edge, request,
               container, op, mover, rollout>>

(* In a behaviour of the leases the plane rests in one initial state. *)
ProgressInit ==
    /\ focus \in {"leases", "plane"} /\ Init /\ Plane!Init
    /\ focus = "leases" => /\ selection = CHOOSE s \in Slot : TRUE
                           /\ route = [u \in User |-> CHOOSE a \in Account : TRUE]

ProgressNext ==
    /\ \/ focus = "leases" /\ Next /\ UNCHANGED planeVars
       \/ focus = "plane" /\ Plane!Next /\ UNCHANGED vars
    /\ UNCHANGED focus

InFocus(f, A) == focus = f /\ A

ProgressSpec ==
    /\ ProgressInit
    /\ [][ProgressNext]_<<focus, vars, planeVars>>
    /\ \A p \in Process : /\ SF_vars(InFocus("leases", Heartbeat(p)))
                          /\ WF_vars(InFocus("leases", EndFenced(p)))
    /\ \A s \in Slot : WF_planeVars(InFocus("plane", Plane!Load(s)))
    /\ WF_planeVars(InFocus("plane", Plane!EdgeRefresh))
    /\ WF_planeVars(InFocus("plane", Plane!Manager))

(* Every published snapshot reaches the slot in service (see DataPlane).   *)
PublicationReachesClients == Plane!PublicationReachesClients

(* An account operation ends although a client may hold its stream for     *)
(* ever (see DataPlane).                                                   *)
MaintenanceEnds == Plane!MaintenanceEnds
=============================================================================
