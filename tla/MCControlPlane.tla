--------------------------- MODULE MCControlPlane ---------------------------
(***************************************************************************)
(* One instance of every part that the processes of the control plane use  *)
(* on their own: leases, the store's key and secrets, the status of        *)
(* accounts, the access log, teams, the configs of the accounts.  They     *)
(* share no state in these models, so a behaviour runs one of them, the    *)
(* focus.                                                                  *)
(***************************************************************************)
EXTENDS MCOwnershipLease, StoreBootstrap, AccountStatus, LogFiles, Teams, Projection

CONSTANT Foci               \* the parts a run covers

VARIABLE focus

MCVars == <<focus, vars, keepVars, statusVars, logVars, teamVars, projectionVars>>

MCInit ==
    /\ focus \in Foci
    /\ Init /\ StatusInit /\ LogInit /\ TeamsInit
    /\ KeepInit /\ (focus # "store" => schema = 0)
    /\ ProjectionInit
    /\ focus # "files" => rows = NoRows /\ \A a \in Cpa : had[a] = "none"

LeaseStep == focus = "leases" /\ Next
             /\ UNCHANGED <<keepVars, statusVars, logVars, teamVars, projectionVars>>
StoreStep == focus = "store" /\ KeepNext
             /\ UNCHANGED <<vars, statusVars, logVars, teamVars, projectionVars>>
StatusStep == focus = "status" /\ StatusNext
              /\ UNCHANGED <<vars, keepVars, logVars, teamVars, projectionVars>>
LogStep == focus = "logs" /\ LogNext
           /\ UNCHANGED <<vars, keepVars, statusVars, teamVars, projectionVars>>
TeamStep == focus = "teams" /\ TeamsNext
            /\ UNCHANGED <<vars, keepVars, statusVars, logVars, projectionVars>>
FilesStep == focus = "files" /\ ProjectionNext
             /\ UNCHANGED <<vars, keepVars, statusVars, logVars, teamVars>>

MCNext ==
    /\ UNCHANGED focus
    /\ LeaseStep \/ StoreStep \/ StatusStep \/ LogStep \/ TeamStep \/ FilesStep

MCSpec == MCInit /\ [][MCNext]_MCVars
=============================================================================
