------------------------------ MODULE MCCrews ------------------------------
(***************************************************************************)
(* DataPlane with one crew beside Admin in each behaviour: another writer  *)
(* of routes, or a rollout of the gateways.                                *)
(***************************************************************************)
EXTENDS MCDataPlane

CONSTANT RolloutGenerations     \* publications in a behaviour with a rollout

VARIABLE crew

CrewInit == crew \in {"mover", "rollout"} /\ Init

CrewNext ==
    /\ Next
    /\ \/ crew = "mover" /\ rollout' = rollout
       \/ /\ crew = "rollout" /\ mover' = mover
          /\ file'.generation <= RolloutGenerations
    /\ UNCHANGED crew

CrewSpec == CrewInit /\ [][CrewNext]_<<vars, crew>>
=============================================================================
