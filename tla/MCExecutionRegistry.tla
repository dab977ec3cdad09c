------------------------ MODULE MCExecutionRegistry ------------------------
(* The instance of ExecutionRegistry for TLC. A behaviour plays one of     *)
(* three scenes, so that each part of the registry is driven hard without  *)
(* the product of them all: the registry is stopped, releases are reported *)
(* to changing sinks, or barriers and snapshots observe it. Dispatches     *)
(* begin, run and end in every scene.                                      *)
EXTENDS ExecutionRegistry

VARIABLE scene

MCInit == Init /\ scene \in {"stopping", "releasing", "observing"}

\* Nobody stops, reports or observes but in the scene about it.
MCNext ==
    /\ Next
    /\ UNCHANGED scene
    /\ scene # "stopping" => UNCHANGED callVars
    /\ scene # "releasing" =>
            sink' = NoSink /\ group' = [i \in Ids |-> Unaccounted]
    /\ scene # "observing" => UNCHANGED barrierVars

MCSpec == MCInit /\ [][MCNext]_<<vars, scene>> /\ Fairness
=============================================================================
