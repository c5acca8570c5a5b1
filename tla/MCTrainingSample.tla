-------------------------- MODULE MCTrainingSample --------------------------
(* Deployments of the training sample for TLC: one trainer with two        *)
(* workflows at a time, two and three trainers with one.                   *)
EXTENDS TrainingSample

MCDeployments == {[num |-> 1, wfs |-> 1], [num |-> 1, wfs |-> 2],
                  [num |-> 2, wfs |-> 1], [num |-> 3, wfs |-> 1]}
=============================================================================
