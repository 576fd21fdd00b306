-------------------------- MODULE MCExecutionControl --------------------------
(* Instances of ExecutionControl for TLC.                                   *)
EXTENDS ExecutionControl, TLC

\* Two operators' requests are interchangeable.
RequestSymmetry == Permutations(Requests)
===============================================================================
