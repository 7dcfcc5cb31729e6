---------------------------- MODULE MCDispatcher ----------------------------
(* Symmetry of the instances, the pipelines and the rows. *)
EXTENDS DispatcherProps, TLC

Symmetry == Permutations(Instances) \cup Permutations(Pipelines) \cup Permutations(Rows)
===============================================================================
