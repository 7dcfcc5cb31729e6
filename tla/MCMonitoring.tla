----------------------------- MODULE MCMonitoring -----------------------------
(* Small instances of Monitoring for TLC.  Workers are interchangeable.      *)
EXTENDS MonitoringProps, TLC

Symmetry == Permutations(Workers)
===============================================================================
