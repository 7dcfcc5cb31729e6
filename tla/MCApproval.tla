------------------------------ MODULE MCApproval ------------------------------
(* Small instances of Approval for TLC.                                      *)
EXTENDS ApprovalProps, TLC

Symmetry == Permutations(Responders) \cup Permutations(Workers)
===============================================================================
