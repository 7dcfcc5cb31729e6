------------------------------ MODULE MCAuthoring ------------------------------
(* A small instance of the authoring pages for TLC.                          *)
EXTENDS Authoring
CONSTANTS p1, p2, none, t1
===============================================================================
