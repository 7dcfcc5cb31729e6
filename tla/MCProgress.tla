------------------------------ MODULE MCProgress ------------------------------
(* A small instance of the pages that have to make progress, for TLC.        *)
EXTENDS Progress

MCZones == {-2, 2}
===============================================================================
