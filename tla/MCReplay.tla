------------------------------- MODULE MCReplay -------------------------------
(* A small instance of a backtest run for TLC.                               *)
EXTENDS Replay
===============================================================================
