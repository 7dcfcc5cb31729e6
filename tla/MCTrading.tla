------------------------------- MODULE MCTrading -------------------------------
(* A small instance of the trading parts for TLC.                            *)
EXTENDS Trading

MCPipelines == {1, 2}
MCAmounts == {-1, 0, 2}
===============================================================================
