---------------------------- MODULE TradePermission ----------------------------
(***************************************************************************)
(* What the approval workflow promises about trades, without any of its    *)
(* machinery: permissions to trade a row are given and never taken back,   *)
(* every order uses up a permission of its own, and once a row is closed   *)
(* it stays closed and nothing is ordered for it, whatever permissions are *)
(* left.  Orders are counted: a second order on a permission is a step     *)
(* that this specification does not have.                                  *)
(***************************************************************************)
EXTENDS Naturals

CONSTANTS
  Rows,     \* what is traded
  Askers    \* who may be given a permission

VARIABLES
  given,    \* permissions handed out
  used,     \* orders placed on each permission
  closed    \* rows that are over

vars == <<given, used, closed>>

Permissions == Rows \X Askers

Init ==
  /\ given \subseteq Permissions
  /\ used = [p \in Permissions |-> 0]
  /\ closed = {}

Give(p) ==
  /\ p \notin given
  /\ given' = given \cup {p}
  /\ UNCHANGED <<used, closed>>

Order(p) ==
  /\ p \in given /\ used[p] = 0 /\ p[1] \notin closed
  /\ used' = [used EXCEPT ![p] = 1]
  /\ UNCHANGED <<given, closed>>

Close(S) ==
  /\ closed' = closed \cup S
  /\ UNCHANGED <<given, used>>

Next ==
  \/ \E p \in Permissions : Give(p) \/ Order(p)
  \/ \E S \in SUBSET Rows : Close(S)

Spec == Init /\ [][Next]_vars
===============================================================================
