---------------------------- MODULE MonitoringProps ----------------------------
(* What the monitoring of a trade guarantees, and a claim it does not keep. *)
EXTENDS Monitoring

Live == {"pending", "open"}

\* No handler holds a copy of the row it has still to commit.
Quiet ==
  /\ \A w \in Workers : check[w].pc \in {"idle", "send", "ack"}
  /\ rec.pc \in {"idle", "send"} /\ req.pc \in {"idle", "send"} /\ sweep = Idle

\* An ended row that nobody is working on is over: no message still queued for it or
\* delivered twice, no task of the beat schedule and no request takes it up again
\* (the status tests of every handler).
EndedStaysEnded ==
  [][row.status \in Terminal /\ Quiet =>
       Quiet' /\ row' = [row EXCEPT !.next = row'.next]]_vars

\* A row in COMMUNICATION_ERROR always has a next check, whoever overtook whom: its
\* retry chain can be found dead and restarted (_reschedule_orphaned_monitoring).
RetryIsScheduled == row.status = "COMMUNICATION_ERROR" => row.next # "none"

\* The step in which a check, or the reconciliation of a row it found MONITORING or
\* in COMMUNICATION_ERROR, commits the end of the trade.
CheckBooks(w, outcome) ==
  /\ check[w].pc = "commit" /\ check'[w].pc = "ack"
  /\ row'.outcome = outcome
ReconcileBooks ==
  /\ rec.pc = "book" /\ rec.status \in Monitorable
  /\ rec' # rec /\ row' # row

\* has_active_symbol asks twice: what the reconciliation books as over is over, unless
\* an error was swallowed, the order was too new for the broker's list, or it filled
\* between the two questions and left no order behind.
NoFalseReconciliation ==
  [][ReconcileBooks /\ trade \in Live => rec.misled # {}]_vars

\* A check that gets its answers from the broker books a trade as executed only when
\* nothing of it is alive there (it may have been cancelled, not closed).
ExecutedIsOver ==
  [][\A w \in Workers : CheckBooks(w, "executed") => trade \notin Live]_vars

\* A trade that is over at the broker leaves the monitored states, whatever failed.
EndedTradeIsBooked ==
  trade \in {"closed", "void"} ~> row.status \notin Monitorable

\* A monitored row is never forgotten: when its chain of checks has died, the
\* reconciliation starts another one, or books the trade.
ChainIsRestarted ==
  row.status = "MONITORING" ~>
    \/ row.status # "MONITORING"
    \/ queue > 0
    \/ \E w \in Workers : check[w].pc \in {"orders", "position"}

-------------------------------------------------------------------------------
(* A claim of the comments that the code does not keep                     *)

\* status="cancelled", "Limit order was never filled": such a trade was not filled.
CancelledWasNeverFilled ==
  [][\A w \in Workers : CheckBooks(w, "cancelled") => trade \in {"pending", "void"}]_vars
===============================================================================
