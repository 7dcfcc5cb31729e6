------------------------------ MODULE Monitoring ------------------------------
(***************************************************************************)
(* The life of one trade from the moment its executions row is MONITORING: *)
(* the schedule_monitoring_check task chain, reconcile_user_trades, the    *)
(* cleanup of stale executions and the user's cancel, close, resume and    *)
(* reconcile requests, with the broker they all ask.                       *)
(*                                                                         *)
(* Every handler loads the row, talks to the broker and commits at the     *)
(* end.  A commit writes the columns that differ from the copy the handler *)
(* loaded; result is one JSON column, rewritten whole from that copy.      *)
(* version is incremented but never compared.                              *)
(***************************************************************************)
EXTENDS Naturals

CONSTANTS
  Workers,        \* Celery workers that run monitoring checks
  Limit,          \* a limit bracket order (the strategy has targets), else a market one
  Legs,           \* the broker keeps the bracket's legs as orders of the symbol
  TradeIds,       \* the broker's positions carry a trade id
  SwallowedCalls, \* broker calls whose errors come back as an empty answer
  EmergencyExits, \* whether an exit condition may come true
  UserOps,        \* what the user may ask for
  ErrorLimit,     \* API errors before COMMUNICATION_ERROR (5)
  MaxRetries,     \* API errors before the monitoring gives up (60)
  MaxQueued,      \* bound on equal queued messages that are told apart
  MaxFaults       \* bound on failing broker calls, crashes and lost messages

ASSUME MonitoringAssumption ==
  /\ {Limit, Legs, TradeIds, EmergencyExits} \subseteq BOOLEAN
  /\ Legs => Limit
  /\ SwallowedCalls \subseteq {"get_position", "get_orders"}
  /\ UserOps \subseteq {"cancel", "close", "resume", "reconcile"}
  /\ ErrorLimit \in Nat \ {0} /\ MaxRetries \in Nat /\ ErrorLimit <= MaxRetries
  /\ MaxQueued \in Nat \ {0} /\ MaxFaults \in Nat

VARIABLES
  row,      \* the executions row
  queue,    \* schedule_monitoring_check messages
  check,    \* the check each worker runs
  rec,      \* the reconcile_user_trades task
  req,      \* the user's request
  sweep,    \* cleanup_stale_running_executions
  trade,    \* the trade at the broker
  age,      \* since the row started and since its order was placed
  faults

vars == <<row, queue, check, rec, req, sweep, trade, age, faults>>

Statuses == {"MONITORING", "COMMUNICATION_ERROR", "NEEDS_RECONCILIATION",
             "COMPLETED", "FAILED", "CANCELLED"}
Monitorable == {"MONITORING", "COMMUNICATION_ERROR"}
Terminal == {"COMPLETED", "FAILED", "CANCELLED"}
Outcomes == {"none", "executed", "cancelled", "needs_reconciliation"}

\* trade_execution: does it know the order and the trade, was a fill seen, api_error_count.
TradeExecutions ==
  [order : BOOLEAN, trade : BOOLEAN, filled : BOOLEAN, errors : 0 .. MaxRetries]

\* next: next_check_at, absent, to come, or more than two minutes ago.
Rows == [status : Statuses, next : {"none", "due", "overdue"},
         outcome : Outcomes, exec : TradeExecutions]

\* What a check will commit.
Verdicts == {"continue", "retry", "comm_error", "cancelled", "executed",
             "needs_reconciliation"}

\* What a handler does, with the columns of its copy of the row that it still uses;
\* hadNext: next_check_at was set when the handler loaded the row.
Idle == [pc |-> "idle"]
RunningChecks ==
  [pc : {"orders", "active position", "active orders", "bracket", "pending",
         "position", "exit", "commit"},
   status : Monitorable, hadNext : BOOLEAN, outcome : Outcomes,
   exec : TradeExecutions, verdict : Verdicts]
Checks == [pc : {"idle", "send", "ack"}] \cup RunningChecks

\* misled is a history: why the broker's two answers may miss a trade that is alive.
Reasons == {"swallowed", "unlisted", "filled between"}
RunningReconciliations ==
  [pc : {"position", "orders", "active", "book"}, status : Statuses \ Terminal,
   next : {"none", "due", "overdue"}, exec : TradeExecutions, misled : SUBSET Reasons]
Reconciliations == [pc : {"idle", "send"}] \cup RunningReconciliations
RunningRequests ==
  [pc : {"close", "closed", "resume", "reconcile"}, hadNext : BOOLEAN,
   exec : TradeExecutions]
Requests == [pc : {"idle", "send", "cancel"}] \cup RunningRequests
Sweeps == {Idle} \cup [pc : {"commit"}, hadNext : BOOLEAN, outcome : Outcomes]

TypeOK ==
  /\ row \in Rows
  /\ queue \in 0 .. MaxQueued
  /\ check \in [Workers -> Checks]
  /\ rec \in Reconciliations
  /\ req \in Requests
  /\ sweep \in Sweeps
  /\ trade \in {"pending", "open", "closed", "void"}
  /\ age \in {"grace", "new", "settled", "stale"}
  /\ faults \in 0 .. MaxFaults

\* age is "grace" while the row started less than three minutes ago; its order may be
\* much younger (started_at is set before the agents run, and before a wait for
\* approval): "new" is an order that the broker's books may lag behind.
Fresh == age \in {"grace", "new"}

\* The executor's commit, after a broker call that took the order, filled it at once
\* or raised (was the order placed or not?).
Init ==
  /\ \E placed, filled \in BOOLEAN :
       /\ filled => placed /\ ~Limit
       /\ row = [status |-> "MONITORING", next |-> "due", outcome |-> "none",
                 exec |-> [order |-> placed, trade |-> filled /\ TradeIds,
                           filled |-> filled, errors |-> 0]]
       /\ trade \in IF filled THEN {"open"}
                    ELSE IF placed THEN {"pending"} ELSE {"pending", "void"}
  /\ queue = 1
  /\ check = [w \in Workers |-> Idle]
  /\ rec = Idle /\ req = Idle /\ sweep = Idle
  /\ age \in {"grace", "new"}
  /\ faults = 0

-------------------------------------------------------------------------------
(* The row and the queue                                                   *)

\* A commit writes a column only if it differs from the copy the handler loaded.
\* next_check_at is a time: a new one always differs.
Status(loaded, new) == IF new = loaded THEN row.status ELSE new
Cleared(hadNext) == IF hadNext THEN "none" ELSE row.next

Enqueued == IF queue < MaxQueued THEN queue + 1 ELSE queue

-------------------------------------------------------------------------------
(* The broker                                                              *)

\* Is there a position; an order of the symbol; the row's own order, in the answer?
\* A new order may not be listed yet; the parent of a filled bracket may or may not be.
Truth(question) ==
  LET listed == trade = "pending" \/ (trade = "open" /\ Legs) IN
  CASE question = "position" -> {trade = "open"}
    [] question = "orders" -> {listed} \cup (IF Fresh THEN {FALSE} ELSE {})
    [] question = "own order" ->
         {listed} \cup (IF Fresh \/ trade = "open" THEN {FALSE} ELSE {})

Call(question) == IF question = "position" THEN "get_position" ELSE "get_orders"

\* Mutant: an error always reads as an empty answer.
SaysSwallowing(question, answer) ==
  \/ /\ \E b \in Truth(question) : answer = IF b THEN "yes" ELSE "no"
     /\ UNCHANGED faults
  \/ faults < MaxFaults /\ faults' = faults + 1 /\ answer = "no"

\* The broker says yes, no or (a fault) raises, unless it swallows the error.
Says(question, answer) ==
  \/ /\ \E b \in Truth(question) : answer = IF b THEN "yes" ELSE "no"
     /\ UNCHANGED faults
  \/ /\ faults < MaxFaults /\ faults' = faults + 1
     /\ answer = IF Call(question) \in SwallowedCalls THEN "no" ELSE "error"

\* get_trade_details: open or cancelled order, closed trade, filled order without
\* closing data, or not found (an error too).
Details ==
  {"missing"} \cup
  CASE trade = "pending" -> {"open"}
    [] trade = "open" -> {"open", "no closing data"}
    [] trade = "closed" -> {"closed", "no closing data"}
    [] trade = "void" -> {"cancelled"}

-------------------------------------------------------------------------------
(* schedule_monitoring_check                                               *)

\* Mutant: the status of the row is not looked at.
AnyStatus(status) == status \in Statuses

\* _load_execution: a message for any other row is dropped.
MayMonitor(status) == status \in Monitorable

TakeCheck(w) ==
  /\ check[w] = Idle /\ queue > 0
  /\ queue' = queue - 1
  /\ IF MayMonitor(row.status)
       THEN check' = [check EXCEPT ![w] =
              [pc |-> IF row.exec.order /\ ~row.exec.trade THEN "orders" ELSE "position",
               status |-> row.status, hadNext |-> row.next # "none",
               outcome |-> row.outcome, exec |-> row.exec, verdict |-> "continue"]]
       ELSE UNCHANGED check
  /\ UNCHANGED <<row, rec, req, sweep, trade, age, faults>>

Goto(w, pc) == check' = [check EXCEPT ![w].pc = pc]
GotoWith(w, pc, exec) == check' = [check EXCEPT ![w].pc = pc, ![w].exec = exec]
Decide(w, exec, verdict) ==
  check' = [check EXCEPT ![w].pc = "commit", ![w].exec = exec, ![w].verdict = verdict]

\* _handle_api_error.
ApiError(w) ==
  LET errors == check[w].exec.errors + 1 IN
  Decide(w, [check[w].exec EXCEPT !.errors = IF errors > MaxRetries THEN @ ELSE errors],
         IF errors >= ErrorLimit THEN "comm_error" ELSE "retry")

\* The broker's books may lag for a minute after the order was placed.
AfterGrace(w, exec) ==
  IF Fresh THEN Decide(w, exec, "continue") ELSE GotoWith(w, "position", exec)

\* An answer to get_orders resets the error counter.
GetOrders(w) ==
  LET exec == [check[w].exec EXCEPT !.errors = 0] IN
  /\ check[w].pc = "orders"
  /\ \/ /\ Says("own order", "yes")
        /\ GotoWith(w, IF Limit THEN "bracket" ELSE "pending", exec)
     \/ Says("own order", "no") /\ GotoWith(w, "active position", exec)
     \/ Says("own order", "error") /\ ApiError(w)
  /\ UNCHANGED <<row, queue, rec, req, sweep, trade, age>>

\* has_active_symbol asks for the position, then for the orders.
ActivePosition(w) ==
  /\ check[w].pc = "active position"
  /\ \/ /\ \E a \in {"yes", "error"} : Says("position", a)
        /\ AfterGrace(w, check[w].exec)
     \/ Says("position", "no") /\ Goto(w, "active orders")
  /\ UNCHANGED <<row, queue, rec, req, sweep, trade, age>>

ActiveOrders(w) ==
  /\ check[w].pc = "active orders"
  /\ \/ /\ \E a \in {"yes", "error"} : Says("orders", a)
        /\ AfterGrace(w, check[w].exec)
     \/ Says("orders", "no") /\ Decide(w, check[w].exec, "cancelled")
  /\ UNCHANGED <<row, queue, rec, req, sweep, trade, age>>

\* A listed bracket order with a position is filled.
BracketPosition(w) ==
  /\ check[w].pc = "bracket"
  /\ \/ /\ Says("position", "yes")
        /\ AfterGrace(w, [check[w].exec EXCEPT !.filled = TRUE])
     \/ \E a \in {"no", "error"} : Says("position", a) /\ Goto(w, "pending")
  /\ UNCHANGED <<row, queue, rec, req, sweep, trade, age>>

\* The order still waits: keep it, fail to get a price, or cancel it (too old, setup
\* invalidated).  Nothing looks at what cancel_order returns.
PendingOrder(w) ==
  /\ check[w].pc = "pending"
  /\ \/ Decide(w, check[w].exec, "continue") /\ UNCHANGED <<trade, faults>>
     \/ /\ faults < MaxFaults /\ faults' = faults + 1
        /\ ApiError(w) /\ UNCHANGED trade
     \/ /\ Decide(w, check[w].exec, "cancelled")
        /\ \/ trade = "pending" /\ trade' = "void" /\ UNCHANGED faults
           \/ trade # "pending" /\ UNCHANGED <<trade, faults>>
           \/ faults < MaxFaults /\ faults' = faults + 1 /\ UNCHANGED trade
  /\ UNCHANGED <<row, queue, rec, req, sweep, age>>

PositionFound(w) ==
  LET exec == check[w].exec
      seen == [exec EXCEPT !.errors = 0, !.filled = @ \/ exec.order,
                           !.trade = @ \/ TradeIds] IN
  /\ check[w].pc = "position"
  /\ Says("position", "yes")
  /\ \/ Decide(w, seen, "continue")
     \/ EmergencyExits /\ GotoWith(w, "exit", seen)
  /\ UNCHANGED <<row, queue, rec, req, sweep, trade, age>>

\* Without a trade id or legs the next check is to confirm it; otherwise the broker's
\* trade details decide.
PositionGone(w) ==
  LET exec == check[w].exec IN
  /\ check[w].pc = "position"
  /\ Says("position", "no")
  /\ IF exec.order /\ ~exec.trade /\ ~Legs THEN Decide(w, exec, "continue")
     ELSE IF ~exec.order /\ ~exec.trade THEN Decide(w, exec, "needs_reconciliation")
     ELSE \E d \in Details :
            Decide(w, exec, IF d \in {"missing", "no closing data"}
                              THEN "needs_reconciliation" ELSE "executed")
  /\ UNCHANGED <<row, queue, rec, req, sweep, trade, age>>

PositionUnknown(w) ==
  /\ check[w].pc = "position"
  /\ Says("position", "error")
  /\ ApiError(w)
  /\ UNCHANGED <<row, queue, rec, req, sweep, trade, age>>

\* _close_position: a refusal or an error is only logged.
EmergencyExit(w) ==
  /\ check[w].pc = "exit"
  /\ \/ trade = "open" /\ trade' = "closed" /\ UNCHANGED faults
     \/ trade # "open" /\ UNCHANGED <<trade, faults>>
     \/ faults < MaxFaults /\ faults' = faults + 1 /\ UNCHANGED trade
  /\ Decide(w, check[w].exec, "executed")
  /\ UNCHANGED <<row, queue, rec, req, sweep, age>>

\* The status a check writes, by its verdict.
NewStatus(c) ==
  CASE c.verdict \in {"continue", "retry"} -> c.status
    [] c.verdict = "comm_error" /\ c.exec.errors < MaxRetries -> "COMMUNICATION_ERROR"
    [] c.verdict \in {"comm_error", "needs_reconciliation"} -> "NEEDS_RECONCILIATION"
    [] OTHER -> "COMPLETED"

GoesOn(c) == NewStatus(c) \in Monitorable

\* Mutant: the COMMUNICATION_ERROR branch clears the next check.
NextWhenMonitoring(c) ==
  IF NewStatus(c) = "MONITORING" THEN "due" ELSE Cleared(c.hadNext)

NextCheck(c) == IF GoesOn(c) THEN "due" ELSE Cleared(c.hadNext)

\* Five failing checks, 15 seconds apart, take longer than the broker's lag.
CommitCheck(w) ==
  LET c == check[w] IN
  /\ c.pc = "commit"
  /\ c.verdict = "comm_error" => ~Fresh
  /\ row' = [status |-> Status(c.status, NewStatus(c)),
             next |-> NextCheck(c),
             outcome |-> IF c.verdict \in Outcomes THEN c.verdict ELSE c.outcome,
             exec |-> c.exec]
  /\ check' = [check EXCEPT ![w] = [pc |-> IF GoesOn(c) THEN "send" ELSE "ack"]]
  /\ UNCHANGED <<queue, rec, req, sweep, trade, age, faults>>

SendNextCheck(w) ==
  /\ check[w].pc = "send"
  /\ queue' = Enqueued
  /\ Goto(w, "ack")
  /\ UNCHANGED <<row, rec, req, sweep, trade, age, faults>>

AckCheck(w) ==
  /\ check[w].pc = "ack"
  /\ check' = [check EXCEPT ![w] = Idle]
  /\ UNCHANGED <<row, queue, rec, req, sweep, trade, age, faults>>

\* The worker dies and the message is delivered again, or an exception makes the task
\* retry; or its retries are used up, and the chain ends here.
InterruptCheck(w) ==
  /\ check[w] # Idle /\ faults < MaxFaults
  /\ faults' = faults + 1
  /\ check' = [check EXCEPT ![w] = Idle]
  /\ queue' \in {queue, Enqueued}
  /\ UNCHANGED <<row, rec, req, sweep, trade, age>>

-------------------------------------------------------------------------------
(* reconcile_user_trades                                                   *)

\* Mutant: rows that are MONITORING are left to their checks.
ReconcilableLater == row.status \in {"COMMUNICATION_ERROR", "NEEDS_RECONCILIATION"}

\* Rows that started less than three minutes ago are skipped (GRACE_PERIOD_MINUTES),
\* however old their orders are.
Reconcilable ==
  /\ row.status \notin Terminal
  /\ row.status = "MONITORING" => age # "grace"

StartReconcile ==
  /\ rec = Idle
  /\ Reconcilable
  /\ rec' = [pc |-> IF row.status = "NEEDS_RECONCILIATION" THEN "book" ELSE "position",
             status |-> row.status, next |-> row.next, exec |-> row.exec, misled |-> {}]
  /\ UNCHANGED <<row, queue, check, req, sweep, trade, age, faults>>

\* An answer "no" moves on to pc; it was an error if a fault is counted.
Unanswered(pc, reasons) ==
  rec' = [rec EXCEPT !.pc = pc,
            !.misled = @ \cup reasons \cup (IF faults' # faults THEN {"swallowed"} ELSE {})]

\* Mutant: only positions count as active.
ReconcilePositionOnly ==
  /\ rec.pc = "position"
  /\ \/ Says("position", "yes") /\ rec' = [rec EXCEPT !.pc = "active"]
     \/ Says("position", "no") /\ Unanswered("book", {})
     \/ Says("position", "error") /\ rec' = Idle
  /\ UNCHANGED <<row, queue, check, req, sweep, trade, age>>

\* has_active_symbol; a raised error skips the row until the next run.
ReconcilePosition ==
  /\ rec.pc = "position"
  /\ \/ Says("position", "yes") /\ rec' = [rec EXCEPT !.pc = "active"]
     \/ Says("position", "no") /\ Unanswered("orders", {})
     \/ Says("position", "error") /\ rec' = Idle
  /\ UNCHANGED <<row, queue, check, req, sweep, trade, age>>

ReconcileOrders ==
  /\ rec.pc = "orders"
  /\ \/ Says("orders", "yes") /\ rec' = [rec EXCEPT !.pc = "active"]
     \/ /\ Says("orders", "no")
        /\ Unanswered("book",
             (IF Fresh THEN {"unlisted"} ELSE {})
               \cup (IF trade = "open" /\ ~Legs THEN {"filled between"} ELSE {}))
     \/ Says("orders", "error") /\ rec' = Idle
  /\ UNCHANGED <<row, queue, check, req, sweep, trade, age>>

\* Mutant: an overdue check is not taken for a dead chain.
OrphanedWithoutNext(r) == r.status = "MONITORING" /\ r.next = "none"

\* _reschedule_orphaned_monitoring, on the copy that was loaded.
Orphaned(r) == r.next = "overdue" \/ (r.status = "MONITORING" /\ r.next = "none")

RescheduleOrphan ==
  /\ rec.pc = "active"
  /\ IF Orphaned(rec)
       THEN row' = [row EXCEPT !.next = "due"] /\ rec' = [pc |-> "send"]
       ELSE rec' = Idle /\ UNCHANGED row
  /\ UNCHANGED <<queue, check, req, sweep, trade, age, faults>>

SendOrphan ==
  /\ rec.pc = "send"
  /\ queue' = Enqueued
  /\ rec' = Idle
  /\ UNCHANGED <<row, check, req, sweep, trade, age, faults>>

\* _recover_pnl_from_broker.
Recovered(exec, details) ==
  IF ~exec.filled THEN "cancelled"
  ELSE IF details \in {"closed", "no closing data"} /\ (exec.order \/ exec.trade)
    THEN "executed" ELSE "needs_reconciliation"

\* _reconcile_closed_position.  A row that already needs reconciliation is left alone
\* or promoted, and keeps its next_check_at.
BookReconciled ==
  LET again == rec.status = "NEEDS_RECONCILIATION" IN
  /\ rec.pc = "book"
  /\ \E d \in Details :
       LET outcome == Recovered(rec.exec, d) IN
       IF again /\ outcome = "needs_reconciliation" THEN UNCHANGED row
       ELSE row' = [status |-> IF outcome = "needs_reconciliation"
                                 THEN "NEEDS_RECONCILIATION" ELSE "COMPLETED",
                    next |-> IF again THEN row.next ELSE Cleared(rec.next # "none"),
                    outcome |-> outcome,
                    exec |-> rec.exec]
  /\ rec' = Idle
  /\ UNCHANGED <<queue, check, req, sweep, trade, age, faults>>

\* The worker dies; the next run of the beat schedule starts over.
InterruptReconcile ==
  /\ rec # Idle /\ faults < MaxFaults
  /\ faults' = faults + 1
  /\ rec' = Idle
  /\ UNCHANGED <<row, queue, check, req, sweep, trade, age>>

-------------------------------------------------------------------------------
(* The user                                                                *)

StartRequest(op, statuses) ==
  /\ op \in UserOps
  /\ req = Idle
  /\ row.status \in statuses
  /\ req' = [pc |-> op, hadNext |-> row.next # "none", exec |-> row.exec]
  /\ UNCHANGED <<row, queue, check, rec, sweep, trade, age, faults>>

\* cancel_execution leaves the broker, next_check_at and result alone.
StartCancel ==
  /\ "cancel" \in UserOps
  /\ req = Idle
  /\ row.status \notin Terminal
  /\ req' = [pc |-> "cancel"]
  /\ UNCHANGED <<row, queue, check, rec, sweep, trade, age, faults>>

CancelCommit ==
  /\ req.pc = "cancel"
  /\ row' = [row EXCEPT !.status = "CANCELLED"]
  /\ req' = Idle
  /\ UNCHANGED <<queue, check, rec, sweep, trade, age, faults>>

\* close_position closes at the broker, then books; a failed close is reported.
StartClose == StartRequest("close", {"MONITORING"})

CloseAtBroker ==
  /\ req.pc = "close"
  /\ \/ /\ trade = "open" /\ trade' = "closed"
        /\ req' = [req EXCEPT !.pc = "closed"] /\ UNCHANGED faults
     \/ trade # "open" /\ req' = Idle /\ UNCHANGED <<trade, faults>>
     \/ faults < MaxFaults /\ faults' = faults + 1 /\ req' = Idle /\ UNCHANGED trade
  /\ UNCHANGED <<row, queue, check, rec, sweep, age>>

CloseCommit ==
  /\ req.pc = "closed"
  /\ row' = [row EXCEPT !.status = "COMPLETED", !.next = Cleared(req.hadNext),
                        !.outcome = "executed"]
  /\ req' = Idle
  /\ UNCHANGED <<queue, check, rec, sweep, trade, age, faults>>

\* resume_monitoring; its message may be lost, the row is MONITORING all the same.
StartResume == StartRequest("resume", {"NEEDS_RECONCILIATION", "COMMUNICATION_ERROR"})

ResumeCommit ==
  /\ req.pc = "resume"
  /\ row' = [status |-> "MONITORING", next |-> "due", outcome |-> "none",
             exec |-> req.exec]
  /\ req' = [pc |-> "send"]
  /\ UNCHANGED <<queue, check, rec, sweep, trade, age, faults>>

SendResumed ==
  /\ req.pc = "send"
  /\ \/ queue' = Enqueued /\ UNCHANGED faults
     \/ faults < MaxFaults /\ faults' = faults + 1 /\ UNCHANGED queue
  /\ req' = Idle
  /\ UNCHANGED <<row, check, rec, sweep, trade, age>>

\* The reconcile endpoint: with the broker's closing data, or with what the user says.
StartSettle == StartRequest("reconcile", {"NEEDS_RECONCILIATION", "COMMUNICATION_ERROR"})

SettleCommit ==
  /\ req.pc = "reconcile"
  /\ \/ \E outcome \in {"executed", "cancelled"} :
          row' = [status |-> "COMPLETED", next |-> Cleared(req.hadNext),
                  outcome |-> outcome, exec |-> req.exec]
     \/ UNCHANGED row
  /\ req' = Idle
  /\ UNCHANGED <<queue, check, rec, sweep, trade, age, faults>>

-------------------------------------------------------------------------------
(* cleanup_stale_running_executions, and the world                         *)

\* started_at is all it looks at, not next_check_at being in the past.
StartSweep ==
  /\ sweep = Idle /\ age = "stale"
  /\ \/ row.status = "MONITORING"
     \/ row.status = "COMMUNICATION_ERROR" /\ row.next # "none"
  /\ sweep' = [pc |-> "commit", hadNext |-> row.next # "none", outcome |-> row.outcome]
  /\ UNCHANGED <<row, queue, check, rec, req, trade, age, faults>>

SweepCommit ==
  /\ sweep # Idle
  /\ row' = [row EXCEPT !.status = "FAILED", !.next = Cleared(sweep.hadNext),
                        !.outcome = sweep.outcome]
  /\ sweep' = Idle
  /\ UNCHANGED <<queue, check, rec, req, trade, age, faults>>

\* The grace period of the reconciliation ends before the order is three minutes old.
GraceEnds ==
  /\ age = "grace" /\ age' = "new"
  /\ UNCHANGED <<row, queue, check, rec, req, sweep, trade, faults>>

\* Three minutes pass since the order was placed: longer than the broker's lag plus the
\* has_active_symbol call of a check.
MinutesPass ==
  /\ Fresh /\ age' = "settled"
  /\ \A w \in Workers : check[w].pc \notin {"active position", "active orders"}
  /\ UNCHANGED <<row, queue, check, rec, req, sweep, trade, faults>>

\* 25 hours pass.
DayPasses ==
  /\ age = "settled" /\ age' = "stale"
  /\ UNCHANGED <<row, queue, check, rec, req, sweep, trade, faults>>

\* next_check_at falls two minutes behind, with its message still waiting or lost.
FallOverdue ==
  /\ row.next = "due" /\ row' = [row EXCEPT !.next = "overdue"]
  /\ UNCHANGED <<queue, check, rec, req, sweep, trade, age, faults>>

\* Filled, or expired or rejected; stop, target or the user's own order at the broker.
BrokerMoves ==
  /\ \/ trade = "pending" /\ trade' \in {"open", "void"}
     \/ trade = "open" /\ trade' = "closed"
  /\ UNCHANGED <<row, queue, check, rec, req, sweep, age, faults>>

-------------------------------------------------------------------------------
CheckStep(w) ==
  \/ GetOrders(w) \/ ActivePosition(w) \/ ActiveOrders(w) \/ BracketPosition(w)
  \/ PendingOrder(w) \/ PositionFound(w) \/ PositionGone(w) \/ PositionUnknown(w)
  \/ EmergencyExit(w) \/ CommitCheck(w) \/ SendNextCheck(w) \/ AckCheck(w)

ReconcileStep ==
  \/ StartReconcile \/ ReconcilePosition \/ ReconcileOrders
  \/ RescheduleOrphan \/ SendOrphan \/ BookReconciled

UserStep ==
  \/ StartCancel \/ StartClose \/ StartResume \/ StartSettle
  \/ CancelCommit \/ CloseAtBroker \/ CloseCommit
  \/ ResumeCommit \/ SendResumed \/ SettleCommit

Next ==
  \/ \E w \in Workers : TakeCheck(w) \/ CheckStep(w) \/ InterruptCheck(w)
  \/ ReconcileStep \/ InterruptReconcile
  \/ UserStep
  \/ StartSweep \/ SweepCommit
  \/ GraceEnds \/ MinutesPass \/ DayPasses \/ FallOverdue \/ BrokerMoves

Spec == Init /\ [][Next]_vars

\* Messages are taken, checks and reconciliations proceed and minutes pass.  Nothing
\* is owed by the user, by the market or by the 25 hour cleanup.
Fairness ==
  /\ WF_vars(\E w \in Workers : TakeCheck(w))
  /\ \A w \in Workers : WF_vars(CheckStep(w))
  /\ WF_vars(ReconcileStep)
  /\ WF_vars(MinutesPass) /\ WF_vars(FallOverdue)

FairSpec == Spec /\ Fairness
===============================================================================
