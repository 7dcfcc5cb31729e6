--------------------------- MODULE MonitoringProofs ---------------------------
(***************************************************************************)
(* TLAPS proofs about Monitoring, for any number of workers, queued        *)
(* messages, errors and faults.                                            *)
(***************************************************************************)
EXTENDS MonitoringProps, TLAPS

-------------------------------------------------------------------------------
(* Type correctness                                                          *)

\* A broker call counts a fault or none.
LEMMA SaysType ==
  ASSUME MaxFaults \in Nat, faults \in 0 .. MaxFaults,
         NEW question, NEW answer, Says(question, answer)
  PROVE  faults' \in 0 .. MaxFaults
BY DEF Says

\* The counter of errors stays within its bound.
LEMMA ApiErrorType ==
  ASSUME MonitoringAssumption, NEW w \in Workers, check \in [Workers -> Checks],
         check[w] \in RunningChecks, ApiError(w)
  PROVE  check' \in [Workers -> Checks]
<1> DEFINE errors == check[w].exec.errors + 1
           exec == [check[w].exec EXCEPT !.errors = IF errors > MaxRetries THEN @ ELSE errors]
<1>1. exec \in TradeExecutions
  <2>1. check[w].exec \in TradeExecutions
    BY DEF RunningChecks
  <2>2. (IF errors > MaxRetries THEN check[w].exec.errors ELSE errors) \in 0 .. MaxRetries
    BY <2>1 DEF MonitoringAssumption, TradeExecutions
  <2> HIDE DEF errors
  <2> QED
    BY <2>1, <2>2 DEF TradeExecutions
<1>2. \E v \in {"comm_error", "retry"} : Decide(w, exec, v)
  BY DEF ApiError
<1>3. PICK v \in {"comm_error", "retry"} :
        check' = [check EXCEPT ![w].pc = "commit", ![w].exec = exec, ![w].verdict = v]
  BY <1>2 DEF Decide
<1> HIDE DEF exec
<1> QED
  BY <1>1, <1>3 DEF Checks, RunningChecks, Verdicts

\* A check that goes on with what it knows is still a check.
LEMMA DecideType ==
  ASSUME NEW w \in Workers, check \in [Workers -> Checks], check[w] \in RunningChecks,
         NEW exec \in TradeExecutions, NEW verdict \in Verdicts, Decide(w, exec, verdict)
  PROVE  check' \in [Workers -> Checks]
BY DEF Decide, Checks, RunningChecks

LEMMA GotoWithType ==
  ASSUME NEW w \in Workers, check \in [Workers -> Checks], check[w] \in RunningChecks,
         NEW exec \in TradeExecutions,
         NEW pc \in {"orders", "active position", "active orders", "bracket", "pending",
                     "position", "exit", "commit"},
         GotoWith(w, pc, exec)
  PROVE  check' \in [Workers -> Checks]
BY DEF GotoWith, Checks, RunningChecks

LEMMA AfterGraceType ==
  ASSUME NEW w \in Workers, check \in [Workers -> Checks], check[w] \in RunningChecks,
         NEW exec \in TradeExecutions, AfterGrace(w, exec)
  PROVE  check' \in [Workers -> Checks]
<1>1. CASE Fresh
  BY <1>1, DecideType DEF AfterGrace, Verdicts
<1>2. CASE ~Fresh
  BY <1>2, GotoWithType DEF AfterGrace
<1> QED
  BY <1>1, <1>2

\* Every step of a check keeps the types.
LEMMA CheckStepType ==
  ASSUME MonitoringAssumption, TypeOK, NEW w \in Workers, CheckStep(w)
  PROVE  TypeOK'
<1> USE MonitoringAssumption DEF TypeOK
<1>0. MaxFaults \in Nat /\ MaxQueued \in Nat
  BY DEF MonitoringAssumption
<1>a. check[w].pc \notin {"idle", "send", "ack"} => check[w] \in RunningChecks
  BY DEF Checks
<1>b. check[w] \in RunningChecks => check[w].exec \in TradeExecutions
  BY DEF RunningChecks
<1>1. CASE GetOrders(w)
  <2> DEFINE exec == [check[w].exec EXCEPT !.errors = 0]
  <2>1. check[w] \in RunningChecks
    BY <1>1, <1>a DEF GetOrders
  <2>2. exec \in TradeExecutions
    BY <1>b, <2>1 DEF TradeExecutions, MonitoringAssumption
  <2>3. faults' \in 0 .. MaxFaults
    BY <1>0, <1>1, SaysType DEF GetOrders
  <2>4. check' \in [Workers -> Checks]
    <3> HIDE DEF exec
    <3>1. CASE \E pc \in {"bracket", "pending", "active position"} : GotoWith(w, pc, exec)
      BY <2>1, <2>2, <3>1, GotoWithType
    <3>2. CASE ApiError(w)
      BY <2>1, <3>2, ApiErrorType
    <3> QED
      BY <1>1, <3>1, <3>2 DEF GetOrders, exec
  <2> QED
    BY <1>1, <2>3, <2>4 DEF GetOrders
<1>2. CASE ActivePosition(w)
  <2>1. check[w] \in RunningChecks
    BY <1>2, <1>a DEF ActivePosition
  <2>2. faults' \in 0 .. MaxFaults
    BY <1>0, <1>2, SaysType DEF ActivePosition
  <2>3. check' \in [Workers -> Checks]
    <3>1. CASE AfterGrace(w, check[w].exec)
      BY <1>b, <2>1, <3>1, AfterGraceType
    <3>2. CASE Goto(w, "active orders")
      BY <2>1, <3>2 DEF Goto, Checks, RunningChecks
    <3> QED
      BY <1>2, <3>1, <3>2 DEF ActivePosition
  <2> QED
    BY <1>2, <2>2, <2>3 DEF ActivePosition
<1>3. CASE ActiveOrders(w)
  <2>1. check[w] \in RunningChecks
    BY <1>3, <1>a DEF ActiveOrders
  <2>2. faults' \in 0 .. MaxFaults
    BY <1>0, <1>3, SaysType DEF ActiveOrders
  <2>3. check' \in [Workers -> Checks]
    <3>1. CASE AfterGrace(w, check[w].exec)
      BY <1>b, <2>1, <3>1, AfterGraceType
    <3>2. CASE Decide(w, check[w].exec, "cancelled")
      BY <1>b, <2>1, <3>2, DecideType DEF Verdicts
    <3> QED
      BY <1>3, <3>1, <3>2 DEF ActiveOrders
  <2> QED
    BY <1>3, <2>2, <2>3 DEF ActiveOrders
<1>4. CASE BracketPosition(w)
  <2> DEFINE exec == [check[w].exec EXCEPT !.filled = TRUE]
  <2>1. check[w] \in RunningChecks
    BY <1>4, <1>a DEF BracketPosition
  <2>2. exec \in TradeExecutions
    BY <1>b, <2>1 DEF TradeExecutions
  <2>3. faults' \in 0 .. MaxFaults
    BY <1>0, <1>4, SaysType DEF BracketPosition
  <2>4. check' \in [Workers -> Checks]
    <3> HIDE DEF exec
    <3>1. CASE AfterGrace(w, exec)
      BY <2>1, <2>2, <3>1, AfterGraceType
    <3>2. CASE Goto(w, "pending")
      BY <2>1, <3>2 DEF Goto, Checks, RunningChecks
    <3> QED
      BY <1>4, <3>1, <3>2 DEF BracketPosition, exec
  <2> QED
    BY <1>4, <2>3, <2>4 DEF BracketPosition
<1>5. CASE PendingOrder(w)
  <2>1. check[w] \in RunningChecks
    BY <1>5, <1>a DEF PendingOrder
  <2>2. faults' \in 0 .. MaxFaults /\ trade' \in {"pending", "open", "closed", "void"}
    BY <1>0, <1>5 DEF PendingOrder
  <2>3. check' \in [Workers -> Checks]
    <3>1. CASE \E v \in {"continue", "cancelled"} : Decide(w, check[w].exec, v)
      BY <1>b, <2>1, <3>1, DecideType DEF Verdicts
    <3>2. CASE ApiError(w)
      BY <2>1, <3>2, ApiErrorType
    <3> QED
      BY <1>5, <3>1, <3>2 DEF PendingOrder
  <2> QED
    BY <1>5, <2>2, <2>3 DEF PendingOrder
<1>6. CASE PositionFound(w)
  <2> DEFINE exec == check[w].exec
             seen == [exec EXCEPT !.errors = 0, !.filled = @ \/ exec.order,
                                  !.trade = @ \/ TradeIds]
  <2>1. check[w] \in RunningChecks
    BY <1>6, <1>a DEF PositionFound
  <2>2. seen \in TradeExecutions
    <3>1. exec \in TradeExecutions /\ 0 \in 0 .. MaxRetries
      BY <1>b, <2>1 DEF MonitoringAssumption
    <3>2. PICK f \in BOOLEAN : f = (exec.filled \/ exec.order)
      OBVIOUS
    <3>3. PICK t \in BOOLEAN : t = (exec.trade \/ TradeIds)
      OBVIOUS
    <3>4. seen = [exec EXCEPT !.errors = 0, !.filled = f, !.trade = t]
      BY <3>2, <3>3
    <3> HIDE DEF seen, exec
    <3> QED
      BY <3>1, <3>4 DEF TradeExecutions
  <2>3. faults' \in 0 .. MaxFaults
    BY <1>0, <1>6, SaysType DEF PositionFound
  <2>4. check' \in [Workers -> Checks]
    <3> HIDE DEF seen
    <3>1. CASE Decide(w, seen, "continue")
      BY <2>1, <2>2, <3>1, DecideType DEF Verdicts
    <3>2. CASE GotoWith(w, "exit", seen)
      BY <2>1, <2>2, <3>2, GotoWithType
    <3> QED
      BY <1>6, <3>1, <3>2 DEF PositionFound, seen
  <2> QED
    BY <1>6, <2>3, <2>4 DEF PositionFound
<1>7. CASE PositionGone(w) \/ PositionUnknown(w)
  <2>1. check[w] \in RunningChecks
    BY <1>7, <1>a DEF PositionGone, PositionUnknown
  <2>2. faults' \in 0 .. MaxFaults
    BY <1>0, <1>7, SaysType DEF PositionGone, PositionUnknown
  <2>3. check' \in [Workers -> Checks]
    <3>1. CASE \E v \in {"continue", "needs_reconciliation", "executed"} :
                 Decide(w, check[w].exec, v)
      BY <1>b, <2>1, <3>1, DecideType DEF Verdicts
    <3>2. CASE ApiError(w)
      BY <2>1, <3>2, ApiErrorType
    <3> QED
      BY <1>7, <3>1, <3>2 DEF PositionGone, PositionUnknown
  <2> QED
    BY <1>7, <2>2, <2>3 DEF PositionGone, PositionUnknown
<1>8. CASE EmergencyExit(w)
  <2>1. check[w] \in RunningChecks
    BY <1>8, <1>a DEF EmergencyExit
  <2>2. faults' \in 0 .. MaxFaults /\ trade' \in {"pending", "open", "closed", "void"}
    BY <1>0, <1>8 DEF EmergencyExit
  <2>3. check' \in [Workers -> Checks]
    BY <1>8, <1>b, <2>1, DecideType DEF EmergencyExit, Verdicts
  <2> QED
    BY <1>8, <2>2, <2>3 DEF EmergencyExit
<1>9. CASE CommitCheck(w)
  <2>1. check[w] \in RunningChecks
    BY <1>9, <1>a DEF CommitCheck
  <2>2. row' \in Rows
    BY <1>9, <2>1 DEF CommitCheck, Rows, RunningChecks, NewStatus, Status, NextCheck,
                      GoesOn, Cleared, Monitorable, Statuses, Outcomes, Verdicts
  <2>3. check' \in [Workers -> Checks]
    BY <1>9 DEF CommitCheck, Checks
  <2> QED
    BY <1>9, <2>2, <2>3 DEF CommitCheck
<1>10. CASE SendNextCheck(w) \/ AckCheck(w)
  <2>1. check' \in [Workers -> Checks]
    <3>1. CASE AckCheck(w)
      BY <3>1 DEF AckCheck, Idle, Checks
    <3>2. CASE SendNextCheck(w)
      <4>1. check[w] \in [pc : {"idle", "send", "ack"}]
        BY <3>2 DEF SendNextCheck, Checks, RunningChecks
      <4>2. [check[w] EXCEPT !.pc = "ack"] \in Checks
        BY <4>1 DEF Checks
      <4> QED
        BY <3>2, <4>2 DEF SendNextCheck, Goto
    <3> QED
      BY <1>10, <3>1, <3>2
  <2>2. queue' \in 0 .. MaxQueued
    BY <1>0, <1>10 DEF SendNextCheck, AckCheck, Enqueued
  <2> QED
    BY <1>10, <2>1, <2>2 DEF SendNextCheck, AckCheck
<1> QED
  BY <1>1, <1>2, <1>3, <1>4, <1>5, <1>6, <1>7, <1>8, <1>9, <1>10 DEF CheckStep

\* The reconciliation after an answer of the broker.
LEMMA UnansweredMove ==
  ASSUME rec \in RunningReconciliations, NEW pc, NEW reasons \in SUBSET Reasons,
         Unanswered(pc, reasons)
  PROVE  \E m \in SUBSET Reasons : rec' = [rec EXCEPT !.pc = pc, !.misled = m]
<1> DEFINE m == rec.misled \cup reasons \cup (IF faults' # faults THEN {"swallowed"} ELSE {})
<1>1. m \in SUBSET Reasons
  BY DEF Reasons, RunningReconciliations
<1>2. rec' = [rec EXCEPT !.pc = pc, !.misled = m]
  BY DEF Unanswered, RunningReconciliations
<1> QED
  BY <1>1, <1>2

LEMMA AnswerMove ==
  ASSUME TypeOK, ReconcilePosition \/ ReconcileOrders
  PROVE  /\ rec \in RunningReconciliations
         /\ \/ rec' = Idle
            \/ \E pc \in {"active", "orders", "book"}, m \in SUBSET Reasons :
                 rec' = [rec EXCEPT !.pc = pc, !.misled = m]
<1>1. rec \in RunningReconciliations
  BY DEF ReconcilePosition, ReconcileOrders, TypeOK, Reconciliations
<1>2. CASE rec' = [rec EXCEPT !.pc = "active"]
  <2>1. rec.misled \in SUBSET Reasons
        /\ rec' = [rec EXCEPT !.pc = "active", !.misled = rec.misled]
    BY <1>1, <1>2 DEF RunningReconciliations
  <2> QED
    BY <1>1, <2>1
<1>3. CASE \E pc \in {"orders", "book"}, reasons \in SUBSET Reasons : Unanswered(pc, reasons)
  BY <1>1, <1>3, UnansweredMove
<1>4. (IF Fresh THEN {"unlisted"} ELSE {})
        \cup (IF trade = "open" /\ ~Legs THEN {"filled between"} ELSE {}) \in SUBSET Reasons
  BY DEF Reasons
<1> QED
  BY <1>1, <1>2, <1>3, <1>4 DEF ReconcilePosition, ReconcileOrders

\* Every step of the reconciliation keeps the types.
LEMMA ReconcileStepType ==
  ASSUME MonitoringAssumption, TypeOK, ReconcileStep
  PROVE  TypeOK'
<1> USE DEF TypeOK
<1>0. MaxFaults \in Nat /\ MaxQueued \in Nat
  BY DEF MonitoringAssumption
<1>a. Idle \in Reconciliations
  BY DEF Idle, Reconciliations
<1>b. rec.pc \notin {"idle", "send"} => rec \in RunningReconciliations
  BY DEF Reconciliations
<1>1. CASE StartReconcile
  <2>1. rec' \in Reconciliations
    BY <1>1 DEF StartReconcile, Reconcilable, Reconciliations, RunningReconciliations, Rows
  <2> QED
    BY <1>1, <2>1 DEF StartReconcile
<1>2. CASE ReconcilePosition \/ ReconcileOrders
  <2>1. rec \in RunningReconciliations
    BY <1>2, <1>b DEF ReconcilePosition, ReconcileOrders
  <2>2. faults' \in 0 .. MaxFaults
    BY <1>0, <1>2, SaysType DEF ReconcilePosition, ReconcileOrders
  <2>3. \/ rec' = Idle
        \/ \E pc \in {"active", "orders", "book"}, m \in SUBSET Reasons :
             rec' = [rec EXCEPT !.pc = pc, !.misled = m]
    BY <1>2, AnswerMove
  <2>4. rec' \in Reconciliations
    BY <1>a, <2>1, <2>3 DEF Reconciliations, RunningReconciliations
  <2> QED
    BY <1>2, <2>2, <2>4 DEF ReconcilePosition, ReconcileOrders
<1>3. CASE RescheduleOrphan
  <2>1. row' \in Rows /\ rec' \in Reconciliations
    BY <1>3, <1>a DEF RescheduleOrphan, Rows, Reconciliations
  <2> QED
    BY <1>3, <2>1 DEF RescheduleOrphan
<1>4. CASE SendOrphan
  <2>1. queue' \in 0 .. MaxQueued
    BY <1>0, <1>4 DEF SendOrphan, Enqueued
  <2> QED
    BY <1>4, <1>a, <2>1 DEF SendOrphan
<1>5. CASE BookReconciled
  <2>1. rec \in RunningReconciliations
    BY <1>5, <1>b DEF BookReconciled
  <2>2. row' \in Rows
    <3>1. ASSUME NEW d PROVE Recovered(rec.exec, d) \in Outcomes
      BY DEF Recovered, Outcomes
    <3>2. PICK d \in Details :
            \/ UNCHANGED row
            \/ \E st \in {"NEEDS_RECONCILIATION", "COMPLETED"},
                 n \in {row.next, Cleared(rec.next # "none")} :
                 row' = [status |-> st, next |-> n, outcome |-> Recovered(rec.exec, d),
                         exec |-> rec.exec]
      BY <1>5 DEF BookReconciled
    <3>3. {row.next, Cleared(rec.next # "none")} \subseteq {"none", "due", "overdue"}
      BY DEF Rows, Cleared
    <3> QED
      BY <2>1, <3>1, <3>2, <3>3 DEF Rows, RunningReconciliations, Statuses
  <2> QED
    BY <1>5, <1>a, <2>2 DEF BookReconciled
<1> QED
  BY <1>1, <1>2, <1>3, <1>4, <1>5 DEF ReconcileStep

\* Every step of a request keeps the types.
LEMMA UserStepType ==
  ASSUME MonitoringAssumption, TypeOK, UserStep
  PROVE  TypeOK'
<1> USE DEF TypeOK
<1>0. MaxFaults \in Nat /\ MaxQueued \in Nat
  BY DEF MonitoringAssumption
<1>a. Idle \in Requests
  BY DEF Idle, Requests
<1>b. req.pc \in {"close", "closed", "resume", "reconcile"} => req \in RunningRequests
  BY DEF Requests
<1>1. CASE StartClose \/ StartResume \/ StartSettle
  <2>1. PICK op \in {"close", "resume", "reconcile"} :
          req' = [pc |-> op, hadNext |-> row.next # "none", exec |-> row.exec]
    BY <1>1 DEF StartClose, StartResume, StartSettle, StartRequest
  <2>2. req' \in Requests
    BY <2>1 DEF Requests, RunningRequests, Rows
  <2> QED
    BY <1>1, <2>2 DEF StartClose, StartResume, StartSettle, StartRequest
<1>2. CASE StartCancel
  BY <1>2 DEF StartCancel, Requests
<1>3. CASE CancelCommit
  BY <1>3, <1>a DEF CancelCommit, Rows, Statuses
<1>4. CASE CloseAtBroker
  <2>1. req \in RunningRequests
    BY <1>4, <1>b DEF CloseAtBroker
  <2>2. req' \in Requests
    BY <1>4, <1>a, <2>1 DEF CloseAtBroker, Requests, RunningRequests
  <2>3. faults' \in 0 .. MaxFaults
    BY <1>0, <1>4 DEF CloseAtBroker
  <2> QED
    BY <1>4, <2>2, <2>3 DEF CloseAtBroker
<1>5. CASE CloseCommit
  <2>1. row' \in Rows
    BY <1>5 DEF CloseCommit, Rows, Cleared, Statuses, Outcomes
  <2> QED
    BY <1>5, <1>a, <2>1 DEF CloseCommit
<1>6. CASE ResumeCommit
  <2>1. req \in RunningRequests
    BY <1>6, <1>b DEF ResumeCommit
  <2>2. row' \in Rows
    BY <1>6, <2>1 DEF ResumeCommit, Rows, RunningRequests, Statuses, Outcomes
  <2> QED
    BY <1>6, <2>2 DEF ResumeCommit, Requests
<1>7. CASE SendResumed
  <2>1. queue' \in 0 .. MaxQueued /\ faults' \in 0 .. MaxFaults
    BY <1>0, <1>7 DEF SendResumed, Enqueued
  <2> QED
    BY <1>7, <1>a, <2>1 DEF SendResumed
<1>8. CASE SettleCommit
  <2>1. req \in RunningRequests
    BY <1>8, <1>b DEF SettleCommit
  <2>2. row' \in Rows
    BY <1>8, <2>1 DEF SettleCommit, Rows, RunningRequests, Cleared, Statuses, Outcomes
  <2> QED
    BY <1>8, <1>a, <2>2 DEF SettleCommit
<1> QED
  BY <1>1, <1>2, <1>3, <1>4, <1>5, <1>6, <1>7, <1>8 DEF UserStep

LEMMA TypeStep ==
  ASSUME MonitoringAssumption, TypeOK, [Next]_vars
  PROVE  TypeOK'
<1> USE DEF TypeOK
<1>0. MaxFaults \in Nat /\ MaxQueued \in Nat
  BY DEF MonitoringAssumption
<1>1. ASSUME NEW w \in Workers, TakeCheck(w) PROVE TypeOK'
  <2>1. queue' \in 0 .. MaxQueued
    BY <1>0, <1>1 DEF TakeCheck
  <2>2. check' \in [Workers -> Checks]
    <3>1. CASE MayMonitor(row.status)
      <4> DEFINE c == [pc |-> IF row.exec.order /\ ~row.exec.trade
                                THEN "orders" ELSE "position",
                       status |-> row.status, hadNext |-> row.next # "none",
                       outcome |-> row.outcome, exec |-> row.exec, verdict |-> "continue"]
      <4>1. c \in Checks
        BY <3>1 DEF MayMonitor, Checks, RunningChecks, Rows, Verdicts
      <4>2. check' = [check EXCEPT ![w] = c]
        BY <1>1, <3>1 DEF TakeCheck
      <4> HIDE DEF c
      <4> QED
        BY <4>1, <4>2
    <3> QED
      BY <1>1, <3>1 DEF TakeCheck
  <2> QED
    BY <1>1, <2>1, <2>2 DEF TakeCheck
<1>2. ASSUME NEW w \in Workers, InterruptCheck(w) PROVE TypeOK'
  BY <1>0, <1>2 DEF InterruptCheck, Enqueued, Idle, Checks
<1>3. CASE InterruptReconcile
  BY <1>0, <1>3 DEF InterruptReconcile, Idle, Reconciliations
<1>4. CASE StartSweep
  BY <1>4 DEF StartSweep, Sweeps, Rows
<1>5. CASE SweepCommit
  <2>1. row' \in Rows
    BY <1>5 DEF SweepCommit, Sweeps, Idle, Rows, Cleared, Statuses
  <2> QED
    BY <1>5, <2>1 DEF SweepCommit, Sweeps
<1>6. CASE GraceEnds \/ MinutesPass \/ DayPasses
  BY <1>6 DEF GraceEnds, MinutesPass, DayPasses
<1>7. CASE FallOverdue \/ BrokerMoves
  BY <1>7 DEF FallOverdue, BrokerMoves, Rows
<1>8. CASE UNCHANGED vars
  BY <1>8 DEF vars
<1> QED
  BY <1>1, <1>2, <1>3, <1>4, <1>5, <1>6, <1>7, <1>8, CheckStepType, ReconcileStepType,
     UserStepType DEF Next

\* The row, the queue and the handlers' copies hold values of their types
\* (models/execution.py, schemas/pipeline_state.py).
THEOREM TypeCorrect == Spec => []TypeOK
<1>1. Init => TypeOK
  <2> SUFFICES ASSUME Init PROVE TypeOK
    OBVIOUS
  <2> USE MonitoringAssumption DEF MonitoringAssumption
  <2>1. row \in Rows /\ trade \in {"pending", "open", "closed", "void"}
    <3>1. PICK placed, filled \in BOOLEAN :
            /\ row = [status |-> "MONITORING", next |-> "due", outcome |-> "none",
                      exec |-> [order |-> placed, trade |-> filled /\ TradeIds,
                                filled |-> filled, errors |-> 0]]
            /\ trade \in IF filled THEN {"open"}
                         ELSE IF placed THEN {"pending"} ELSE {"pending", "void"}
      BY DEF Init
    <3>2. PICK t \in BOOLEAN : t = (filled /\ TradeIds)
      OBVIOUS
    <3>3. row = [status |-> "MONITORING", next |-> "due", outcome |-> "none",
                 exec |-> [order |-> placed, trade |-> t, filled |-> filled, errors |-> 0]]
      BY <3>1, <3>2
    <3>4. row \in Rows
      BY <3>3 DEF Rows, Statuses, Outcomes, TradeExecutions
    <3> QED
      BY <3>1, <3>4
  <2>2. Idle \in Checks /\ Idle \in Reconciliations /\ Idle \in Requests /\ Idle \in Sweeps
    BY DEF Idle, Checks, Reconciliations, Requests, Sweeps
  <2> QED
    BY <2>1, <2>2 DEF Init, TypeOK
<1> QED
  BY <1>1, TypeStep, MonitoringAssumption, PTL DEF Spec

-------------------------------------------------------------------------------
(* Rows in COMMUNICATION_ERROR keep a next check                             *)

LEMMA RetryStep ==
  ASSUME MonitoringAssumption, TypeOK, RetryIsScheduled, [Next]_vars
  PROVE  RetryIsScheduled'
<1> USE DEF RetryIsScheduled
<1>1. ASSUME NEW w \in Workers, CommitCheck(w) PROVE RetryIsScheduled'
  <2> DEFINE c == check[w]
  <2>1. c \in RunningChecks
    BY <1>1 DEF CommitCheck, TypeOK, Checks
  <2>2. row'.status = Status(c.status, NewStatus(c)) /\ row'.next = NextCheck(c)
    BY <1>1 DEF CommitCheck
  <2>3. CASE GoesOn(c)
    BY <2>2, <2>3 DEF NextCheck
  <2>4. CASE ~GoesOn(c)
    <3>1. NewStatus(c) \notin Monitorable /\ c.status \in Monitorable
      BY <2>1, <2>4 DEF GoesOn, RunningChecks
    <3> QED
      BY <2>2, <3>1 DEF Status, Monitorable
  <2> QED
    BY <2>3, <2>4
<1>2. ASSUME NEW w \in Workers, CheckStep(w), ~CommitCheck(w) PROVE UNCHANGED row
  BY <1>2 DEF CheckStep, GetOrders, ActivePosition, ActiveOrders, BracketPosition,
     PendingOrder, PositionFound, PositionGone, PositionUnknown, EmergencyExit,
     SendNextCheck, AckCheck
<1>3. ASSUME NEW w \in Workers, TakeCheck(w) \/ InterruptCheck(w) PROVE UNCHANGED row
  BY <1>3 DEF TakeCheck, InterruptCheck
<1>4. CASE ReconcileStep
  <2>1. CASE RescheduleOrphan
    BY <2>1 DEF RescheduleOrphan, TypeOK, Rows
  <2>2. CASE BookReconciled
    BY <2>2 DEF BookReconciled
  <2> QED
    BY <1>4, <2>1, <2>2 DEF ReconcileStep, StartReconcile, ReconcilePosition,
       ReconcileOrders, SendOrphan
<1>5. CASE UserStep
  <2>1. CASE CancelCommit \/ CloseCommit
    BY <2>1 DEF CancelCommit, CloseCommit, TypeOK, Rows
  <2>2. CASE ResumeCommit \/ SettleCommit
    BY <2>2 DEF ResumeCommit, SettleCommit
  <2> QED
    BY <1>5, <2>1, <2>2 DEF UserStep, StartCancel, StartClose, StartResume, StartSettle,
       StartRequest, CloseAtBroker, SendResumed
<1>6. CASE SweepCommit \/ FallOverdue
  BY <1>6 DEF SweepCommit, FallOverdue, TypeOK, Rows
<1>7. CASE InterruptReconcile \/ StartSweep \/ GraceEnds \/ MinutesPass \/ DayPasses \/ BrokerMoves
  BY <1>7 DEF InterruptReconcile, StartSweep, GraceEnds, MinutesPass, DayPasses, BrokerMoves
<1>8. CASE UNCHANGED vars
  BY <1>8 DEF vars
<1> QED
  BY <1>1, <1>2, <1>3, <1>4, <1>5, <1>6, <1>7, <1>8 DEF Next

\* However checks, reconciliations and requests overwrite each other's columns, a row in
\* COMMUNICATION_ERROR has a next check (_handle_communication_error; every handler that
\* clears next_check_at leaves another status).
THEOREM RetryScheduled == Spec => []RetryIsScheduled
<1>1. Init => RetryIsScheduled
  BY DEF Init, RetryIsScheduled
<1> QED
  BY <1>1, RetryStep, TypeCorrect, MonitoringAssumption, PTL DEF Spec

-------------------------------------------------------------------------------
(* Ended rows                                                                *)

LEMMA EndedStep ==
  ASSUME MonitoringAssumption, TypeOK, row.status \in Terminal, Quiet, [Next]_vars
  PROVE  Quiet' /\ row' = [row EXCEPT !.next = row'.next]
<1> USE DEF Quiet, Terminal
<1>0. row = [row EXCEPT !.next = row.next]
  BY DEF TypeOK, Rows
<1>1. ASSUME NEW w \in Workers, TakeCheck(w) PROVE UNCHANGED <<row, check, rec, req, sweep>>
  BY <1>1 DEF TakeCheck, MayMonitor, Monitorable
<1>2. ASSUME NEW w \in Workers, CheckStep(w)
      PROVE  /\ UNCHANGED <<row, rec, req, sweep>>
             /\ \A v \in Workers : check'[v].pc \in {"idle", "send", "ack"}
  <2>1. SendNextCheck(w) \/ AckCheck(w)
    BY <1>2 DEF CheckStep, GetOrders, ActivePosition, ActiveOrders, BracketPosition,
       PendingOrder, PositionFound, PositionGone, PositionUnknown, EmergencyExit, CommitCheck
  <2>2. check'[w].pc \in {"idle", "ack"} /\ \A v \in Workers \ {w} : check'[v] = check[v]
    <3>1. CASE AckCheck(w)
      BY <3>1 DEF AckCheck, TypeOK, Idle
    <3>2. CASE SendNextCheck(w)
      <4>1. check[w] \in [pc : {"idle", "send", "ack"}]
        BY DEF TypeOK, Checks, RunningChecks
      <4> QED
        BY <3>2, <4>1 DEF SendNextCheck, Goto, TypeOK
    <3> QED
      BY <2>1, <3>1, <3>2
  <2> QED
    BY <2>1, <2>2 DEF SendNextCheck, AckCheck
<1>3. ASSUME NEW w \in Workers, InterruptCheck(w)
      PROVE  /\ UNCHANGED <<row, rec, req, sweep>>
             /\ \A v \in Workers : check'[v].pc \in {"idle", "send", "ack"}
  BY <1>3 DEF InterruptCheck, TypeOK, Idle
<1>4. ASSUME ReconcileStep \/ InterruptReconcile
      PROVE  UNCHANGED <<row, check, req, sweep>> /\ rec'.pc = "idle"
  BY <1>4 DEF ReconcileStep, InterruptReconcile, StartReconcile, Reconcilable,
     ReconcilePosition, ReconcileOrders, RescheduleOrphan, SendOrphan, BookReconciled,
     Unanswered, Idle
<1>5. ASSUME UserStep PROVE UNCHANGED <<row, check, rec, sweep>> /\ req'.pc = "idle"
  BY <1>5 DEF UserStep, StartCancel, StartClose, StartResume, StartSettle, StartRequest,
     CancelCommit, CloseAtBroker, CloseCommit, ResumeCommit, SendResumed, SettleCommit, Idle
<1>6. ~StartSweep /\ ~SweepCommit
  BY DEF StartSweep, SweepCommit
<1>7. ASSUME GraceEnds \/ MinutesPass \/ DayPasses \/ BrokerMoves \/ UNCHANGED vars
      PROVE  UNCHANGED <<row, check, rec, req, sweep>>
  BY <1>7 DEF GraceEnds, MinutesPass, DayPasses, BrokerMoves, vars
<1>8. ASSUME FallOverdue
      PROVE  UNCHANGED <<check, rec, req, sweep>> /\ row' = [row EXCEPT !.next = row'.next]
  BY <1>8 DEF FallOverdue, TypeOK, Rows
<1> QED
  BY <1>0, <1>1, <1>2, <1>3, <1>4, <1>5, <1>6, <1>7, <1>8 DEF Next

\* An ended row that no handler holds a copy of is never taken up again, by any number
\* of queued or doubled checks (_load_execution, reconcile_user_trades, the endpoints).
THEOREM Ended == Spec => EndedStaysEnded
<1>1. TypeOK /\ [Next]_vars =>
        [row.status \in Terminal /\ Quiet =>
           Quiet' /\ row' = [row EXCEPT !.next = row'.next]]_vars
  BY EndedStep, MonitoringAssumption
<1> QED
  BY <1>1, TypeCorrect, PTL DEF Spec, EndedStaysEnded

-------------------------------------------------------------------------------
(* The reconciliation's two questions                                        *)

\* The trade only moves forward.
TradeMovesOn ==
  /\ trade # "pending" => trade' # "pending"
  /\ trade \notin Live => trade' \notin Live

LEMMA TradeMoves ==
  ASSUME TypeOK, [Next]_vars
  PROVE  TradeMovesOn
<1> USE DEF TradeMovesOn, Live
<1>1. ASSUME NEW w \in Workers, TakeCheck(w) \/ CheckStep(w) \/ InterruptCheck(w)
      PROVE  TradeMovesOn
  BY <1>1 DEF TakeCheck, InterruptCheck, CheckStep, GetOrders, ActivePosition, ActiveOrders,
     BracketPosition, PendingOrder, PositionFound, PositionGone, PositionUnknown,
     EmergencyExit, CommitCheck, SendNextCheck, AckCheck
<1>2. CASE ReconcileStep \/ InterruptReconcile
  BY <1>2 DEF ReconcileStep, InterruptReconcile, StartReconcile, ReconcilePosition,
     ReconcileOrders, RescheduleOrphan, SendOrphan, BookReconciled
<1>3. CASE UserStep
  BY <1>3 DEF UserStep, StartCancel, StartClose, StartResume, StartSettle, StartRequest,
     CancelCommit, CloseAtBroker, CloseCommit, ResumeCommit, SendResumed, SettleCommit
<1>4. CASE StartSweep \/ SweepCommit \/ GraceEnds \/ MinutesPass \/ DayPasses \/ FallOverdue
  BY <1>4 DEF StartSweep, SweepCommit, GraceEnds, MinutesPass, DayPasses, FallOverdue
<1>5. CASE BrokerMoves \/ UNCHANGED vars
  BY <1>5 DEF BrokerMoves, vars
<1> QED
  BY <1>1, <1>2, <1>3, <1>4, <1>5 DEF Next

\* What the reconciliation is about to book is over, or one of its two answers missed it.
ReconcileInv ==
  rec.pc = "book" /\ rec.status \in Monitorable => trade \notin Live \/ rec.misled # {}

\* The two questions of has_active_symbol, the orders second: an honest no of a settled
\* broker's list, about a trade that is not open without legs, means it is over.
LEMMA NotActive ==
  ASSUME ~Fresh, Says("orders", "no"), faults' = faults, ~(trade = "open" /\ ~Legs),
         MaxFaults \in Nat, faults \in 0 .. MaxFaults
  PROVE  trade \notin Live
<1> SUFFICES ASSUME trade \in Live PROVE FALSE
  OBVIOUS
<1>1. \A b \in Truth("orders") : b
  BY DEF Truth, Live
<1>2. PICK b \in Truth("orders") : "no" = IF b THEN "yes" ELSE "no"
  BY DEF Says
<1> QED
  BY <1>1, <1>2

LEMMA ReconcileInvStep ==
  ASSUME MonitoringAssumption, TypeOK, ReconcileInv, [Next]_vars
  PROVE  ReconcileInv'
<1> USE DEF ReconcileInv
<1>0. trade \notin Live => trade' \notin Live
  BY TradeMoves DEF TradeMovesOn
<1>1. CASE ReconcileOrders
  <2>1. rec \in RunningReconciliations /\ trade' = trade
    BY <1>1 DEF ReconcileOrders, TypeOK, Reconciliations
  <2>2. CASE rec' = Idle \/ rec' = [rec EXCEPT !.pc = "active"]
    BY <2>1, <2>2 DEF Idle, RunningReconciliations
  <2>3. CASE /\ Says("orders", "no")
             /\ Unanswered("book",
                  (IF Fresh THEN {"unlisted"} ELSE {})
                    \cup (IF trade = "open" /\ ~Legs THEN {"filled between"} ELSE {}))
    <3>1. rec'.misled = rec.misled \cup ((IF Fresh THEN {"unlisted"} ELSE {})
                          \cup (IF trade = "open" /\ ~Legs THEN {"filled between"} ELSE {}))
                          \cup (IF faults' # faults THEN {"swallowed"} ELSE {})
      BY <2>1, <2>3 DEF Unanswered, RunningReconciliations
    <3>2. CASE Fresh \/ faults' # faults \/ (trade = "open" /\ ~Legs)
      BY <3>1, <3>2
    <3>3. CASE ~Fresh /\ faults' = faults /\ ~(trade = "open" /\ ~Legs)
      BY <2>1, <2>3, <3>3, NotActive DEF TypeOK, MonitoringAssumption
    <3> QED
      BY <3>2, <3>3
  <2> QED
    BY <1>1, <2>2, <2>3 DEF ReconcileOrders
<1>2. CASE ReconcilePosition
  <2>1. rec \in RunningReconciliations
    BY <1>2 DEF ReconcilePosition, TypeOK, Reconciliations
  <2>2. CASE \E reasons : Unanswered("orders", reasons)
    BY <2>1, <2>2 DEF Unanswered, RunningReconciliations
  <2>3. CASE rec' = Idle \/ rec' = [rec EXCEPT !.pc = "active"]
    BY <2>1, <2>3 DEF Idle, RunningReconciliations
  <2> QED
    BY <1>2, <2>2, <2>3 DEF ReconcilePosition
<1>3. CASE StartReconcile
  BY <1>3 DEF StartReconcile, Monitorable
<1>4. CASE RescheduleOrphan \/ SendOrphan \/ BookReconciled \/ InterruptReconcile
  BY <1>4 DEF RescheduleOrphan, SendOrphan, BookReconciled, InterruptReconcile, Idle
<1>5. ASSUME NEW w \in Workers, TakeCheck(w) \/ CheckStep(w) \/ InterruptCheck(w)
      PROVE  ReconcileInv'
  <2>1. UNCHANGED rec
    BY <1>5 DEF TakeCheck, InterruptCheck, CheckStep, GetOrders, ActivePosition, ActiveOrders,
       BracketPosition, PendingOrder, PositionFound, PositionGone, PositionUnknown,
       EmergencyExit, CommitCheck, SendNextCheck, AckCheck
  <2> QED
    BY <1>0, <2>1
<1>6. CASE UserStep
  <2>1. UNCHANGED rec
    BY <1>6 DEF UserStep, StartCancel, StartClose, StartResume, StartSettle, StartRequest,
       CancelCommit, CloseAtBroker, CloseCommit, ResumeCommit, SendResumed, SettleCommit
  <2> QED
    BY <1>0, <2>1
<1>7. CASE \/ StartSweep \/ SweepCommit \/ GraceEnds \/ MinutesPass \/ DayPasses
           \/ FallOverdue \/ BrokerMoves \/ UNCHANGED vars
  <2>1. UNCHANGED rec
    BY <1>7 DEF StartSweep, SweepCommit, GraceEnds, MinutesPass, DayPasses, FallOverdue,
       BrokerMoves, vars
  <2> QED
    BY <1>0, <2>1
<1> QED
  BY <1>1, <1>2, <1>3, <1>4, <1>5, <1>6, <1>7 DEF Next, ReconcileStep

\* "Swallowing errors could cause false reconciliation (marking active trades as
\* closed)" (has_active_symbol): with any broker, whatever fails and whoever else commits
\* to the row, these are the ways to book a live trade as over: a swallowed error, an
\* order too new for the broker's list, a fill between the questions that leaves no order.
THEOREM NoFalse == Spec => NoFalseReconciliation
<1>1. Init => ReconcileInv
  BY DEF Init, ReconcileInv, Idle
<1>2. TypeOK /\ ReconcileInv /\ [Next]_vars => ReconcileInv'
  BY ReconcileInvStep, MonitoringAssumption
<1>3. ReconcileInv /\ [Next]_vars => [ReconcileBooks /\ trade \in Live => rec.misled # {}]_vars
  BY DEF ReconcileInv, ReconcileBooks
<1> QED
  BY <1>1, <1>2, <1>3, TypeCorrect, PTL DEF Spec, NoFalseReconciliation

-------------------------------------------------------------------------------
(* Trades that are booked as executed                                        *)

\* Only a position tells the trade's id: then the order is filled.
FilledIfTrade(exec) == exec.trade => trade # "pending"

\* What a check holds.  The row it loaded had no outcome; it asks whether a bracket is
\* active within the broker's lag, or when it is filled or over; it asks for the position
\* of a bracket whose order it knows only when that is filled or over.
CheckInv(c) ==
  c \in RunningChecks =>
    /\ c.outcome = "none" /\ c.pc # "exit"
    /\ FilledIfTrade(c.exec)
    /\ c.pc \in {"active position", "active orders"} /\ Legs =>
         Fresh \/ trade # "pending"
    /\ c.pc = "position" /\ c.exec.order /\ Legs => trade # "pending"
    /\ c.pc = "commit" /\ c.verdict = "executed" => trade \notin Live

ExecutedInv ==
  /\ row.status \in Monitorable => row.outcome = "none"
  /\ FilledIfTrade(row.exec)
  /\ rec \in RunningReconciliations => FilledIfTrade(rec.exec)
  /\ req \in RunningRequests => FilledIfTrade(req.exec)
  /\ \A w \in Workers : CheckInv(check[w])

\* A check that stays where it is, while no broker's lag ends that it counts on.
LEMMA CheckKept ==
  ASSUME NEW v \in Workers, CheckInv(check[v]), check'[v] = check[v], TradeMovesOn,
         (Fresh' <=> Fresh) \/ check[v].pc \notin {"active position", "active orders"}
  PROVE  CheckInv(check[v])'
BY DEF CheckInv, FilledIfTrade, TradeMovesOn

\* A broker that raises its errors tells no lie.
LEMMA PositionSaysNo ==
  ASSUME "get_position" \notin SwallowedCalls, Says("position", "no")
  PROVE  trade # "open"
BY DEF Says, Call, Truth

LEMMA PositionSaysYes ==
  ASSUME Says("position", "yes")
  PROVE  trade = "open"
BY DEF Says, Call, Truth

LEMMA OwnOrderSaysNo ==
  ASSUME "get_orders" \notin SwallowedCalls, Says("own order", "no")
  PROVE  Fresh \/ trade # "pending"
<1> SUFFICES ASSUME ~Fresh, trade = "pending" PROVE FALSE
  OBVIOUS
<1>1. \A b \in Truth("own order") : b
  BY DEF Truth
<1>2. PICK b \in Truth("own order") : "no" = IF b THEN "yes" ELSE "no"
  BY DEF Says, Call
<1> QED
  BY <1>1, <1>2

\* Where a check goes next, for each way to go.
LEMMA DecideInv ==
  ASSUME NEW w \in Workers, TypeOK, check[w] \in RunningChecks, CheckInv(check[w]),
         NEW exec, NEW verdict, Decide(w, exec, verdict), TradeMovesOn,
         exec.trade => check[w].exec.trade \/ trade = "open",
         verdict = "executed" => trade \notin Live
  PROVE  CheckInv(check[w])' /\ \A v \in Workers \ {w} : check'[v] = check[v]
<1>1. check' = [check EXCEPT ![w] = [check[w] EXCEPT !.pc = "commit", !.exec = exec,
                                                     !.verdict = verdict]]
  BY DEF Decide, TypeOK
<1>2. /\ check'[w].pc = "commit" /\ check'[w].outcome = check[w].outcome
      /\ check'[w].exec = exec /\ check'[w].verdict = verdict
  BY <1>1 DEF TypeOK, RunningChecks
<1> QED
  BY <1>1, <1>2 DEF TypeOK, CheckInv, FilledIfTrade, TradeMovesOn, Live

LEMMA GotoInv ==
  ASSUME NEW w \in Workers, TypeOK, check[w] \in RunningChecks, CheckInv(check[w]),
         NEW exec, NEW pc \in {"active position", "active orders", "bracket", "pending",
                               "position"},
         GotoWith(w, pc, exec), TradeMovesOn, (Fresh' <=> Fresh),
         exec.trade => check[w].exec.trade \/ trade = "open",
         pc \in {"active position", "active orders"} /\ Legs =>
           Fresh \/ trade # "pending",
         pc = "position" /\ exec.order /\ Legs => trade # "pending"
  PROVE  CheckInv(check[w])' /\ \A v \in Workers \ {w} : check'[v] = check[v]
<1>1. check' = [check EXCEPT ![w] = [check[w] EXCEPT !.pc = pc, !.exec = exec]]
  BY DEF GotoWith, TypeOK
<1>2. /\ check'[w].pc = pc /\ check'[w].outcome = check[w].outcome
      /\ check'[w].exec = exec
  BY <1>1 DEF TypeOK, RunningChecks
<1> QED
  BY <1>1, <1>2 DEF TypeOK, CheckInv, FilledIfTrade, TradeMovesOn, Live

LEMMA GotoSame ==
  ASSUME NEW w \in Workers, TypeOK, check[w] \in RunningChecks, NEW pc, Goto(w, pc)
  PROVE  GotoWith(w, pc, check[w].exec)
<1>1. check[w] = [check[w] EXCEPT !.exec = check[w].exec]
  BY DEF RunningChecks
<1>2. [check[w] EXCEPT !.pc = pc] = [check[w] EXCEPT !.pc = pc, !.exec = check[w].exec]
  BY DEF RunningChecks
<1> QED
  BY <1>2 DEF Goto, GotoWith, TypeOK

LEMMA AfterGraceInv ==
  ASSUME NEW w \in Workers, TypeOK, check[w] \in RunningChecks, CheckInv(check[w]),
         NEW exec, AfterGrace(w, exec), TradeMovesOn, (Fresh' <=> Fresh),
         exec.trade => check[w].exec.trade,
         Legs => Fresh \/ trade # "pending"
  PROVE  CheckInv(check[w])' /\ \A v \in Workers \ {w} : check'[v] = check[v]
<1>1. CASE Fresh
  BY <1>1, DecideInv DEF AfterGrace
<1>2. CASE ~Fresh
  BY <1>2, GotoInv DEF AfterGrace
<1> QED
  BY <1>1, <1>2

LEMMA ApiErrorInv ==
  ASSUME MonitoringAssumption, NEW w \in Workers, TypeOK, check[w] \in RunningChecks,
         CheckInv(check[w]), ApiError(w), TradeMovesOn
  PROVE  CheckInv(check[w])' /\ \A v \in Workers \ {w} : check'[v] = check[v]
<1> DEFINE errors == check[w].exec.errors + 1
           m == IF errors > MaxRetries THEN check[w].exec.errors ELSE errors
<1>0. \E verdict \in {"comm_error", "retry"} :
        Decide(w, [check[w].exec EXCEPT !.errors = m], verdict)
  BY DEF ApiError
<1> HIDE DEF m
<1>1. PICK n : \E verdict \in {"comm_error", "retry"} :
        Decide(w, [check[w].exec EXCEPT !.errors = n], verdict)
  BY <1>0
<1>2. [check[w].exec EXCEPT !.errors = n].trade = check[w].exec.trade
  BY DEF RunningChecks, TradeExecutions
<1> QED
  BY <1>1, <1>2, DecideInv

\* Every step of a check up to its commit.
LEMMA ExecutedCheckStep ==
  ASSUME MonitoringAssumption, TypeOK, ExecutedInv, NEW w \in Workers,
         CheckStep(w), ~CommitCheck(w), TradeMovesOn,
         ~EmergencyExits, "get_position" \notin SwallowedCalls,
         Legs => "get_orders" \notin SwallowedCalls
  PROVE  CheckInv(check[w])' /\ \A v \in Workers \ {w} : check'[v] = check[v]
<1>a. CheckInv(check[w])
  BY DEF ExecutedInv
<1>b. check[w].pc \notin {"idle", "send", "ack"} => check[w] \in RunningChecks
  BY DEF TypeOK, Checks
<1>c. check[w] \in RunningChecks => check[w].exec \in TradeExecutions
  BY DEF RunningChecks
<1>1. CASE GetOrders(w)
  <2> DEFINE exec == [check[w].exec EXCEPT !.errors = 0]
  <2>1. check[w] \in RunningChecks /\ (Fresh' <=> Fresh)
    BY <1>1, <1>b DEF GetOrders, Fresh
  <2>2. exec.trade = check[w].exec.trade
    BY <1>c, <2>1 DEF TradeExecutions
  <2> HIDE DEF exec
  <2>3. CASE \E pc \in {"bracket", "pending"} : GotoWith(w, pc, exec)
    BY <1>a, <2>1, <2>2, <2>3, GotoInv
  <2>4. CASE Says("own order", "no") /\ GotoWith(w, "active position", exec)
    BY <1>a, <2>1, <2>2, <2>4, GotoInv, OwnOrderSaysNo
  <2>5. CASE ApiError(w)
    BY <1>a, <2>1, <2>5, ApiErrorInv
  <2> QED
    BY <1>1, <2>3, <2>4, <2>5 DEF GetOrders, exec
<1>2. CASE ActivePosition(w) \/ ActiveOrders(w)
  <2>1. check[w] \in RunningChecks /\ (Fresh' <=> Fresh)
    BY <1>2, <1>b DEF ActivePosition, ActiveOrders, Fresh
  <2>2. Legs => Fresh \/ trade # "pending"
    BY <1>2, <1>a, <2>1 DEF ActivePosition, ActiveOrders, CheckInv
  <2>3. CASE AfterGrace(w, check[w].exec)
    BY <1>a, <2>1, <2>2, <2>3, AfterGraceInv
  <2>4. CASE Goto(w, "active orders")
    BY <1>a, <2>1, <2>2, <2>4, GotoSame, GotoInv
  <2>5. CASE Decide(w, check[w].exec, "cancelled")
    BY <1>a, <2>1, <2>5, DecideInv
  <2> QED
    BY <1>2, <2>3, <2>4, <2>5 DEF ActivePosition, ActiveOrders
<1>3. CASE BracketPosition(w)
  <2> DEFINE exec == [check[w].exec EXCEPT !.filled = TRUE]
  <2>1. check[w] \in RunningChecks /\ (Fresh' <=> Fresh)
    BY <1>3, <1>b DEF BracketPosition, Fresh
  <2>2. exec.trade = check[w].exec.trade
    BY <1>c, <2>1 DEF TradeExecutions
  <2> HIDE DEF exec
  <2>3. CASE Says("position", "yes") /\ AfterGrace(w, exec)
    BY <1>a, <2>1, <2>2, <2>3, AfterGraceInv, PositionSaysYes
  <2>4. CASE Goto(w, "pending")
    BY <1>a, <2>1, <2>4, GotoSame, GotoInv
  <2> QED
    BY <1>3, <2>3, <2>4 DEF BracketPosition, exec
<1>4. CASE PendingOrder(w)
  <2>1. check[w] \in RunningChecks
    BY <1>4, <1>b DEF PendingOrder
  <2>2. CASE \E v \in {"continue", "cancelled"} : Decide(w, check[w].exec, v)
    BY <1>a, <2>1, <2>2, DecideInv
  <2>3. CASE ApiError(w)
    BY <1>a, <2>1, <2>3, ApiErrorInv
  <2> QED
    BY <1>4, <2>2, <2>3 DEF PendingOrder
<1>5. CASE PositionFound(w)
  <2>1. check[w] \in RunningChecks
    BY <1>5, <1>b DEF PositionFound
  <2>2. PICK exec : Decide(w, exec, "continue")
    BY <1>5 DEF PositionFound
  <2>3. trade = "open"
    BY <1>5, PositionSaysYes DEF PositionFound
  <2> QED
    BY <1>a, <2>1, <2>2, <2>3, DecideInv
<1>6. CASE PositionGone(w)
  <2>1. check[w] \in RunningChecks /\ check[w].pc = "position" /\ trade # "open"
    BY <1>6, <1>b, PositionSaysNo DEF PositionGone
  <2>2. PICK verdict : Decide(w, check[w].exec, verdict) /\ (verdict = "executed" =>
             check[w].exec.trade \/ (check[w].exec.order /\ Legs))
    <3> DEFINE exec == check[w].exec
    <3>1. CASE \E v \in {"continue", "needs_reconciliation"} : Decide(w, exec, v)
      BY <3>1
    <3>2. CASE /\ ~(exec.order /\ ~exec.trade /\ ~Legs) /\ ~(~exec.order /\ ~exec.trade)
               /\ \E v : Decide(w, exec, v)
      BY <3>2, <1>c, <2>1 DEF TradeExecutions, MonitoringAssumption
    <3> QED
      BY <1>6, <3>1, <3>2 DEF PositionGone
  <2>3. verdict = "executed" => trade \notin Live
    BY <1>a, <2>1, <2>2 DEF CheckInv, FilledIfTrade, Live
  <2> QED
    BY <1>a, <2>1, <2>2, <2>3, DecideInv
<1>7. CASE PositionUnknown(w)
  BY <1>7, <1>a, <1>b, ApiErrorInv DEF PositionUnknown
<1>8. CASE EmergencyExit(w)
  BY <1>8, <1>a, <1>b DEF EmergencyExit, CheckInv
<1>9. CASE SendNextCheck(w) \/ AckCheck(w)
  <2>1. check'[w].pc \in {"idle", "ack"} /\ \A v \in Workers \ {w} : check'[v] = check[v]
    <3>1. CASE AckCheck(w)
      BY <3>1 DEF AckCheck, TypeOK, Idle
    <3>2. CASE SendNextCheck(w)
      <4>1. check[w] \in [pc : {"idle", "send", "ack"}]
        BY <3>2 DEF SendNextCheck, TypeOK, Checks, RunningChecks
      <4> QED
        BY <3>2, <4>1 DEF SendNextCheck, Goto, TypeOK
    <3> QED
      BY <1>9, <3>1, <3>2
  <2> QED
    BY <2>1 DEF CheckInv, RunningChecks
<1> QED
  BY <1>1, <1>2, <1>3, <1>4, <1>5, <1>6, <1>7, <1>8, <1>9 DEF CheckStep

LEMMA ExecutedStep ==
  ASSUME MonitoringAssumption, TypeOK, ExecutedInv, [Next]_vars,
         ~EmergencyExits, "get_position" \notin SwallowedCalls,
         Legs => "get_orders" \notin SwallowedCalls
  PROVE  ExecutedInv'
<1>0. TradeMovesOn
  BY TradeMoves
<1>k. ASSUME NEW v \in Workers, check'[v] = check[v],
             (Fresh' <=> Fresh) \/ check[v].pc \notin {"active position", "active orders"}
      PROVE  CheckInv(check[v])'
  BY <1>0, <1>k, CheckKept DEF ExecutedInv
<1>f. age' = age => (Fresh' <=> Fresh)
  BY DEF Fresh
<1>r. UNCHANGED <<row, rec, req>> =>
        /\ (row.status \in Monitorable => row.outcome = "none")'
        /\ FilledIfTrade(row.exec)'
        /\ (rec \in RunningReconciliations => FilledIfTrade(rec.exec))'
        /\ (req \in RunningRequests => FilledIfTrade(req.exec))'
  BY <1>0 DEF ExecutedInv, FilledIfTrade, TradeMovesOn
<1>1. ASSUME NEW w \in Workers, TakeCheck(w) PROVE ExecutedInv'
  <2>1. UNCHANGED <<row, rec, req, age>> /\ \A v \in Workers \ {w} : check'[v] = check[v]
    BY <1>1 DEF TakeCheck, TypeOK
  <2>2. CheckInv(check[w])'
    <3>1. CASE UNCHANGED check
      BY <1>f, <1>k, <2>1, <3>1
    <3>2. CASE MayMonitor(row.status)
      <4>1. /\ check'[w].pc = IF row.exec.order /\ ~row.exec.trade THEN "orders" ELSE "position"
            /\ check'[w].outcome = row.outcome /\ check'[w].exec = row.exec
        BY <1>1, <3>2 DEF TakeCheck, TypeOK
      <4> QED
        BY <1>0, <3>2, <4>1 DEF MayMonitor, ExecutedInv, CheckInv, FilledIfTrade, TradeMovesOn
    <3> QED
      BY <1>1, <3>1, <3>2 DEF TakeCheck
  <2> QED
    BY <1>f, <1>k, <1>r, <2>1, <2>2 DEF ExecutedInv
<1>2. ASSUME NEW w \in Workers, CheckStep(w), ~CommitCheck(w) PROVE ExecutedInv'
  <2>1. UNCHANGED <<row, rec, req, age>>
    BY <1>2 DEF CheckStep, GetOrders, ActivePosition, ActiveOrders, BracketPosition,
       PendingOrder, PositionFound, PositionGone, PositionUnknown, EmergencyExit,
       SendNextCheck, AckCheck
  <2> QED
    BY <1>0, <1>2, <1>f, <1>k, <1>r, <2>1, ExecutedCheckStep DEF ExecutedInv
<1>3. ASSUME NEW w \in Workers, CommitCheck(w) PROVE ExecutedInv'
  <2> DEFINE c == check[w]
  <2>1. /\ c \in RunningChecks /\ c.outcome = "none" /\ FilledIfTrade(c.exec)
        /\ c.status \in Monitorable
    BY <1>3 DEF CommitCheck, TypeOK, Checks, ExecutedInv, CheckInv, RunningChecks
  <2>2. /\ row'.status = Status(c.status, NewStatus(c)) /\ row'.exec = c.exec
        /\ row'.outcome = IF c.verdict \in Outcomes THEN c.verdict ELSE c.outcome
        /\ UNCHANGED <<rec, req, trade, age>>
    BY <1>3 DEF CommitCheck
  <2>3. row'.status \in Monitorable => row'.outcome = "none"
    <3>1. CASE c.verdict \in {"continue", "retry", "comm_error"}
      BY <2>1, <2>2, <3>1 DEF Outcomes
    <3>2. CASE c.verdict \in {"cancelled", "executed", "needs_reconciliation"}
      <4>1. NewStatus(c) \in {"NEEDS_RECONCILIATION", "COMPLETED"}
        BY <3>2 DEF NewStatus
      <4> QED
        BY <2>1, <2>2, <4>1 DEF Status, Monitorable
    <3> QED
      BY <2>1, <3>1, <3>2 DEF RunningChecks, Verdicts
  <2>4. /\ check'[w].pc \in {"send", "ack"}
        /\ \A v \in Workers \ {w} : check'[v] = check[v]
    BY <1>3 DEF CommitCheck, TypeOK
  <2>5. CheckInv(check[w])'
    BY <2>4 DEF CheckInv, RunningChecks
  <2> QED
    BY <1>f, <1>k, <2>1, <2>2, <2>3, <2>4, <2>5 DEF ExecutedInv, FilledIfTrade
<1>4. ASSUME NEW w \in Workers, InterruptCheck(w) PROVE ExecutedInv'
  <2>1. /\ UNCHANGED <<row, rec, req, age>> /\ check'[w].pc = "idle"
        /\ \A v \in Workers \ {w} : check'[v] = check[v]
    BY <1>4 DEF InterruptCheck, TypeOK, Idle
  <2>2. CheckInv(check[w])'
    BY <2>1 DEF CheckInv, RunningChecks
  <2> QED
    BY <1>f, <1>k, <1>r, <2>1, <2>2 DEF ExecutedInv
<1>5. CASE ReconcileStep \/ InterruptReconcile
  <2>1. UNCHANGED <<check, req, age>>
    BY <1>5 DEF ReconcileStep, InterruptReconcile, StartReconcile, ReconcilePosition,
       ReconcileOrders, RescheduleOrphan, SendOrphan, BookReconciled
  <2>2. /\ (row.status \in Monitorable => row.outcome = "none")'
        /\ FilledIfTrade(row.exec)'
    <3>1. CASE RescheduleOrphan
      BY <1>0, <3>1 DEF RescheduleOrphan, TypeOK, Rows, ExecutedInv, FilledIfTrade, TradeMovesOn
    <3>2. CASE BookReconciled
      <4>1. rec \in RunningReconciliations
        BY <3>2 DEF BookReconciled, TypeOK, Reconciliations
      <4>2. UNCHANGED row \/ (row'.status \notin Monitorable /\ row'.exec = rec.exec)
        BY <3>2 DEF BookReconciled, Monitorable
      <4> QED
        BY <1>0, <4>1, <4>2 DEF ExecutedInv, FilledIfTrade, TradeMovesOn
    <3>3. CASE UNCHANGED row
      BY <1>0, <3>3 DEF ExecutedInv, FilledIfTrade, TradeMovesOn
    <3> QED
      BY <1>5, <3>1, <3>2, <3>3 DEF ReconcileStep, InterruptReconcile, StartReconcile,
         ReconcilePosition, ReconcileOrders, SendOrphan
  <2>3. (rec \in RunningReconciliations => FilledIfTrade(rec.exec))'
    <3>1. CASE StartReconcile
      BY <1>0, <3>1 DEF StartReconcile, ExecutedInv, FilledIfTrade, TradeMovesOn
    <3>2. CASE rec'.pc \in {"idle", "send"}
      BY <3>2 DEF RunningReconciliations
    <3>3. CASE ReconcilePosition \/ ReconcileOrders
      <4>1. CASE rec' = Idle
        BY <4>1 DEF Idle, RunningReconciliations
      <4>2. CASE \E pc, m : rec' = [rec EXCEPT !.pc = pc, !.misled = m]
        <5>1. rec \in RunningReconciliations /\ rec'.exec = rec.exec
          BY <3>3, <4>2, AnswerMove DEF RunningReconciliations
        <5> QED
          BY <1>0, <5>1 DEF ExecutedInv, FilledIfTrade, TradeMovesOn
      <4> QED
        BY <3>3, <4>1, <4>2, AnswerMove
    <3> QED
      BY <1>5, <3>1, <3>2, <3>3 DEF ReconcileStep, InterruptReconcile,
         RescheduleOrphan, SendOrphan, BookReconciled, Idle
  <2>4. (req \in RunningRequests => FilledIfTrade(req.exec))'
    BY <1>0, <2>1 DEF ExecutedInv, FilledIfTrade, TradeMovesOn
  <2> QED
    BY <1>f, <1>k, <2>1, <2>2, <2>3, <2>4 DEF ExecutedInv
<1>6. CASE UserStep
  <2>1. UNCHANGED <<check, rec, age>>
    BY <1>6 DEF UserStep, StartCancel, StartClose, StartResume, StartSettle, StartRequest,
       CancelCommit, CloseAtBroker, CloseCommit, ResumeCommit, SendResumed, SettleCommit
  <2>2. /\ (row.status \in Monitorable => row.outcome = "none")'
        /\ FilledIfTrade(row.exec)'
    <3>1. CASE CancelCommit \/ CloseCommit
      <4>1. row'.status \notin Monitorable /\ row'.exec = row.exec
        BY <3>1 DEF CancelCommit, CloseCommit, TypeOK, Rows, Monitorable
      <4> QED
        BY <1>0, <4>1 DEF ExecutedInv, FilledIfTrade, TradeMovesOn
    <3>2. CASE ResumeCommit \/ SettleCommit
      <4>1. req \in RunningRequests
        BY <3>2 DEF ResumeCommit, SettleCommit, TypeOK, Requests
      <4>2. \/ UNCHANGED row
            \/ /\ row'.outcome = "none" \/ row'.status \notin Monitorable
               /\ row'.exec = req.exec
        BY <3>2 DEF ResumeCommit, SettleCommit, Monitorable
      <4> QED
        BY <1>0, <4>1, <4>2 DEF ExecutedInv, FilledIfTrade, TradeMovesOn
    <3>3. CASE UNCHANGED row
      BY <1>0, <3>3 DEF ExecutedInv, FilledIfTrade, TradeMovesOn
    <3> QED
      BY <1>6, <3>1, <3>2, <3>3 DEF UserStep, StartCancel, StartClose, StartResume,
         StartSettle, StartRequest, CloseAtBroker, SendResumed
  <2>3. (req \in RunningRequests => FilledIfTrade(req.exec))'
    <3>1. CASE StartClose \/ StartResume \/ StartSettle
      <4>1. req'.exec = row.exec
        BY <3>1 DEF StartClose, StartResume, StartSettle, StartRequest
      <4> QED
        BY <1>0, <4>1 DEF ExecutedInv, FilledIfTrade, TradeMovesOn
    <3>2. CASE req'.pc \in {"idle", "send", "cancel"}
      BY <3>2 DEF RunningRequests
    <3>3. CASE CloseAtBroker /\ req' = [req EXCEPT !.pc = "closed"]
      <4>1. req \in RunningRequests
        BY <3>3 DEF CloseAtBroker, TypeOK, Requests
      <4> QED
        BY <1>0, <3>3, <4>1 DEF RunningRequests, ExecutedInv, FilledIfTrade, TradeMovesOn
    <3> QED
      BY <1>6, <3>1, <3>2, <3>3 DEF UserStep, StartCancel, CancelCommit, CloseAtBroker,
         CloseCommit, ResumeCommit, SendResumed, SettleCommit, Idle
  <2>4. (rec \in RunningReconciliations => FilledIfTrade(rec.exec))'
    BY <1>0, <2>1 DEF ExecutedInv, FilledIfTrade, TradeMovesOn
  <2> QED
    BY <1>f, <1>k, <2>1, <2>2, <2>3, <2>4 DEF ExecutedInv
<1>7. CASE SweepCommit \/ FallOverdue
  <2>1. /\ UNCHANGED <<check, rec, req, age>> /\ row'.exec = row.exec
        /\ row'.status \in Monitorable => row'.status = row.status /\ row'.outcome = row.outcome
    BY <1>7 DEF SweepCommit, FallOverdue, TypeOK, Rows, Monitorable
  <2> QED
    BY <1>0, <1>f, <1>k, <2>1 DEF ExecutedInv, FilledIfTrade, TradeMovesOn
<1>8. CASE GraceEnds \/ MinutesPass \/ DayPasses
  <2>1. /\ UNCHANGED <<row, rec, req, check>>
        /\ (Fresh' <=> Fresh) \/ \A v \in Workers :
             check[v].pc \notin {"active position", "active orders"}
    <3>1. CASE GraceEnds \/ DayPasses
      BY <3>1 DEF GraceEnds, DayPasses, Fresh
    <3>2. CASE MinutesPass
      BY <3>2 DEF MinutesPass
    <3> QED
      BY <1>8, <3>1, <3>2
  <2>2. ASSUME NEW v \in Workers PROVE CheckInv(check[v])'
    <3>1. check'[v] = check[v]
      BY <2>1
    <3>2. (Fresh' <=> Fresh) \/ check[v].pc \notin {"active position", "active orders"}
      BY <2>1
    <3> QED
      BY <1>k, <3>1, <3>2
  <2> QED
    BY <1>r, <2>1, <2>2 DEF ExecutedInv
<1>9. CASE StartSweep \/ BrokerMoves \/ UNCHANGED vars
  <2>1. UNCHANGED <<row, rec, req, check, age>>
    BY <1>9 DEF StartSweep, BrokerMoves, vars
  <2> QED
    BY <1>f, <1>k, <1>r, <2>1 DEF ExecutedInv
<1> QED
  BY <1>1, <1>2, <1>3, <1>4, <1>5, <1>6, <1>7, <1>8, <1>9 DEF Next

\* What a check commits as executed was over when the check decided so, and still is.
LEMMA ExecutedBooks ==
  ASSUME TypeOK, ExecutedInv, [Next]_vars,
         NEW w \in Workers, CheckBooks(w, "executed")
  PROVE  trade \notin Live
<1>1. CommitCheck(w)
  <2>1. check'[w] # check[w]
    BY DEF CheckBooks
  <2>2. PICK v \in Workers : TakeCheck(v) \/ CheckStep(v) \/ InterruptCheck(v)
    BY <2>1 DEF Next, ReconcileStep, InterruptReconcile, StartReconcile, ReconcilePosition,
       ReconcileOrders, RescheduleOrphan, SendOrphan, BookReconciled, UserStep, StartCancel,
       StartClose, StartResume, StartSettle, StartRequest, CancelCommit, CloseAtBroker,
       CloseCommit, ResumeCommit, SendResumed, SettleCommit, StartSweep, SweepCommit,
       GraceEnds, MinutesPass, DayPasses, FallOverdue, BrokerMoves, vars
  <2>3. v = w
    BY <2>1, <2>2 DEF TypeOK, TakeCheck, InterruptCheck, CheckStep, GetOrders, ActivePosition,
       ActiveOrders, BracketPosition, PendingOrder, PositionFound, PositionGone,
       PositionUnknown, EmergencyExit, CommitCheck, SendNextCheck, AckCheck, ApiError,
       AfterGrace, Goto, GotoWith, Decide
  <2>4. ~TakeCheck(w) /\ ~InterruptCheck(w)
    BY DEF CheckBooks, TakeCheck, InterruptCheck, TypeOK, Idle
  <2> QED
    BY <2>2, <2>3, <2>4 DEF CheckBooks, CheckStep, GetOrders, ActivePosition, ActiveOrders,
       BracketPosition, PendingOrder, PositionFound, PositionGone, PositionUnknown,
       EmergencyExit, SendNextCheck, AckCheck
<1>2. check[w].verdict = "executed"
  <2>1. check[w] \in RunningChecks /\ check[w].outcome = "none"
    BY <1>1 DEF CommitCheck, TypeOK, Checks, ExecutedInv, CheckInv
  <2> QED
    BY <1>1, <2>1 DEF CommitCheck, CheckBooks
<1> QED
  BY <1>1, <1>2 DEF CommitCheck, TypeOK, Checks, ExecutedInv, CheckInv

\* A check books a trade as executed only when nothing of it is alive at the broker,
\* for any number of checks that run at once, whatever they overwrite: as long as the
\* broker raises the errors of get_position, and of get_orders when it keeps the legs,
\* and no emergency exit is asked for (_close_position's answer is not looked at).
THEOREM Executed ==
  /\ ~EmergencyExits /\ "get_position" \notin SwallowedCalls
  /\ Legs => "get_orders" \notin SwallowedCalls
  => (Spec => ExecutedIsOver)
<1> SUFFICES ASSUME ~EmergencyExits, "get_position" \notin SwallowedCalls,
                    Legs => "get_orders" \notin SwallowedCalls
             PROVE  Spec => ExecutedIsOver
  OBVIOUS
<1>1. Init => ExecutedInv
  <2> SUFFICES ASSUME Init PROVE ExecutedInv
    OBVIOUS
  <2>1. row.outcome = "none" /\ (row.exec.trade => trade = "open")
    BY DEF Init
  <2>2. /\ rec \notin RunningReconciliations /\ req \notin RunningRequests
        /\ \A w \in Workers : check[w] \notin RunningChecks
    BY DEF Init, Idle, RunningReconciliations, RunningRequests, RunningChecks
  <2> QED
    BY <2>1, <2>2 DEF ExecutedInv, FilledIfTrade, CheckInv
<1>2. TypeOK /\ ExecutedInv /\ [Next]_vars => ExecutedInv'
  BY ExecutedStep, MonitoringAssumption
<1>3. TypeOK /\ ExecutedInv /\ [Next]_vars =>
        [\A w \in Workers : CheckBooks(w, "executed") => trade \notin Live]_vars
  BY ExecutedBooks
<1> QED
  BY <1>1, <1>2, <1>3, TypeCorrect, PTL DEF Spec, ExecutedIsOver
===============================================================================
