---------------------------- MODULE ExecutionDetail ----------------------------
(***************************************************************************)
(* The page of one execution in the web client: it refreshes itself every  *)
(* ten seconds while the execution is monitored or waits for an approval,  *)
(* and offers to approve, to reject and to close the position.  A request  *)
(* is read by the backend, and answered, at any later time.                *)
(***************************************************************************)
EXTENDS ExecutionRows

CONSTANTS
  MaxDetailRequests,   \* bound on requests of the execution in flight
  MaxDetailActions     \* bound on what the user does and on failed requests

ASSUME DetailAssumption == MaxDetailRequests \in Nat \ {0} /\ MaxDetailActions \in Nat

VARIABLES
  detail,            \* the page; its execution is a status
  detailRequests,    \* of the execution, in flight
  commands,          \* approve, reject and close-position in flight
  detailActions,
  outpaced           \* a tick came while the page waited for an answer (history)

detailVars == <<detail, detailRequests, commands, detailActions, outpaced>>
executionDetailVars == <<rowVars, detailVars>>

ShownId == 1   \* the id in the page's address

Details == [execution : {"none"} \cup ExecutionStatuses, result : Results, loading : BOOLEAN,
            error : BOOLEAN, refreshing : BOOLEAN, confirming : BOOLEAN, open : BOOLEAN]
DetailRequests == [n : 1 .. MaxDetailRequests, served : BOOLEAN,
                   execution : {"none"} \cup ExecutionStatuses, result : Results]
Commands == [op : {"approve", "reject", "closePosition"}, answer : {"none", "ok", "refused"}]

isMonitoring == detail.execution = "MONITORING"
isAwaitingApproval == detail.execution = "AWAITING_APPROVAL"
isCompleted == detail.execution = "COMPLETED"

\* The card with the final P&L, and the one with the position.
hasFinalPnL == isCompleted /\ detail.result \in {"gain", "loss"}
hasPositionData == isMonitoring

DetailAct == detail.open /\ detailActions < MaxDetailActions /\ detailActions' = detailActions + 1

-------------------------------------------------------------------------------
(* Loading and refreshing                                                  *)

FreeNumbers == (1 .. MaxDetailRequests) \ {r.n : r \in detailRequests}

LoadExecution ==
  \E n \in FreeNumbers :
    /\ \A k \in FreeNumbers : n <= k
    /\ detailRequests' = detailRequests \cup
         {[n |-> n, served |-> FALSE, execution |-> "none", result |-> "none"]}

\* Mutant: the tick forgets the executions that wait for an approval.
TickOnlyMonitoring ==
  /\ detail.open /\ detail.refreshing
  /\ outpaced' = (outpaced \/ detailRequests # {} \/ commands # {})
  /\ IF isMonitoring THEN LoadExecution /\ UNCHANGED detail
     ELSE detail' = [detail EXCEPT !.refreshing = FALSE] /\ UNCHANGED detailRequests
  /\ UNCHANGED <<rowVars, commands, detailActions>>

\* The interval of ten seconds: it loads again, or clears itself for good.
Tick ==
  /\ detail.open /\ detail.refreshing
  /\ outpaced' = (outpaced \/ detailRequests # {} \/ commands # {})
  /\ IF isMonitoring \/ isAwaitingApproval
       THEN LoadExecution /\ UNCHANGED detail
       ELSE detail' = [detail EXCEPT !.refreshing = FALSE] /\ UNCHANGED detailRequests
  /\ UNCHANGED <<rowVars, commands, detailActions>>

DetailServed(r) ==
  /\ ~r.served
  /\ detailRequests' = (detailRequests \ {r}) \cup
       {[r EXCEPT !.served = TRUE, !.execution = Status(ShownId), !.result = results[ShownId]]}
  /\ UNCHANGED <<rowVars, detail, commands, detailActions, outpaced>>

\* Answers are shown as they come; an error stays, beside the execution.
DetailLoaded(r) ==
  /\ r.served
  /\ detailRequests' = detailRequests \ {r}
  /\ detail' = IF detail.open
               THEN [detail EXCEPT !.execution = r.execution, !.result = r.result,
                                   !.loading = FALSE]
               ELSE detail
  /\ UNCHANGED <<rowVars, commands, detailActions, outpaced>>

DetailFails(r) ==
  /\ DetailAct /\ ~r.served
  /\ detailRequests' = detailRequests \ {r}
  /\ detail' = [detail EXCEPT !.error = TRUE, !.loading = FALSE]
  /\ UNCHANGED <<rowVars, commands, outpaced>>

-------------------------------------------------------------------------------
(* What the user does                                                      *)

RefreshExecution ==
  /\ DetailAct /\ isMonitoring /\ LoadExecution
  /\ UNCHANGED <<rowVars, detail, commands, outpaced>>

Command(op) == commands' = commands \cup {[op |-> op, answer |-> "none"]}

\* The browser's confirm blocks the page, so asking and sending is one step.
ApproveExecution ==
  /\ DetailAct /\ isAwaitingApproval
  /\ \E op \in {"approve", "reject"} : Command(op)
  /\ UNCHANGED <<rowVars, detail, detailRequests, outpaced>>

\* The dialog that confirms a close does not: the page may show something else meanwhile.
ClosePosition ==
  /\ DetailAct /\ isMonitoring /\ ~detail.confirming
  /\ detail' = [detail EXCEPT !.confirming = TRUE]
  /\ UNCHANGED <<rowVars, detailRequests, commands, outpaced>>

CloseConfirmed ==
  /\ detail.confirming
  /\ detail' = [detail EXCEPT !.confirming = FALSE]
  /\ Command("closePosition") \/ UNCHANGED commands
  /\ UNCHANGED <<rowVars, detailRequests, detailActions, outpaced>>

DetailCommandServed(c) ==
  /\ c.answer = "none"
  /\ \/ /\ Accepts(c.op, ShownId)
        /\ \E r \in IF c.op = "closePosition" THEN {"gain", "loss", "cancelled"}
                                              ELSE {"none"} : Done(c.op, ShownId, r)
        /\ commands' = (commands \ {c}) \cup {[c EXCEPT !.answer = "ok"]}
     \/ /\ ~Accepts(c.op, ShownId)
        /\ commands' = (commands \ {c}) \cup {[c EXCEPT !.answer = "refused"]}
        /\ UNCHANGED rowVars
  /\ UNCHANGED <<detail, detailRequests, detailActions, outpaced>>

\* Success loads the execution again; a refusal is only announced.
CommandAnswered(c) ==
  /\ c.answer # "none"
  /\ commands' = commands \ {c}
  /\ IF c.answer = "ok" THEN LoadExecution ELSE UNCHANGED detailRequests
  /\ UNCHANGED <<rowVars, detail, detailActions, outpaced>>

\* Leaving the page stops its intervals; its requests go on.
LeaveDetail ==
  /\ detail.open /\ ~detail.confirming
  /\ detail' = [detail EXCEPT !.open = FALSE, !.refreshing = FALSE]
  /\ UNCHANGED <<rowVars, detailRequests, commands, detailActions, outpaced>>

-------------------------------------------------------------------------------
(* The specification                                                       *)

DetailOpened ==
  /\ detail = [execution |-> "none", result |-> "none", loading |-> TRUE, error |-> FALSE,
               refreshing |-> TRUE, confirming |-> FALSE, open |-> TRUE]
  /\ detailRequests = {[n |-> 1, served |-> FALSE, execution |-> "none", result |-> "none"]}
  /\ commands = {} /\ detailActions = 0 /\ outpaced = FALSE

DetailServes == \E r \in detailRequests : DetailServed(r)
DetailAnswers == \E r \in detailRequests : DetailLoaded(r)
CommandSteps == \E c \in commands : DetailCommandServed(c) \/ CommandAnswered(c)

ExecutionDetailNext ==
  \/ Tick \/ DetailServes \/ DetailAnswers \/ \E r \in detailRequests : DetailFails(r)
  \/ RefreshExecution \/ ApproveExecution \/ ClosePosition \/ CloseConfirmed
  \/ CommandSteps \/ LeaveDetail
  \/ BackendMoves /\ UNCHANGED detailVars

ExecutionDetailFairness ==
  /\ WF_executionDetailVars(Tick) /\ WF_executionDetailVars(DetailServes)
  /\ WF_executionDetailVars(DetailAnswers)

ExecutionDetailSpec ==
  /\ RowsInit /\ DetailOpened
  /\ [][ExecutionDetailNext]_executionDetailVars /\ ExecutionDetailFairness

-------------------------------------------------------------------------------
(* Properties                                                              *)

\* The types of the page and its requests.
DetailTypeOK ==
  /\ detail \in Details
  /\ detailRequests \subseteq DetailRequests /\ commands \subseteq Commands
  /\ detailActions \in 0 .. MaxDetailActions /\ outpaced \in BOOLEAN

\* "Auto-refresh every 10 seconds if monitoring or awaiting approval": an open page that
\* shows such an execution refreshes itself, whatever was approved, rejected, closed,
\* refused or failed before; as long as every answer is there before the next tick.
MonitoredIsRefreshed ==
  detail.open /\ (isMonitoring \/ isAwaitingApproval) /\ ~outpaced => detail.refreshing

\* And so it does not stay what it shows: a page that shows an execution as monitored or
\* awaiting when it has ended comes to show something else, if the page stays open.
EndedIsShown ==
  (rows[ShownId] \in EndedStatuses /\ (isMonitoring \/ isAwaitingApproval) /\ ~outpaced)
    ~> (outpaced \/ ~detail.open \/ ~(isMonitoring \/ isAwaitingApproval))
===============================================================================
