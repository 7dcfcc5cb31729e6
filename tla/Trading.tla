-------------------------------- MODULE Trading --------------------------------
(***************************************************************************)
(* The parts of the web client around what was traded: the session with    *)
(* its guards, the list of executions, the reconciliation dialog, the page *)
(* behind an approval link, the workspace of backtests, and the figures    *)
(* that are drawn.                                                         *)
(*                                                                         *)
(* As in Authoring, a behaviour is one part's and the others rest; the     *)
(* list and the dialog are open on the same rows of the backend.           *)
(***************************************************************************)
EXTENDS Session, ExecutionList, Reconciliation, ApprovalPage, Backtests, Figures

VARIABLE tradingPart  \* the part that is in use

TradingParts == {"session", "list", "dialog", "approval", "backtests", "figures"}

\* Every part starts as its module says, and in one way only while another one is in use.
TradingInit ==
  /\ tradingPart \in TradingParts
  /\ SessionInit
  /\ tradingPart # "session" => token = 0
  /\ ListInit
  /\ tradingPart # "list" => Len(rows) = 1
  /\ tradingPart \notin {"list", "dialog"} => rows = <<"RUNNING">>
  /\ DialogInit
  /\ ApprovalPageInit
  /\ tradingPart # "approval" => approval = CHOOSE s \in TokenStates : TRUE
  /\ BacktestsInit
  /\ tradingPart # "backtests" =>
       /\ backtestPage.view = "home"
       /\ backtests = <<[pipeline |-> CHOOSE p \in Pipelines : TRUE, status |-> "COMPLETED"]>>
  /\ FiguresInit
  /\ tradingPart # "figures" =>
       gains = [b \in 1 .. Brokers |-> [d \in 1 .. HistoryDays |-> CHOOSE g \in Amounts : TRUE]]

listPartVars == <<listVars, listRequests, decisions, actions>>
dialogPartVars == <<dialogVars, dialogActions>>

TradingNext ==
  \/ /\ tradingPart = "session" /\ SessionNext
     /\ UNCHANGED <<tradingPart, rowVars, listPartVars, dialogPartVars, approvalPageVars,
                    backtestVars, figuresVars>>
  \/ /\ tradingPart = "list" /\ ExecutionListNext
     /\ UNCHANGED <<tradingPart, sessionVars, dialogPartVars, approvalPageVars, backtestVars,
                    figuresVars>>
  \/ /\ tradingPart = "dialog" /\ ReconciliationNext
     /\ UNCHANGED <<tradingPart, sessionVars, listPartVars, approvalPageVars, backtestVars,
                    figuresVars>>
  \/ /\ tradingPart = "approval" /\ ApprovalPageNext
     /\ UNCHANGED <<tradingPart, sessionVars, rowVars, listPartVars, dialogPartVars,
                    backtestVars, figuresVars>>
  \/ /\ tradingPart = "backtests" /\ BacktestsNext
     /\ UNCHANGED <<tradingPart, sessionVars, rowVars, listPartVars, dialogPartVars,
                    approvalPageVars, figuresVars>>

tradingVars ==
  <<tradingPart, sessionVars, rowVars, listPartVars, dialogPartVars, approvalPageVars,
    backtestVars, figuresVars>>

TradingSpec == TradingInit /\ [][TradingNext]_tradingVars

-------------------------------------------------------------------------------
(* Properties                                                              *)

\* The types of all the parts.
TradingTypeOK ==
  /\ tradingPart \in TradingParts
  /\ SessionTypeOK /\ ListTypeOK /\ DialogTypeOK /\ ApprovalPageTypeOK /\ BacktestsTypeOK

\* The figures are chosen at the start and stay: it is enough to look at them there.
FiguresAreDrawn == tradingPart = "figures" => FiguresAreTrue
===============================================================================
