----------------------------- MODULE ExecutionList -----------------------------
(***************************************************************************)
(* The monitoring page of the web client: the list of executions with its  *)
(* refresh every five seconds, "load more", the filters, the bars of the   *)
(* timeline, approve and reject.  Requests are answered in any order.      *)
(* stopExecution, which has no button, is left out; the reconciliation     *)
(* dialog is a module of its own.                                          *)
(***************************************************************************)
EXTENDS ExecutionRows

CONSTANTS
  MaxInFlight,  \* bound on list requests in flight
  MaxActions    \* bound on what the user does and on failed requests

ASSUME ListAssumption == MaxInFlight \in Nat \ {0} /\ MaxActions \in Nat

VARIABLES
  allExecutions,    \* sequence of summaries
  totalServerCount, loading, loadingMore,
  filters, timelineFilters,
  listRequests,
  decisions,        \* approve and reject in flight
  actions

listVars == <<allExecutions, totalServerCount, loading, loadingMore, filters, timelineFilters>>
executionListVars == <<rowVars, listVars, listRequests, decisions, actions>>

Act == actions < MaxActions /\ actions' = actions + 1

-------------------------------------------------------------------------------
(* The list                                                                *)

ListRequest == [more : BOOLEAN, offset : 0 .. MaxRows, served : BOOLEAN,
                executions : UNION {[1 .. n -> ExecutionSummary] : n \in 0 .. MaxRows},
                total : 0 .. MaxRows]

Request(more, offset) ==
  [more |-> more, offset |-> offset, served |-> FALSE, executions |-> <<>>, total |-> 0]

\* loadData: nothing is cancelled, nothing is waited for.
LoadData(others) ==
  /\ Cardinality(others) < MaxInFlight
  /\ listRequests' = others \cup {Request(FALSE, 0)}

hasMore == Len(allExecutions) < totalServerCount

\* Mutant: the list is refreshed until it is there.
RefreshTickOnce ==
  /\ loading /\ LoadData(listRequests)
  /\ UNCHANGED <<rowVars, listVars, decisions, actions>>

\* The refresh of every five seconds.
RefreshTick ==
  /\ LoadData(listRequests)
  /\ UNCHANGED <<rowVars, listVars, decisions, actions>>

RefreshList ==
  /\ Act /\ LoadData(listRequests) /\ loading' = TRUE
  /\ UNCHANGED <<rowVars, allExecutions, totalServerCount, loadingMore, filters,
                 timelineFilters, decisions>>

\* The offset counts everything that is loaded, the endpoint counts ended executions.
LoadMore ==
  /\ Act /\ hasMore /\ ~loadingMore
  /\ loadingMore' = TRUE
  /\ Cardinality(listRequests) < MaxInFlight
  /\ listRequests' = listRequests \cup {Request(TRUE, Len(allExecutions))}
  /\ UNCHANGED <<rowVars, allExecutions, totalServerCount, loading, filters,
                 timelineFilters, decisions>>

\* The backend reads the rows.
ListServed(r) ==
  /\ ~r.served
  /\ listRequests' = (listRequests \ {r}) \cup
       {[r EXCEPT !.served = TRUE, !.executions = ListAnswer(r.offset).executions,
                  !.total = ListAnswer(r.offset).total]}
  /\ UNCHANGED <<rowVars, listVars, decisions, actions>>

\* Mutant: what is loaded more is not compared with what is there.
AppendedBlindly(new) == allExecutions \o new

\* loadMore skips what is in the list already.
Appended(new) ==
  LET added == InTurn({i \in DOMAIN new : \A j \in DOMAIN allExecutions :
                                            allExecutions[j].id # new[i].id})
  IN  allExecutions \o [k \in DOMAIN added |-> new[added[k]]]

\* The answer to a refresh replaces the list, with what was loaded more.
ListLoaded(r) ==
  /\ r.served /\ ~r.more
  /\ listRequests' = listRequests \ {r}
  /\ allExecutions' = r.executions /\ totalServerCount' = r.total /\ loading' = FALSE
  /\ UNCHANGED <<rowVars, loadingMore, filters, timelineFilters, decisions, actions>>

MoreLoaded(r) ==
  /\ r.served /\ r.more
  /\ listRequests' = listRequests \ {r}
  /\ allExecutions' = Appended(r.executions) /\ totalServerCount' = r.total
  /\ loadingMore' = FALSE
  /\ UNCHANGED <<rowVars, loading, filters, timelineFilters, decisions, actions>>

ListFails(r) ==
  /\ Act /\ ~r.served
  /\ listRequests' = listRequests \ {r}
  /\ IF r.more THEN loadingMore' = FALSE /\ UNCHANGED loading
               ELSE loading' = FALSE /\ UNCHANGED loadingMore
  /\ UNCHANGED <<rowVars, allExecutions, totalServerCount, filters, timelineFilters,
                 decisions>>

-------------------------------------------------------------------------------
(* Filters, tables and bars                                                *)

StatusOptions == {"all"} \cup ExecutionStatuses
TradeOutcomeOptions == {"all", "executed", "cancelled"}
Categories == {"profit", "loss", "cancelled", "hold"}

SetFilter ==
  /\ Act
  /\ \/ \E s \in StatusOptions \ {filters.status} : filters' = [filters EXCEPT !.status = s]
     \/ \E o \in TradeOutcomeOptions \ {filters.tradeOutcome} :
          filters' = [filters EXCEPT !.tradeOutcome = o]
  /\ UNCHANGED <<rowVars, allExecutions, totalServerCount, loading, loadingMore,
                 timelineFilters, listRequests, decisions>>

ClearFilters ==
  /\ Act /\ filters' = [status |-> "all", tradeOutcome |-> "all"]
  /\ UNCHANGED <<rowVars, allExecutions, totalServerCount, loading, loadingMore,
                 timelineFilters, listRequests, decisions>>

\* toggleTimelineFilter, showOnlyTrades, showAllCategories
SetTimeline(new) ==
  /\ Act /\ timelineFilters' = new
  /\ UNCHANGED <<rowVars, allExecutions, totalServerCount, loading, loadingMore, filters,
                 listRequests, decisions>>
ToggleTimelineFilter ==
  \E c \in Categories : SetTimeline(IF c \in timelineFilters THEN timelineFilters \ {c}
                                    ELSE timelineFilters \cup {c})
ShowOnlyTrades == SetTimeline({"profit", "loss"})
ShowAllCategories == SetTimeline(Categories)

HasPnL(x) == x.result \in {"gain", "loss"}
TradeOutcome(x) ==
  IF HasPnL(x) THEN "executed" ELSE IF x.result = "cancelled" THEN "cancelled" ELSE "no_action"

\* applyFilters: the two tables.
Filtered == SelectSeq(allExecutions, LAMBDA x : filters.status \in {"all", x.status})
activeExecutions == SelectSeq(Filtered, LAMBDA x : x.status \in ActiveStatuses)
historical ==
  SelectSeq(Filtered, LAMBDA x :
    /\ x.status \notin ActiveStatuses
    /\ \/ filters.tradeOutcome = "all"
       \/ IF filters.tradeOutcome = "executed" THEN HasPnL(x)
          ELSE TradeOutcome(x) = filters.tradeOutcome)

\* buildExecutionBars, filteredBars
Category(x) ==
  CASE TradeOutcome(x) = "executed" /\ HasPnL(x) ->
         IF x.result = "gain" THEN "profit" ELSE "loss"
    [] TradeOutcome(x) = "cancelled" -> "cancelled"
    [] OTHER -> "hold"
filteredBars == SelectSeq(allExecutions, LAMBDA x : Category(x) \in timelineFilters)

-------------------------------------------------------------------------------
(* Approve and reject                                                      *)

Listed(S) ==
  {allExecutions[i].id : i \in {j \in DOMAIN allExecutions : allExecutions[j].status \in S}}

\* Offered for what the list shows, which may be over by now.
Decide ==
  /\ Act
  /\ \E e \in Listed({"AWAITING_APPROVAL"}), op \in {"approve", "reject"} :
       decisions' = decisions \cup {[e |-> e, op |-> op, answer |-> "none"]}
  /\ UNCHANGED <<rowVars, listVars, listRequests>>

DecisionServed(d) ==
  /\ d.answer = "none"
  /\ \/ /\ Accepts(d.op, d.e) /\ Done(d.op, d.e, "none")
        /\ decisions' = (decisions \ {d}) \cup {[d EXCEPT !.answer = "ok"]}
     \/ /\ ~Accepts(d.op, d.e)
        /\ decisions' = (decisions \ {d}) \cup {[d EXCEPT !.answer = "refused"]}
        /\ UNCHANGED rowVars
  /\ UNCHANGED <<listVars, listRequests, actions>>

DecisionAnswered(d) ==
  /\ d.answer # "none"
  /\ decisions' = decisions \ {d}
  /\ IF d.answer = "ok"
       THEN LoadData(listRequests) ELSE UNCHANGED listRequests
  /\ UNCHANGED <<rowVars, listVars, actions>>

-------------------------------------------------------------------------------
(* Opening the page, and the specification                                 *)

\* ngOnInit asks for the list at once.
ListOpened ==
  /\ allExecutions = <<>> /\ totalServerCount = 0
  /\ loading = TRUE /\ loadingMore = FALSE
  /\ filters = [status |-> "all", tradeOutcome |-> "executed"]
  /\ timelineFilters = {"profit", "loss"}
  /\ listRequests = {Request(FALSE, 0)}
  /\ decisions = {} /\ actions = 0

ListInit == RowsInit /\ ListOpened

ListBackend ==
  BackendMoves /\ UNCHANGED <<listVars, listRequests, decisions, actions>>

ListUser ==
  \/ RefreshList \/ LoadMore \/ SetFilter \/ ClearFilters
  \/ ToggleTimelineFilter \/ ShowOnlyTrades \/ ShowAllCategories
  \/ Decide

ListServes == \E r \in listRequests : ListServed(r)
ListAnswers == \E r \in listRequests : ListLoaded(r) \/ MoreLoaded(r)
DecisionSteps == \E d \in decisions : DecisionServed(d) \/ DecisionAnswered(d)

ExecutionListNext ==
  \/ RefreshTick \/ ListServes \/ ListAnswers \/ \E r \in listRequests : ListFails(r)
  \/ ListUser \/ DecisionSteps \/ ListBackend

\* The timer ticks, the backend answers, and answers arrive; nothing says in which order.
ExecutionListFairness ==
  /\ WF_executionListVars(RefreshTick) /\ WF_executionListVars(ListServes)
  /\ WF_executionListVars(ListAnswers)

ExecutionListSpec ==
  ListInit /\ [][ExecutionListNext]_executionListVars /\ ExecutionListFairness

-------------------------------------------------------------------------------
(* Properties                                                              *)

\* The types of the page and its requests.
ListTypeOK ==
  /\ RowsTypeOK
  /\ allExecutions \in Seq(ExecutionSummary) /\ totalServerCount \in 0 .. MaxRows
  /\ loading \in BOOLEAN /\ loadingMore \in BOOLEAN
  /\ filters \in [status : StatusOptions, tradeOutcome : TradeOutcomeOptions]
  /\ timelineFilters \subseteq Categories
  /\ \A r \in listRequests : r \in ListRequest
  /\ decisions \subseteq [e : 1 .. MaxRows, op : {"approve", "reject"},
                          answer : {"none", "ok", "refused"}]
  /\ actions \in 0 .. MaxActions

\* The list never shows an execution twice, though it is put together from answers that
\* were read at different times, and an execution that ended in between is in two of them.
NoDuplicates ==
  \A i, j \in DOMAIN allExecutions : i # j => allExecutions[i].id # allExecutions[j].id

\* The list catches up: an execution that ended does not stay among the active ones.
EndedLeavesActive ==
  \A e \in 1 .. MaxRows :
    (e \in Ids /\ rows[e] \in EndedStatuses) ~>
      \A i \in DOMAIN activeExecutions : activeExecutions[i].id # e
===============================================================================
