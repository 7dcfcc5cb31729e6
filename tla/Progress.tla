-------------------------------- MODULE Progress --------------------------------
(***************************************************************************)
(* The pages of the web client on which something has to come in the end:  *)
(* the state of an execution in the list and in the details, its report    *)
(* with the chart in it, and the dashboard's figures.                      *)
(*                                                                         *)
(* As in Authoring, a behaviour is one page's and the others rest; so does *)
(* their fairness.                                                         *)
(***************************************************************************)
EXTENDS ExecutionList, ExecutionDetail, ExecutionReport, CandleChart, Dashboard

VARIABLE watchedPage  \* the page that is open

\* A report and its chart are looked at twice: what happens to them, for one record, and what
\* is in the timeline and on the drawing, for all.
WatchedPages == {"list", "detail", "report", "timeline", "chart", "drawing", "dashboard"}

\* One record and two charts, of which one lacks its symbol, for what happens to them.
SomeRecord == CHOOSE x \in Recorded : ~x.completed_at.null
SomeCharts ==
  {CHOOSE d \in ChartDatas : d.symbol = symbol /\ (symbol => d.fresh # <<>>) : symbol \in BOOLEAN}

\* The trade manager writes when it ordered without a zone; who ends a trade may name one.
ChartRecords ==
  {x \in {[SomeRecord EXCEPT !.filled = filled, !.closed = closed] : filled, closed \in Dates} :
     x \in Recorded /\ ~x.filled.zoned}

ProgressInit ==
  /\ watchedPage \in WatchedPages
  /\ ListInit
  /\ watchedPage \in {"list", "detail"} => Len(rows) = 1
  /\ watchedPage \notin {"list", "detail"} => rows = <<"RUNNING">>
  /\ DetailOpened
  /\ watchedPage = "timeline" => recorded \in Recorded /\ zone \in Zones
  /\ watchedPage = "drawing" =>
       /\ recorded \in ChartRecords /\ zone \in Zones /\ chartData \in ChartDatas
       /\ ChartOfTrade
  /\ watchedPage \notin {"timeline", "drawing"} =>
       recorded = SomeRecord /\ zone = CHOOSE z \in Zones : TRUE
  /\ watchedPage = "chart" => chartData \in SomeCharts /\ library \in BOOLEAN
  /\ watchedPage \notin {"chart", "drawing"} => chartData \in {d \in SomeCharts : d.symbol}
  /\ watchedPage # "chart" => library = FALSE
  /\ ChartOpened
  /\ \E view \in {"page", "modal"} : ReportOpened(view)
  /\ watchedPage # "report" => report.view = "page"
  /\ DashboardInit

listPageVars == <<listVars, listRequests, decisions, actions>>

AtList ==
  /\ watchedPage = "list"
  /\ UNCHANGED <<watchedPage, detailVars, reportVars, chartVars, dashboardVars>>
AtDetail ==
  /\ watchedPage = "detail"
  /\ UNCHANGED <<watchedPage, listPageVars, reportVars, chartVars, dashboardVars>>
AtReport ==
  /\ watchedPage = "report"
  /\ UNCHANGED <<watchedPage, rowVars, listPageVars, detailVars, chartVars, dashboardVars>>
AtChart ==
  /\ watchedPage = "chart"
  /\ UNCHANGED <<watchedPage, rowVars, listPageVars, detailVars, reportVars, dashboardVars>>
AtDashboard ==
  /\ watchedPage = "dashboard"
  /\ UNCHANGED <<watchedPage, rowVars, listPageVars, detailVars, reportVars, chartVars>>

ProgressNext ==
  \/ AtList /\ ExecutionListNext
  \/ AtDetail /\ ExecutionDetailNext
  \/ AtReport /\ ExecutionReportNext
  \/ AtChart /\ CandleChartNext
  \/ AtDashboard /\ DashboardNext

progressVars ==
  <<watchedPage, rowVars, listPageVars, detailVars, reportVars, chartVars, dashboardVars>>

\* What goes on at the open page by itself: what it asks for or does on a timer, what the
\* server does, and the answers that arrive.
PageSteps ==
  \/ AtList /\ RefreshTick
  \/ AtDetail /\ Tick
  \/ AtReport /\ SummaryTimesOut
  \/ AtDashboard /\ DashboardTick
ServerSteps ==
  \/ AtList /\ ListServes
  \/ AtDetail /\ DetailServes
AnswerSteps ==
  \/ AtList /\ ListAnswers
  \/ AtDetail /\ DetailAnswers
  \/ AtDashboard /\ AnswerDashboard

\* The fairness of the modules: only one page is ever open, so that what is fair to each of
\* them is fair to all of them together.
ProgressFairness ==
  /\ WF_progressVars(PageSteps)
  /\ WF_progressVars(ServerSteps)
  /\ WF_progressVars(AnswerSteps)
  /\ SF_progressVars(AtDashboard /\ \E c \in dashboardCalls : c.mine /\ AutoAnswered(c))
  /\ SF_progressVars(AtDashboard /\ \E c \in dashboardCalls :
                                       c.kind = "auto" /\ c.mine /\ ServeDashboard(c))

ProgressSpec == ProgressInit /\ [][ProgressNext]_progressVars /\ ProgressFairness

-------------------------------------------------------------------------------
(* Properties                                                              *)

\* The types of all the pages.
ProgressTypeOK ==
  /\ watchedPage \in WatchedPages
  /\ ListTypeOK /\ DetailTypeOK /\ ReportTypeOK /\ ChartTypeOK /\ DashboardTypeOK

\* What is due comes to be shown: an execution that has ended is not shown as active for good,
\* neither in the list, which asks again every 5 seconds, nor in the details, whose refresh goes
\* on while it is monitored; and a report is shown though the backend never answers.
DueIsShown == EndedLeavesActive /\ EndedIsShown /\ ReportIsShown

\* The drawing is a function of the data: it is enough to look at it once.
ChartIsTrue == ChartIsAwaited /\ (watchedPage = "drawing" => DrawingIsTrue)

\* What the pages show is true: the timeline of a report is in the order of what happened,
\* whatever the zone of its reader, a report that was shown in full stays, its chart is true to
\* the trade, and the details of an execution that goes on go on refreshing.
PagesAreTrue ==
  [](MonitoredIsRefreshed /\ TimelineIsTrue /\ ChartIsTrue) /\ FullReportStays

\* A dashboard that is looked at catches up with the server.
DashboardCatchesUp == watchedPage = "dashboard" => RefreshCatchesUp
===============================================================================
