------------------------------- MODULE Backtests -------------------------------
(***************************************************************************)
(* The backtest pages of the web client: the home page, the workspace of a *)
(* pipeline with its list of runs, a selected run with its details, its    *)
(* executions, its timeline and its report, the dialog that launches a run *)
(* and the refresh every five seconds while a run is active.  Answers come *)
(* in any order, and a page that was left ignores them.                    *)
(*                                                                         *)
(* Left out: which pipeline and which dates a new run is proposed with,    *)
(* and the timeline, which is asked for and shown like the executions.     *)
(***************************************************************************)
EXTENDS Integers, Sequences, FiniteSets

CONSTANTS
  Pipelines,            \* positive numbers; 0 is none
  MaxRuns,              \* bound on runs
  MaxBacktestActions    \* bound on user actions, ticks, failed requests, runs that end

ASSUME BacktestAssumption ==
  /\ Pipelines \subseteq Nat \ {0} /\ Pipelines # {}
  /\ MaxRuns \in Nat \ {0} /\ MaxBacktestActions \in Nat

VARIABLES
  backtests,        \* the runs there are, oldest first
  backtestPage,     \* the page that is open
  launch,           \* its launch dialog
  backtestRequests, \* its requests in flight
  requestFailed,    \* one of them failed (history)
  backtestActions

backtestVars == <<backtests, backtestPage, launch, backtestRequests, requestFailed,
                  backtestActions>>

RunStatuses == {"RUNNING", "COMPLETED", "CANCELLED"}
Runs == 1 .. MaxRuns
RunIds == 0 .. MaxRuns
RunRows == UNION {[1 .. n -> [pipeline : Pipelines, status : RunStatuses]] : n \in RunIds}
NoRun == [run |-> 0, status |-> "none"]

\* PENDING is modelled as RUNNING and FAILED as COMPLETED: the pages treat them alike.
IsActive(status) == status = "RUNNING"

BacktestAct == backtestActions < MaxBacktestActions /\ backtestActions' = backtestActions + 1

-------------------------------------------------------------------------------
(* The page                                                                *)

Views == {"home", "workspace", "run"}
Shots == {NoRun} \cup [run : Runs, status : RunStatuses]
BacktestPages ==
  [view : Views, selectedRunId : RunIds, address : Pipelines \cup {0},
   selectedPipelineId : Pipelines \cup {0},
   allRuns : RunRows, runs : SUBSET Runs, loadingRuns : BOOLEAN, selectedRun : Shots,
   selectedExecutions : RunIds, selectedExecution : RunIds,
   selectedReport : Shots, reportState : {"idle", "loading", "ready", "error"},
   cancelling : RunIds]

\* A page as it is created.  Lists are known by the run they are of; address is the pipeline
\* that the page's address names.
Fresh(view, id, pipeline) ==
  [view |-> view, selectedRunId |-> id, address |-> pipeline,
   selectedPipelineId |-> pipeline, allRuns |-> <<>>, runs |-> {}, loadingRuns |-> TRUE,
   selectedRun |-> NoRun, selectedExecutions |-> 0,
   selectedExecution |-> 0, selectedReport |-> NoRun,
   reportState |-> "idle", cancelling |-> 0]

\* Nothing selected: what the page forgets when no run is selected.
Cleared(page) ==
  [page EXCEPT !.selectedRun = NoRun, !.selectedExecutions = 0, !.selectedExecution = 0,
               !.selectedReport = NoRun, !.reportState = "idle"]

PipelineOf(run) == IF run = 0 THEN 0 ELSE backtests[run].pipeline

\* What the list of runs is narrowed to: the pipeline of the address, or else that of the
\* run on show.
ActivePipelineId(page) ==
  IF page.selectedPipelineId # 0 THEN page.selectedPipelineId
  ELSE PipelineOf(page.selectedRun.run)

RunsOf(page, all) ==
  {r \in DOMAIN all : ActivePipelineId(page) \in {0, all[r].pipeline}}

HasActiveRun == \E r \in backtestPage.runs : IsActive(backtestPage.allRuns[r].status)

\* A request remembers the runs as they were when it was sent: its answer was read then or
\* later.  Two requests sent in the same state count as one.
Kinds == {"runs", "details", "executions", "report", "cancel", "launch", "orphan", "pipelines"}
BacktestRequests ==
  [kind : Kinds, run : RunIds \cup Pipelines, seen : RunRows, answer : {"none", "ok", "refused"}]
Asked(kind, run) ==
  [kind |-> kind, run |-> run, answer |-> "none",
   seen |-> IF kind \in {"runs", "details", "report"} THEN backtests ELSE <<>>]
Read(q) == {q.seen, backtests}

\* valid: the symbols are there and the dates in order.
Launches == [pipeline : Pipelines \cup {0}, valid : BOOLEAN, launching : BOOLEAN]
NoLaunch == [pipeline |-> 0, valid |-> TRUE, launching |-> FALSE]

\* loadSelectedRun: another run's report is no longer shown as ready.
Selecting(page) ==
  IF page.selectedReport.run # page.selectedRunId
    THEN [page EXCEPT !.reportState = "loading"] ELSE page

-------------------------------------------------------------------------------
(* Opening pages                                                           *)

\* The address decides on the page; the page of a run is kept for another run, and a
\* workspace for another pipeline.  Every page asks for the runs at once, the home page for
\* the pipelines, too.
Goto(view, id, pipeline, pending) ==
  /\ IF view = backtestPage.view /\ view # "home"
       THEN /\ backtestPage' = [backtestPage EXCEPT !.selectedRunId = id,
                                  !.address = pipeline, !.selectedPipelineId = pipeline, !.loadingRuns = TRUE]
            /\ backtestRequests' = pending \cup {Asked("runs", 0)}
       ELSE /\ backtestPage' = Fresh(view, id, pipeline)
            /\ backtestRequests' = {Asked("runs", 0)} \cup
                 (IF view = "home" THEN {Asked("pipelines", 0)} ELSE {})
  /\ launch' = NoLaunch

\* The buttons of the browser, a bookmark: an address may name a run without its pipeline.
Visit ==
  /\ BacktestAct /\ launch.pipeline = 0
  /\ \/ \E p \in Pipelines \cup {0} : Goto("workspace", 0, p, backtestRequests)
     \/ \E r \in DOMAIN backtests : \E p \in {0, PipelineOf(r)} :
          Goto("run", r, p, backtestRequests)
     \/ Goto("home", 0, 0, {})
  /\ UNCHANGED <<backtests, requestFailed>>

\* From the home page, or from the landing of a workspace without a pipeline, whose
\* selection is cleared.
OpenPipelineBacktests ==
  /\ BacktestAct /\ launch.pipeline = 0
  /\ backtestPage.view = "home" \/ (backtestPage.selectedRun = NoRun
                                     /\ backtestPage.selectedPipelineId = 0)
  /\ \E p \in Pipelines : Goto("workspace", 0, p, backtestRequests)
  /\ UNCHANGED <<backtests, requestFailed>>

\* A click on a run of the list asks for its details at once and goes to its address, which
\* is no news for the run that is open.
SelectRun ==
  /\ BacktestAct /\ launch.pipeline = 0 /\ ~backtestPage.loadingRuns
  /\ \E r \in backtestPage.runs :
       LET page == [backtestPage EXCEPT !.selectedRunId = r, !.selectedPipelineId = PipelineOf(r)]
           news == r # backtestPage.selectedRunId \/ backtestPage.address # PipelineOf(r)
       IN  IF backtestPage.view # "run" THEN Goto("run", r, PipelineOf(r), {})
           ELSE /\ backtestPage' = [Selecting(page) EXCEPT !.loadingRuns = news,
                                                        !.address = PipelineOf(r)]
                /\ backtestRequests' = backtestRequests \cup {Asked("details", r)}
                     \cup (IF news THEN {Asked("runs", 0)} ELSE {})
                /\ UNCHANGED launch
  /\ UNCHANGED <<backtests, requestFailed>>

-------------------------------------------------------------------------------
(* Loading                                                                 *)

\* The spinner of the home page ends with the second answer, or failure.
HomeLoading ==
  backtestPage.view = "home" /\ \E q \in backtestRequests : q.kind \in {"runs", "pipelines"}

RefreshRuns ==
  /\ BacktestAct /\ ~HomeLoading
  /\ backtestPage' = [backtestPage EXCEPT !.loadingRuns = TRUE]
  /\ backtestRequests' = backtestRequests \cup {Asked("runs", 0)} \cup
       (IF backtestPage.view = "home" THEN {Asked("pipelines", 0)} ELSE {})
  /\ UNCHANGED <<backtests, launch, requestFailed>>

\* Every five seconds, while a run of the list is active.
PollTick ==
  /\ BacktestAct /\ backtestPage.view # "home" /\ HasActiveRun
  /\ backtestPage' = IF backtestPage.selectedRunId = 0 THEN backtestPage
                     ELSE Selecting(backtestPage)
  /\ backtestRequests' = backtestRequests \cup {Asked("runs", 0)} \cup
       (IF backtestPage.selectedRunId = 0 THEN {}
        ELSE {Asked("details", backtestPage.selectedRunId)})
  /\ UNCHANGED <<backtests, launch, requestFailed>>

Answered(q, new, sent) ==
  /\ q \in backtestRequests
  /\ backtestPage' = new /\ backtestRequests' = (backtestRequests \ {q}) \cup sent
  /\ UNCHANGED <<backtests, launch, requestFailed, backtestActions>>

\* The list of runs, and with it the details of the run that is selected by now.
RunsLoaded(q) ==
  /\ q.kind = "runs"
  /\ \E all \in Read(q) :
       LET page == [backtestPage EXCEPT !.allRuns = all, !.runs = RunsOf(backtestPage, all),
                                        !.loadingRuns = FALSE]
       IN  IF page.selectedRunId = 0 THEN Answered(q, Cleared(page), {})
           ELSE Answered(q, Selecting(page), {Asked("details", page.selectedRunId)})

\* What the details of a run tell the page; a report that is there is kept.
ReportKnown(run) == backtestPage.selectedReport.run = run
Detailed(run, status) ==
  [backtestPage EXCEPT !.selectedRun = [run |-> run, status |-> status],
                       !.selectedPipelineId = PipelineOf(run),
                       !.reportState = IF ReportKnown(run) THEN "ready" ELSE "loading"]
RestOf(run) ==
  {Asked("executions", run)} \cup (IF ReportKnown(run) THEN {} ELSE {Asked("report", run)})

\* Mutant: the list stays narrowed to the pipeline of the address.
DetailsLoadedAlone(q) ==
  /\ q.kind = "details"
  /\ \E all \in Read(q) :
       IF backtestPage.selectedRunId # q.run THEN Answered(q, backtestPage, {})
       ELSE Answered(q, Detailed(q.run, all[q.run].status), RestOf(q.run))

\* The details of a run, dropped when another one is selected meanwhile.  A pipeline that is
\* not that of the address narrows the list anew.
DetailsLoaded(q) ==
  /\ q.kind = "details"
  /\ \E all \in Read(q) :
       IF backtestPage.selectedRunId # q.run THEN Answered(q, backtestPage, {})
       ELSE Answered(q, Detailed(q.run, all[q.run].status),
              RestOf(q.run) \cup (IF backtestPage.selectedPipelineId = PipelineOf(q.run) THEN {}
                                  ELSE {Asked("runs", 0)}))

\* Whatever run is selected by now: unlike those of details and report, this answer is not
\* checked, nor is that of the timeline, which is asked for with it.
\* An open execution stays open if it is in the list.
ExecutionsLoaded(q) ==
  /\ q.kind = "executions"
  /\ Answered(q, [backtestPage EXCEPT !.selectedExecutions = q.run,
                    !.selectedExecution = IF @ = q.run THEN @ ELSE 0], {})

\* Mutant: the answer is taken for that of the run that is selected.
ReportLoadedOfAny(q) ==
  /\ q.kind = "report"
  /\ \E all \in Read(q) :
       Answered(q, [backtestPage EXCEPT !.reportState = "ready",
                      !.selectedReport = [run |-> q.run, status |-> all[q.run].status]], {})

ReportLoaded(q) ==
  /\ q.kind = "report"
  /\ \E all \in Read(q) :
       Answered(q, IF backtestPage.selectedRunId # q.run THEN backtestPage
                   ELSE [backtestPage EXCEPT !.reportState = "ready",
                           !.selectedReport = [run |-> q.run, status |-> all[q.run].status]],
                {})

ReportFailed(page, q) ==
  IF page.selectedRunId # q.run THEN page
  ELSE IF page.selectedReport.run = q.run THEN [page EXCEPT !.reportState = "ready"]
  ELSE [page EXCEPT !.selectedReport = NoRun, !.reportState = "error"]

RequestFails(q) ==
  /\ BacktestAct /\ q.answer = "none" /\ requestFailed' = TRUE
  /\ backtestRequests' = backtestRequests \ {q}
  /\ backtestPage' =
       CASE q.kind = "runs" -> [backtestPage EXCEPT !.loadingRuns = FALSE]
         [] q.kind = "executions" -> [backtestPage EXCEPT !.selectedExecutions = 0,
                                                          !.selectedExecution = 0]
         [] q.kind = "report" -> ReportFailed(backtestPage, q)
         [] q.kind = "cancel" -> [backtestPage EXCEPT !.cancelling = 0]
         [] OTHER -> backtestPage
  /\ launch' = IF q.kind = "launch" THEN [launch EXCEPT !.launching = FALSE] ELSE launch
  /\ UNCHANGED <<backtests>>

-------------------------------------------------------------------------------
(* One execution of the run, cancelling and launching                      *)

SelectExecution ==
  /\ BacktestAct /\ backtestPage.selectedRun # NoRun /\ backtestPage.selectedExecutions # 0
  /\ backtestPage' = [backtestPage EXCEPT !.selectedExecution =
                        backtestPage.selectedExecutions]
  /\ UNCHANGED <<backtests, launch, backtestRequests, requestFailed>>

CloseExecutionDrawer ==
  /\ backtestPage.selectedExecution # 0
  /\ backtestPage' = [backtestPage EXCEPT !.selectedExecution = 0]
  /\ UNCHANGED <<backtests, launch, backtestRequests, requestFailed,
                 backtestActions>>

CancelRun ==
  LET run == backtestPage.selectedRun IN
  /\ BacktestAct /\ launch.pipeline = 0
  /\ run # NoRun /\ IsActive(run.status) /\ backtestPage.cancelling # run.run
  /\ backtestPage' = [backtestPage EXCEPT !.cancelling = run.run]
  /\ backtestRequests' = backtestRequests \cup {Asked("cancel", run.run)}
  /\ UNCHANGED <<backtests, launch, requestFailed>>

\* The backend refuses to cancel a run that ended.
CommandServed(q) ==
  /\ q.answer = "none"
  /\ \/ /\ q.kind = "cancel"
        /\ IF backtests[q.run].status = "COMPLETED" THEN UNCHANGED backtests
           ELSE backtests' = [backtests EXCEPT ![q.run].status = "CANCELLED"]
        /\ backtestRequests' = (backtestRequests \ {q}) \cup
             {[q EXCEPT !.answer = IF backtests[q.run].status = "COMPLETED"
                                   THEN "refused" ELSE "ok"]}
     \/ /\ q.kind = "launch" /\ Len(backtests) < MaxRuns
        /\ backtests' = Append(backtests, [pipeline |-> q.run, status |-> "RUNNING"])
        /\ backtestRequests' = (backtestRequests \ {q}) \cup {[q EXCEPT !.answer = "ok"]}
  /\ UNCHANGED <<backtestPage, launch, requestFailed, backtestActions>>

CancelAnswered(q) ==
  /\ q.kind = "cancel" /\ q.answer # "none"
  /\ LET page == [backtestPage EXCEPT !.cancelling = 0] IN
     IF q.answer = "refused" THEN Answered(q, page, {})
     ELSE IF page.selectedRunId # q.run THEN Answered(q, page, {Asked("runs", 0)})
     ELSE Answered(q, Selecting(page), {Asked("runs", 0), Asked("details", q.run)})

OpenLaunchDialog ==
  /\ BacktestAct /\ launch.pipeline = 0 /\ backtestPage.view # "home"
  /\ \E p \in Pipelines : launch' = [NoLaunch EXCEPT !.pipeline = p]
  /\ UNCHANGED <<backtests, backtestPage, backtestRequests, requestFailed>>

EditLaunch ==
  /\ BacktestAct /\ launch.pipeline # 0 /\ launch' = [launch EXCEPT !.valid = ~launch.valid]
  /\ UNCHANGED <<backtests, backtestPage, backtestRequests, requestFailed>>

CanLaunch == launch.pipeline # 0 /\ launch.valid /\ ~launch.launching

LaunchBacktest ==
  /\ CanLaunch /\ Len(backtests) < MaxRuns
  /\ launch' = [launch EXCEPT !.launching = TRUE]
  /\ backtestRequests' = backtestRequests \cup {Asked("launch", launch.pipeline)}
  /\ UNCHANGED <<backtests, backtestPage, requestFailed, backtestActions>>

\* Closed without a run, the page asks for the list again; closing is not prevented while
\* a run is being launched, and nothing waits for its answer then.
CloseLaunchDialog ==
  /\ launch.pipeline # 0
  /\ launch' = NoLaunch
  /\ backtestRequests' = {Asked("runs", 0)} \cup
       {IF q.kind = "launch" THEN [q EXCEPT !.kind = "orphan"] ELSE q : q \in backtestRequests}
  /\ UNCHANGED <<backtests, backtestPage, requestFailed, backtestActions>>

LaunchAnswered(q) ==
  /\ q.answer = "ok"
  /\ \/ /\ q.kind = "launch"
        /\ Goto("run", Len(backtests), q.run, backtestRequests \ {q})
     \/ /\ q.kind = "orphan" /\ backtestRequests' = backtestRequests \ {q}
        /\ UNCHANGED <<backtestPage, launch>>
  /\ UNCHANGED <<backtests, requestFailed, backtestActions>>

-------------------------------------------------------------------------------
(* The home page, and the specification                                    *)

PipelinesLoaded(q) == q.kind = "pipelines" /\ Answered(q, backtestPage, {})

RunEnds ==
  /\ BacktestAct
  /\ \E r \in DOMAIN backtests :
       /\ IsActive(backtests[r].status)
       /\ backtests' = [backtests EXCEPT ![r].status = "COMPLETED"]
  /\ UNCHANGED <<backtestPage, launch, backtestRequests, requestFailed>>

BacktestsOpened(view, id) ==
  /\ backtestPage = Fresh(view, id, 0) /\ launch = NoLaunch
  /\ backtestRequests = {Asked("runs", 0)} \cup
       (IF view = "home" THEN {Asked("pipelines", 0)} ELSE {})
  /\ requestFailed = FALSE /\ backtestActions = 0

BacktestsInit ==
  /\ backtests \in UNION {[1 .. n -> [pipeline : Pipelines, status : {"RUNNING", "COMPLETED"}]] :
                          n \in Runs}
  /\ \/ BacktestsOpened("home", 0)
     \/ \E r \in DOMAIN backtests : BacktestsOpened("run", r)

BacktestUser ==
  \/ Visit \/ OpenPipelineBacktests \/ SelectRun \/ RefreshRuns \/ SelectExecution
  \/ CloseExecutionDrawer \/ CancelRun \/ OpenLaunchDialog \/ EditLaunch \/ LaunchBacktest
  \/ CloseLaunchDialog

BacktestAnswers(q) ==
  \/ RunsLoaded(q) \/ PipelinesLoaded(q) \/ DetailsLoaded(q) \/ ExecutionsLoaded(q)
  \/ ReportLoaded(q) \/ CancelAnswered(q) \/ LaunchAnswered(q)

BacktestsNext ==
  \/ BacktestUser \/ PollTick \/ RunEnds
  \/ \E q \in backtestRequests : BacktestAnswers(q) \/ RequestFails(q) \/ CommandServed(q)

BacktestsSpec == BacktestsInit /\ [][BacktestsNext]_backtestVars

-------------------------------------------------------------------------------
(* Properties                                                              *)

\* The types of the pages, the dialog and their requests.
BacktestsTypeOK ==
  /\ backtests \in RunRows /\ backtestPage \in BacktestPages /\ launch \in Launches
  /\ backtestRequests \subseteq BacktestRequests /\ requestFailed \in BOOLEAN
  /\ backtestActions \in 0 .. MaxBacktestActions

Settled ==
  ~requestFailed /\ \A q \in backtestRequests : q.kind \notin {"runs", "details", "report"}

\* When nothing is on its way any more, the details and the report on show are those of the
\* run that is selected, whatever was selected in between and in whatever order the answers
\* came; and nothing is shown for a workspace without a run.
SettledShowsSelected ==
  Settled /\ backtestPage.view # "home" =>
    /\ backtestPage.selectedRun.run = backtestPage.selectedRunId
    /\ backtestPage.selectedReport.run = backtestPage.selectedRunId
    /\ backtestPage.reportState = (IF backtestPage.selectedRunId = 0 THEN "idle" ELSE "ready")

\* The list beside it is that of the pipeline of the selected run, or of the pipeline the
\* workspace is opened for: also when the address names no pipeline.
RunsFollowPipeline ==
  Settled /\ backtestPage.view # "home" =>
    /\ backtestPage.runs = RunsOf(backtestPage, backtestPage.allRuns)
    /\ backtestPage.selectedRunId # 0 =>
         \A r \in backtestPage.runs :
           backtestPage.allRuns[r].pipeline = PipelineOf(backtestPage.selectedRunId)

\* The details, the report and the list of runs on show belong together.  Nothing is said
\* here of the executions and the timeline, whose late answers the page does not check.
BacktestsAreShown == SettledShowsSelected /\ RunsFollowPipeline

-------------------------------------------------------------------------------
(* A claim of the page that the code does not keep                         *)

\* Under "Selected Run" the page lists the executions, "recorded for this run" (the template
\* of the workspace): when nothing is on its way any more, they are those of that run.
ExecutionsAreOfSelected ==
  Settled /\ (\A q \in backtestRequests : q.kind # "executions") /\ backtestPage.view = "run" =>
    backtestPage.selectedExecutions \in {0, backtestPage.selectedRunId}
===============================================================================
