---------------------------- MODULE ExecutionReport ----------------------------
(***************************************************************************)
(* The report of an execution: the modal of the monitoring page and the    *)
(* page it leads to.  Both ask for a summary the backend's model writes,   *)
(* wait five seconds for it and show a basic report meanwhile.  The page   *)
(* puts what the execution recorded into one timeline.                     *)
(***************************************************************************)
EXTENDS Timestamps, Sequences, FiniteSets, SequencesExt

CONSTANTS
  Zones,               \* of the browser
  Hours,               \* at which things happened
  MaxReportActions     \* bound on what the user does

ASSUME ReportAssumption ==
  Zones \subseteq Int /\ Zones # {} /\ Hours \subseteq Nat \ {0} /\ Hours # {}
    /\ MaxReportActions \in Nat

VARIABLES
  recorded,     \* the execution, as the backend answers it
  zone,
  report,       \* the page or the modal
  asked,        \* its requests in flight
  reportActions

reportVars == <<recorded, zone, report, asked, reportActions>>

-------------------------------------------------------------------------------
(* What an execution recorded                                              *)

Dates == {NoDate} \cup [at : Hours, zoned : BOOLEAN, null : {FALSE}]

\* An agent that was not reached has no dates.  The row's own dates are written alike; what
\* the agents and the broker wrote may be written otherwise.
Recorded ==
  {x \in [started_at : Dates \ {NoDate}, completed_at : Dates, agentStarted : Dates,
          agentCompleted : Dates, filled : Dates, closed : Dates] :
     /\ x.completed_at.null \/ x.completed_at.zoned = x.started_at.zoned
     /\ x.agentCompleted.null \/ ~x.agentStarted.null
     /\ x.closed.null \/ ~x.filled.null}

\* Mutant: dates are parsed as they come.
ParsedAsTheyCome(d) == IF d.null THEN 0 ELSE BrowserDate(d, zone)

\* parseTimestamp
ParseTimestamp(d) == IF d.null THEN 0 ELSE BrowserDate(Normalised(d), zone)

ComputeDuration(from, to) == ParseTimestamp(to) - ParseTimestamp(from)

GetAgentDuration ==
  IF recorded.agentStarted.null \/ recorded.agentCompleted.null THEN 0
  ELSE BrowserDate(Normalised(recorded.agentCompleted), zone)
         - BrowserDate(Normalised(recorded.agentStarted), zone)

\* This one does not append a Z.
GetDurationSeconds ==
  BrowserDate(recorded.completed_at, zone) - BrowserDate(recorded.started_at, zone)

Event(kind, at, until) == [kind |-> kind, at |-> at, until |-> until]
If(condition, event) == IF condition THEN <<event>> ELSE <<>>

\* In the order they are pushed.
PushedEvents ==
  <<Event("started", recorded.started_at, NoDate),
    Event("agent", recorded.agentStarted, recorded.agentCompleted)>>
  \o If(~recorded.filled.null, Event("filled", recorded.filled, NoDate))
  \o If(~recorded.closed.null, Event("monitoring", recorded.filled, recorded.closed))
  \o If(~recorded.closed.null, Event("closed", recorded.closed, NoDate))
  \o If(~recorded.completed_at.null, Event("completed", recorded.completed_at, NoDate))

\* Sorted by their dates.
BuildTimelineEvents ==
  LET pushed == PushedEvents
      order == ByTime(DOMAIN pushed, [i \in DOMAIN pushed |-> ParseTimestamp(pushed[i].at)])
  IN  [k \in DOMAIN order |-> pushed[order[k]]]

-------------------------------------------------------------------------------
(* The sections of the page                                                *)

SectionIds == {"summary", "analysis", "execution", "timeline", "costs"}

\* buildNavSections: the analysis has its place until it turns out that there is none.
BuildNavSections ==
  SectionIds \ (IF recorded.filled.null THEN {"execution"} ELSE {})

-------------------------------------------------------------------------------
(* Loading                                                                 *)

ReportRequests == {"execution", "summary", "analysis", "pdf"}
Reports == [view : {"page", "modal"}, execution : BOOLEAN, loading : BOOLEAN,
            error : BOOLEAN, executiveReport : {"none", "basic", "failed", "full"},
            reportLoading : BOOLEAN, timer : BOOLEAN,
            tradeAnalysis : {"none", "available", "unavailable"},
            navSections : SUBSET SectionIds, activeSection : SectionIds, open : BOOLEAN]

ReportAct == report.open /\ reportActions < MaxReportActions /\ reportActions' = reportActions + 1

Opened(view) ==
  [view |-> view, execution |-> view = "modal", loading |-> view = "page", error |-> FALSE,
   executiveReport |-> "none", reportLoading |-> TRUE, timer |-> view = "modal",
   tradeAnalysis |-> "none", navSections |-> {}, activeSection |-> "summary", open |-> TRUE]

\* The modal is given its execution; the page asks for it first.
AskedAtOnce(view) == IF view = "page" THEN {"execution"} ELSE {"summary"}

\* An answer to a page that was left changes nothing that is shown.
Answer(request, new) ==
  /\ request \in asked
  /\ report' = IF report.open THEN new ELSE report
  /\ UNCHANGED <<recorded, zone, reportActions>>

ReportExecutionLoaded ==
  /\ Answer("execution",
            [report EXCEPT !.execution = TRUE, !.loading = FALSE, !.timer = TRUE,
                           !.navSections = BuildNavSections])
  /\ asked' = (asked \ {"execution"}) \cup {"summary", "analysis"}

ReportExecutionFails ==
  /\ Answer("execution", [report EXCEPT !.error = TRUE, !.loading = FALSE])
  /\ asked' = asked \ {"execution"}

\* Mutant: the timer shows the basic report whatever has come meanwhile.
TimesOutAnyway ==
  /\ report.executiveReport # "none" /\ report.open
  /\ report' = [report EXCEPT !.timer = FALSE, !.executiveReport = "basic",
                              !.reportLoading = FALSE]
  /\ UNCHANGED <<recorded, zone, asked, reportActions>>

\* Five seconds without a summary.
SummaryTimesOut ==
  /\ report.timer /\ report.open
  /\ report' = IF report.reportLoading
               THEN [report EXCEPT !.timer = FALSE, !.executiveReport = "basic",
                                   !.reportLoading = FALSE]
               ELSE [report EXCEPT !.timer = FALSE]
  /\ UNCHANGED <<recorded, zone, asked, reportActions>>

SummaryLoaded ==
  /\ Answer("summary", [report EXCEPT !.timer = FALSE, !.executiveReport = "full",
                                      !.reportLoading = FALSE])
  /\ asked' = asked \ {"summary"}

SummaryFails ==
  /\ Answer("summary", [report EXCEPT !.timer = FALSE, !.executiveReport = "failed",
                                      !.reportLoading = FALSE])
  /\ asked' = asked \ {"summary"}

\* loadTradeAnalysis: a failure counts as "there is none".
AnalysisAnswered ==
  /\ \/ Answer("analysis", [report EXCEPT !.tradeAnalysis = "available"])
     \/ Answer("analysis", [report EXCEPT !.tradeAnalysis = "unavailable",
                                          !.navSections = report.navSections \ {"analysis"}])
  /\ asked' = asked \ {"analysis"}

-------------------------------------------------------------------------------
(* What the user does                                                      *)

DownloadReport ==
  /\ ReportAct /\ asked' = asked \cup {"pdf"}
  /\ UNCHANGED <<recorded, zone, report>>

\* Saved, or announced as not generated yet.
Downloaded == Answer("pdf", report) /\ asked' = asked \ {"pdf"}

\* scrollToSection, and scrolling by hand
ScrollToSection ==
  /\ ReportAct /\ report.view = "page"
  /\ \E s \in report.navSections : report' = [report EXCEPT !.activeSection = s]
  /\ UNCHANGED <<recorded, zone, asked>>

\* openFullReport: a new page; what the modal asked for is not waited for.
OpenFullReport ==
  /\ report.open /\ report.view = "modal"
  /\ report' = Opened("page") /\ asked' = AskedAtOnce("page")
  /\ UNCHANGED <<recorded, zone, reportActions>>

\* goBack, close
CloseReport ==
  /\ report.open
  /\ report' = [report EXCEPT !.open = FALSE]
  /\ UNCHANGED <<recorded, zone, asked, reportActions>>

-------------------------------------------------------------------------------
(* The specification                                                       *)

ReportOpened(view) ==
  report = Opened(view) /\ asked = AskedAtOnce(view) /\ reportActions = 0

ReportInit ==
  /\ recorded \in Recorded /\ zone \in Zones
  /\ \E view \in {"page", "modal"} : ReportOpened(view)

ExecutionReportNext ==
  \/ ReportExecutionLoaded \/ ReportExecutionFails
  \/ SummaryTimesOut \/ SummaryLoaded \/ SummaryFails \/ AnalysisAnswered
  \/ DownloadReport \/ Downloaded \/ ScrollToSection \/ OpenFullReport \/ CloseReport

\* A timer fires; nothing makes the backend answer.
ExecutionReportSpec ==
  ReportInit /\ [][ExecutionReportNext]_reportVars /\ WF_reportVars(SummaryTimesOut)

-------------------------------------------------------------------------------
(* Properties                                                              *)

\* The types of the page and its requests.
ReportTypeOK ==
  /\ recorded \in Recorded /\ zone \in Zones /\ report \in Reports
  /\ asked \subseteq ReportRequests /\ reportActions \in 0 .. MaxReportActions

\* Five seconds race the summary: once it is shown, no timer and no failure replaces it by
\* the basic report.
FullReportStays ==
  [][report.executiveReport = "full" /\ report'.view = report.view =>
       report'.executiveReport = "full"]_reportVars

\* "If AI summary takes too long, show basic report": a report is shown though the backend
\* may never answer, unless the user leaves or opens the other view.
ReportIsShown ==
  (report.execution /\ report.open) ~>
    (report.executiveReport # "none" \/ ~report.execution \/ ~report.open)

\* The timeline has what happened in the order it happened, and its durations are the real
\* ones: wherever the browser is, and though one part of the record names the zone of its
\* dates and another does not.
TimelineIsTrue ==
  LET events == BuildTimelineEvents
  IN  /\ \A i, j \in DOMAIN events :
           i < j /\ ~events[i].at.null /\ ~events[j].at.null => events[i].at.at <= events[j].at.at
      /\ \A i \in DOMAIN events :
           ~events[i].at.null /\ ~events[i].until.null =>
             ComputeDuration(events[i].at, events[i].until) = events[i].until.at - events[i].at.at
      /\ ~recorded.completed_at.null =>
           GetDurationSeconds = recorded.completed_at.at - recorded.started_at.at
===============================================================================
