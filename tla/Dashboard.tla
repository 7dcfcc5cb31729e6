------------------------------- MODULE Dashboard -------------------------------
(***************************************************************************)
(* The dashboard of the web client: the load when it is opened or          *)
(* refreshed by hand, the refresh every 30 seconds, the data the service   *)
(* keeps, and the calendar with the panel of a chosen day.                 *)
(*                                                                         *)
(* What the server would answer is a version; it grows with every trade.   *)
(* Day d of the current month (month 0) has trades from version d on.      *)
(* The figures drawn from the data are in Figures.                         *)
(***************************************************************************)
EXTENDS Integers, FiniteSets

CONSTANTS
  MaxVersion,        \* bound on the versions
  DashboardSlots,    \* at most so many requests in flight of each kind
  MaxMonths,         \* how far the user browses the calendar
  MaxDashboardMoves, \* bound on the user's visits and clicks
  MaxDashboardFails  \* bound on requests that fail

ASSUME DashboardAssumption ==
  /\ MaxVersion \in Nat \ {0} /\ DashboardSlots \in Nat \ {0} /\ MaxMonths \in Nat
  /\ MaxDashboardMoves \in Nat /\ MaxDashboardFails \in Nat

VARIABLES
  today,           \* the version the server is at
  dashboard,       \* the page
  dashboardKept,   \* the subjects of the service
  dashboardCalls,  \* the requests in flight
  dashboardMoves,
  dashboardFails

dashboardVars == <<today, dashboard, dashboardKept, dashboardCalls, dashboardMoves, dashboardFails>>

Versions == 1 .. MaxVersion
NoDay == [day |-> 0, version |-> 0]

\* The page: data is the version it shows (0: none), refreshing the subscription to the
\* interval, selected the day whose panel is open with the data it was taken from.
DashboardPages ==
  [open : BOOLEAN, refreshing : BOOLEAN, data : 0 .. MaxVersion, loading : BOOLEAN,
   error : BOOLEAN, healthStatus : BOOLEAN, calendarMonth : -MaxMonths .. MaxMonths,
   selected : [day : 0 .. MaxVersion, version : 0 .. MaxVersion]]
FreshDashboard ==
  [open |-> TRUE, refreshing |-> TRUE, data |-> 0, loading |-> TRUE, error |-> FALSE,
   healthStatus |-> FALSE, calendarMonth |-> 0, selected |-> NoDay]

\* A load, an automatic refresh or a health check; mine while the page that sent it is open.
DashboardCallSet ==
  [kind : {"load", "auto", "health"}, slot : 1 .. DashboardSlots, mine : BOOLEAN,
   answer : {"none", "ok", "error"}, version : 0 .. MaxVersion]
DashboardCall(kind, slot) ==
  [kind |-> kind, slot |-> slot, mine |-> TRUE, answer |-> "none", version |-> 0]

FreeSlots(calls) == {i \in 1 .. DashboardSlots : \A c \in calls : c.slot # i}

\* loadAll: health and data are asked for side by side.
Opening(i) == {DashboardCall("health", i), DashboardCall("load", i)}

DashboardMove ==
  /\ dashboardMoves < MaxDashboardMoves /\ dashboardMoves' = dashboardMoves + 1
  /\ UNCHANGED <<today, dashboardFails>>

-------------------------------------------------------------------------------
(* The user                                                                *)

OpenDashboard ==
  /\ DashboardMove /\ ~dashboard.open
  /\ dashboard' = FreshDashboard
  /\ \E i \in FreeSlots(dashboardCalls) : dashboardCalls' = dashboardCalls \cup Opening(i)
  /\ dashboardKept' = [dashboardKept EXCEPT !.loading = TRUE]

\* A link, the navigation bar, or viewPosition and viewPipeline.  The interval stops; a refresh
\* that is in flight is not taken back.
LeaveDashboard ==
  /\ DashboardMove /\ dashboard.open
  /\ dashboard' = [FreshDashboard EXCEPT !.open = FALSE, !.refreshing = FALSE]
  /\ dashboardCalls' = {[c EXCEPT !.mine = FALSE] : c \in dashboardCalls}
  /\ UNCHANGED dashboardKept

\* The buttons Refresh and Retry, which are never disabled.
RefreshDashboard ==
  /\ DashboardMove /\ dashboard.open
  /\ dashboard' = [dashboard EXCEPT !.loading = TRUE, !.error = FALSE]
  /\ \E i \in FreeSlots(dashboardCalls) : dashboardCalls' = dashboardCalls \cup Opening(i)
  /\ dashboardKept' = [dashboardKept EXCEPT !.loading = TRUE]

\* What the page shows is there when it has data and does not load.
CalendarShown == dashboard.open /\ dashboard.data > 0 /\ ~dashboard.loading

\* prevMonth and nextMonth
ShowMonth(n) == [dashboard EXCEPT !.calendarMonth = n, !.selected = NoDay]

TurnMonth ==
  /\ DashboardMove /\ CalendarShown
  /\ \E n \in {dashboard.calendarMonth - 1, dashboard.calendarMonth + 1} \cap (-MaxMonths .. MaxMonths) :
       dashboard' = ShowMonth(n)
  /\ UNCHANGED <<dashboardKept, dashboardCalls>>

\* The traded days of the month that is shown.
TradedDays == IF dashboard.calendarMonth = 0 THEN 1 .. dashboard.data ELSE {}

\* A click on a day opens its panel or, if it is open, closes it; on a day without trades, or
\* elsewhere on the page, it closes whatever panel is open.
ClickDay ==
  /\ DashboardMove /\ CalendarShown
  /\ \E d \in 0 .. MaxVersion :
       dashboard' = [dashboard EXCEPT !.selected =
         IF d \in TradedDays /\ @.day # d THEN [day |-> d, version |-> dashboard.data] ELSE NoDay]
  /\ UNCHANGED <<dashboardKept, dashboardCalls>>

-------------------------------------------------------------------------------
(* The clock, the server and the connection                                *)

\* The interval fires: switchMap gives the refresh in flight up for a new one.
DashboardTick ==
  /\ dashboard.open /\ dashboard.refreshing
  /\ LET rest == {c \in dashboardCalls : ~(c.kind = "auto" /\ c.mine)} IN
     \E i \in FreeSlots({c \in rest : c.kind = "auto"}) :
       dashboardCalls' = rest \cup {DashboardCall("auto", i)}
  /\ dashboardKept' = [dashboardKept EXCEPT !.loading = TRUE]
  /\ UNCHANGED <<today, dashboard, dashboardMoves, dashboardFails>>

Trade ==
  /\ today < MaxVersion /\ today' = today + 1
  /\ UNCHANGED <<dashboard, dashboardKept, dashboardCalls, dashboardMoves, dashboardFails>>

ServeDashboard(c) ==
  /\ c.answer = "none" /\ c.kind # "health"
  /\ dashboardCalls' = (dashboardCalls \ {c}) \cup {[c EXCEPT !.answer = "ok", !.version = today]}
  /\ UNCHANGED <<today, dashboard, dashboardKept, dashboardMoves, dashboardFails>>

DashboardCallFails(c) ==
  /\ c.answer = "none" /\ c.kind # "health" /\ dashboardFails < MaxDashboardFails
  /\ dashboardFails' = dashboardFails + 1
  /\ dashboardCalls' = (dashboardCalls \ {c}) \cup {[c EXCEPT !.answer = "error"]}
  /\ UNCHANGED <<today, dashboard, dashboardKept, dashboardMoves>>

-------------------------------------------------------------------------------
(* The answers                                                             *)

\* loadDashboard of the service
Kept(c) == [data |-> IF c.answer = "ok" THEN c.version ELSE dashboardKept.data, loading |-> FALSE]

HealthAnswered(c) ==
  /\ c.kind = "health" /\ dashboardCalls' = dashboardCalls \ {c}
  /\ \E ok \in BOOLEAN :
       dashboard' = IF c.mine THEN [dashboard EXCEPT !.healthStatus = ok] ELSE dashboard
  /\ UNCHANGED <<today, dashboardKept, dashboardMoves, dashboardFails>>

LoadAnswered(c) ==
  /\ c.kind = "load" /\ c.answer # "none" /\ dashboardCalls' = dashboardCalls \ {c}
  /\ dashboardKept' = Kept(c)
  /\ dashboard' = IF ~c.mine THEN dashboard
       ELSE IF c.answer = "ok" THEN [dashboard EXCEPT !.data = c.version, !.loading = FALSE]
       ELSE [dashboard EXCEPT !.error = TRUE, !.loading = FALSE]
  /\ UNCHANGED <<today, dashboardMoves, dashboardFails>>

\* Mutant: one refresh is all there is.
RefreshedOnce(c) ==
  IF c.answer = "ok" THEN [dashboard EXCEPT !.data = c.version, !.refreshing = FALSE]
                     ELSE [dashboard EXCEPT !.refreshing = FALSE]

\* What a refresh makes of the page: nothing catches an error, which ends the subscription.
Refreshed(c) ==
  IF c.answer = "ok" THEN [dashboard EXCEPT !.data = c.version]
                     ELSE [dashboard EXCEPT !.refreshing = FALSE]

AutoAnswered(c) ==
  /\ c.kind = "auto" /\ c.answer # "none" /\ dashboardCalls' = dashboardCalls \ {c}
  /\ dashboardKept' = Kept(c)
  /\ dashboard' = IF c.mine THEN Refreshed(c) ELSE dashboard
  /\ UNCHANGED <<today, dashboardMoves, dashboardFails>>

-------------------------------------------------------------------------------

DashboardInit ==
  /\ today = 1 /\ dashboard = FreshDashboard
  /\ dashboardKept = [data |-> 0, loading |-> TRUE]
  /\ dashboardCalls = Opening(1) /\ dashboardMoves = 0 /\ dashboardFails = 0

AnswerDashboard ==
  \E c \in dashboardCalls :
    ServeDashboard(c) \/ HealthAnswered(c) \/ LoadAnswered(c) \/ AutoAnswered(c)

DashboardNext ==
  \/ OpenDashboard \/ LeaveDashboard \/ RefreshDashboard \/ TurnMonth \/ ClickDay
  \/ DashboardTick \/ Trade \/ AnswerDashboard
  \/ \E c \in dashboardCalls : DashboardCallFails(c)

\* The interval goes on, and every request is answered before long: the last refresh of the
\* page is answered between two ticks infinitely often.
DashboardFairness ==
  /\ WF_dashboardVars(DashboardTick)
  /\ WF_dashboardVars(AnswerDashboard)
  /\ SF_dashboardVars(\E c \in dashboardCalls : c.mine /\ AutoAnswered(c))
  /\ SF_dashboardVars(\E c \in dashboardCalls : c.kind = "auto" /\ c.mine /\ ServeDashboard(c))

DashboardSpec == DashboardInit /\ [][DashboardNext]_dashboardVars /\ DashboardFairness

-------------------------------------------------------------------------------
(* Properties                                                              *)

\* The types of the page, the service's data and the requests.
DashboardTypeOK ==
  /\ today \in Versions /\ dashboard \in DashboardPages
  /\ dashboardKept \in [data : 0 .. MaxVersion, loading : BOOLEAN]
  /\ dashboardCalls \subseteq DashboardCallSet
  /\ dashboardMoves \in 0 .. MaxDashboardMoves /\ dashboardFails \in 0 .. MaxDashboardFails

\* The refresh every 30 seconds: a page that stays open shows at last what the server knows, in
\* whatever order the loads by hand were answered, as long as no request fails.
RefreshCatchesUp ==
  <>[]dashboard.open /\ [](dashboardFails = 0) => <>[](dashboard.data = today)
===============================================================================
