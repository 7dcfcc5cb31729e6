------------------------------ MODULE CandleChart ------------------------------
(***************************************************************************)
(* The chart of a report: candles the strategy looked at, extended by      *)
(* those the server has now, and on them the trade.  The component asks    *)
(* for candles, loads the charting library and draws when that is ready;   *)
(* the page may be left at any time.                                       *)
(*                                                                         *)
(* A candle is the date it is written with.  The data plane writes dates   *)
(* as their source does, with a Z, with an offset or without a zone, and   *)
(* the row keeps them with an offset or without a zone.  The unit of time  *)
(* of ExecutionReport stands for five minutes as well.  Left out: colours  *)
(* and texts, the studies below the chart, and what the backend does not   *)
(* send any more (zones, arrows, the trend).  The library is external.     *)
(***************************************************************************)
EXTENDS ExecutionReport

CONSTANT CandleHours  \* of the candles there are

ASSUME ChartAssumption == CandleHours \subseteq Nat \ {0} /\ CandleHours # {}

VARIABLES
  chartData,  \* what the chart is given, and the candles the server has now
  library,    \* is the charting library loaded?
  chart       \* the component

chartVars == <<chartData, library, chart>>

-------------------------------------------------------------------------------
(* What a chart is given                                                   *)

Forms == {"Z", "offset", "naive"}
Candle(h, form) == [at |-> h, zoned |-> form # "naive", form |-> form, null |-> FALSE]
CandleRun(hours, form) ==
  LET ordered == ByTime(hours, [h \in hours |-> h]) IN [i \in DOMAIN ordered |-> Candle(ordered[i], form)]
Stretches == {{}} \cup {{h \in CandleHours : a <= h /\ h <= b} : a, b \in CandleHours}

\* What the strategy decided; with HOLD, a price may have been written all the same.
ChartDecisions ==
  {[action |-> "HOLD", levels |-> {}], [action |-> "HOLD", levels |-> {"entry"}],
   [action |-> "BUY", levels |-> {"entry", "sl"}],
   [action |-> "BUY", levels |-> {"entry", "sl", "tp"}],
   [action |-> "SELL", levels |-> {"entry", "sl", "tp"}]}

\* The candle of the decision was the last one; more were added when the trade ended.
ChartDatas ==
  {d \in {[candles |-> CandleRun(hours, form), decided |-> Candle(h, form), symbol |-> symbol,
           decision |-> decision, fresh |-> CandleRun(now, written)] :
             hours \in Stretches \ {{}}, form \in {"offset", "naive"}, h \in CandleHours,
             symbol \in BOOLEAN, decision \in ChartDecisions, now \in Stretches,
             written \in Forms} :
     /\ d.decided \in ToSet(d.candles)
     /\ ~d.symbol => d.fresh = <<>>}

\* Without a trade nothing was filled.
ChartOfTrade == chartData.decision.action = "HOLD" => recorded.filled.null

Position == chartData.decision

\* Mutant: a position counts only where the annotations hold it.
HasAnnotatedPosition == Position.levels = {"entry", "sl", "tp"} /\ Position.action # "HOLD"

\* buildPositionFromDecision: the annotations hold a position only where all the levels are
\* given; else the decision counts.
HasPosition == "entry" \in Position.levels /\ Position.action # "HOLD"

\* The backend's lines and markers: the levels, and the swings they were put at; the fill and
\* the exit of a trade that is over.  All are marked at the candle of the decision.
ChartLines ==
  (IF Position.action = "HOLD" THEN {}
   ELSE [level : Position.levels \ {"entry"}, by : {"line", "swing"}])
  \cup (IF recorded.closed.null THEN {} ELSE {[level |-> "fill", by |-> "line"]})
ChartMarkers ==
  (IF Position.action = "HOLD" THEN {} ELSE {"entry", "swing"})
  \cup (IF recorded.closed.null THEN {} ELSE {"fill", "exit"})

-------------------------------------------------------------------------------
(* The candles                                                             *)

\* The first of all that are written alike, in the order of their times.
InOrder(all) ==
  LET firsts == {i \in DOMAIN all : \A j \in 1 .. i - 1 : all[j] # all[i]}
      order == ByTime(firsts, [i \in firsts |-> BrowserDate(all[i], zone)])
  IN [k \in DOMAIN order |-> all[order[k]]]

\* Mutant: what the server has now is put behind what there was.
MergedBehind(d) == d.candles \o d.fresh

\* fetchFreshCandles, when the server has some
Merged(d) == InOrder(d.candles \o d.fresh)

\* getBars, the first time the library asks; then there is nothing more.
Bars(candles) == [i \in DOMAIN candles |-> BrowserDate(candles[i], zone)]

-------------------------------------------------------------------------------
(* The trade on the chart                                                  *)

\* parseUtcTime
ParseUtcTime(d) == BrowserDate(Normalised(d), zone)

FirstTime(candles) == BrowserDate(candles[1], zone)
LastTime(candles) == BrowserDate(candles[Len(candles)], zone)

\* findEntryTime, findExitTime: as the trade manager recorded it, or as it is marked, or now.
FindEntryTime(last) ==
  IF ~recorded.filled.null THEN ParseUtcTime(recorded.filled)
  ELSE IF "entry" \in ChartMarkers THEN ParseUtcTime(chartData.decided) ELSE last
FindExitTime(last) ==
  IF ~recorded.closed.null THEN ParseUtcTime(recorded.closed)
  ELSE IF "exit" \in ChartMarkers THEN ParseUtcTime(chartData.decided) ELSE last

\* Mutant: a box of a trade that was opened after the last candle has no width.
UnstretchedBox(candles) ==
  LET start == Min({FindEntryTime(LastTime(candles)), LastTime(candles)})
      exit == FindExitTime(LastTime(candles))
  IN [from |-> start, to |-> IF exit > start THEN exit ELSE LastTime(candles)]

\* Where the boxes of addPositionAnnotations begin and end.
TradeBox(candles) ==
  LET last == LastTime(candles)
      start == Min({FindEntryTime(last), last})
      exit == FindExitTime(last)
      end == IF exit > start THEN exit ELSE last
      interval == IF Len(candles) > 1 THEN (last - FirstTime(candles)) \div (Len(candles) - 1) ELSE 1
  IN [from |-> start, to |-> IF end > start THEN end ELSE start + Max({8 * interval, 1})]

\* The prices of the levels, by their order.
LevelPrice(level) ==
  CASE level = "entry" -> 2
    [] level = "tp" -> IF Position.action = "BUY" THEN 3 ELSE 1
    [] level = "sl" -> IF Position.action = "BUY" THEN 1 ELSE 3

\* addPositionAnnotations: profit above the entry of a long position, risk below it.
PriceBoxes ==
  {[level |-> l,
    bottom |-> IF (l = "tp") = (Position.action = "BUY") THEN LevelPrice("entry") ELSE LevelPrice(l),
    top |-> IF (l = "tp") = (Position.action = "BUY") THEN LevelPrice(l) ELSE LevelPrice("entry")] :
     l \in Position.levels \ {"entry"}}

\* The lines at entry, stop and target that keep them readable.
Guides == [level : Position.levels, by : {"guide"}]

\* addLineAnnotations: with a position its guides show the levels, and nothing else does.
DrawnLines(positioned) == IF positioned THEN Guides ELSE ChartLines

\* addMarkerAnnotations: entry, fill and exit are never drawn as markers.
DrawnMarkers(positioned) ==
  {k \in ChartMarkers \ {"entry", "fill", "exit"} : positioned => k # "swing"}

\* addShapeAnnotations: a gap from the candle it was formed at, which is one of the row's.
GapBox(candles) ==
  [from |-> BrowserDate(chartData.decided, zone), to |-> LastTime(candles)]

\* addTextAnnotations
InfoPanel ==
  (IF Position.levels # {} /\ Position.action # "HOLD" THEN {"bias"} ELSE {})
  \cup Position.levels
  \cup (IF Position.levels = {"entry", "sl", "tp"} THEN {"rr"} ELSE {})
  \cup (ChartMarkers \cap {"fill", "exit"})

\* An exit that is not later than the entry has no line.
ExitLines(candles) ==
  {t \in {FindExitTime(LastTime(candles))} : HasPosition /\ t > TradeBox(candles).from}

\* addAnnotations
Drawing(candles) ==
  [lines |-> DrawnLines(HasPosition), markers |-> DrawnMarkers(HasPosition),
   gap |-> GapBox(candles), prices |-> IF HasPosition THEN PriceBoxes ELSE {},
   box |-> TradeBox(candles), exits |-> ExitLines(candles)]

-------------------------------------------------------------------------------
(* The component                                                           *)

\* step is what it waits for, candles what it has resolved.
ChartSteps == {"candles", "script", "bars", "ready", "nothing"}
Charts ==
  [step : ChartSteps, mounted : BOOLEAN, loading : BOOLEAN, error : BOOLEAN, widget : BOOLEAN,
   candles : Seq({Candle(h, form) : h \in CandleHours, form \in Forms}), drawn : BOOLEAN,
   panel : SUBSET {"bias", "entry", "sl", "tp", "rr", "fill", "exit"}]

Failed(c) == [c EXCEPT !.error = TRUE, !.loading = FALSE, !.step = "nothing"]

\* initializeChart: the widget may refuse.
Initialized(c) ==
  IF ~chartData.symbol THEN {Failed(c)}
  ELSE {[c EXCEPT !.widget = TRUE, !.step = "bars"], Failed(c)}

\* loadTradingViewLibrary
Resolved(c) == IF library THEN Initialized(c) ELSE {[c EXCEPT !.step = "script"]}

\* ngOnInit, ngAfterViewInit: no report has a chart without candles.
FreshChart ==
  [step |-> "candles", mounted |-> TRUE, loading |-> TRUE, error |-> FALSE, widget |-> FALSE,
   candles |-> chartData.candles, drawn |-> FALSE, panel |-> {}]
ChartOpened == chart \in IF chartData.symbol THEN {FreshChart} ELSE Resolved(FreshChart)

\* The candles come, or none do.  A component that is gone goes on all the same.
CandlesAnswered ==
  /\ chart.step = "candles"
  /\ \/ chartData.fresh # <<>> /\ chart' \in Resolved([chart EXCEPT !.candles = Merged(chartData)])
     \/ chart' \in Resolved(chart)
  /\ UNCHANGED <<chartData, library>>

ScriptLoaded ==
  /\ chart.step = "script" /\ library' = TRUE /\ chart' \in Initialized(chart)
  /\ UNCHANGED chartData

\* Mutant: without the library the page goes on waiting.
ScriptFailsSilently ==
  /\ chart.step = "script" /\ chart' = [chart EXCEPT !.step = "nothing"]
  /\ UNCHANGED <<chartData, library>>

ScriptFails ==
  /\ chart.step = "script" /\ chart' = Failed(chart)
  /\ UNCHANGED <<chartData, library>>

\* getBars: only the first question is answered.
BarsAsked ==
  /\ chart.step = "bars" /\ chart.widget /\ chart' = [chart EXCEPT !.step = "ready"]
  /\ UNCHANGED <<chartData, library>>

\* onChartReady
ChartReady ==
  /\ chart.step = "ready" /\ chart.widget
  /\ chart' = [chart EXCEPT !.step = "nothing", !.loading = FALSE, !.drawn = TRUE,
                            !.panel = InfoPanel]
  /\ UNCHANGED <<chartData, library>>

\* ngOnDestroy
LeaveChart ==
  /\ chart.mounted
  /\ chart' = [chart EXCEPT !.mounted = FALSE, !.widget = FALSE, !.drawn = FALSE]
  /\ UNCHANGED <<chartData, library>>

-------------------------------------------------------------------------------
(* The specification                                                       *)

ChartInit ==
  /\ ReportInit /\ chartData \in ChartDatas /\ library \in BOOLEAN /\ ChartOpened
  /\ ChartOfTrade

CandleChartNext ==
  CandlesAnswered \/ ScriptLoaded \/ ScriptFails \/ BarsAsked \/ ChartReady \/ LeaveChart

CandleChartSpec ==
  ChartInit /\ [][CandleChartNext /\ UNCHANGED reportVars]_<<reportVars, chartVars>>

-------------------------------------------------------------------------------
(* Properties                                                              *)

\* The types of the component.
ChartTypeOK ==
  /\ chartData.decided \in ToSet(chartData.candles) /\ library \in BOOLEAN
  /\ chart \in Charts

\* "Merge stored + fresh candles, deduplicate by timestamp": the candles are in the order of
\* their times, none of the row's is lost, and where the server writes its dates as the row
\* does, none is there twice.
CandlesAreMerged(candles) ==
  LET bars == Bars(candles)
      alike == \A i \in DOMAIN chartData.fresh : chartData.fresh[i].form = chartData.decided.form
  IN /\ ToSet(Bars(chartData.candles)) \subseteq ToSet(bars)
     /\ \A i, j \in DOMAIN bars :
          i < j => bars[i] <= bars[j] /\ (alike => bars[i] # bars[j])

\* The boxes of a trade have a width, and where the candles name their zone they are where the
\* trade was: from its entry, or the last candle if that is earlier, to its exit.  A gap begins
\* at a candle, in whatever form that is written.
TradeIsPlaced(candles) ==
  LET d == Drawing(candles)
      zoned == \A i \in DOMAIN candles : candles[i].zoned
  IN /\ d.box.from < d.box.to
     /\ zoned /\ ~recorded.filled.null =>
          d.box.from = Min({recorded.filled.at, LastTime(candles)})
     /\ zoned /\ HasPosition /\ ~recorded.closed.null /\ recorded.closed.at > d.box.from =>
          d.box.to = recorded.closed.at /\ d.exits = {recorded.closed.at}
     /\ d.gap.from \in ToSet(Bars(candles)) /\ d.gap.from <= d.gap.to

\* Annotations and decision both have the levels of a trade, and either may lack some: each
\* level is drawn once, what the panel lists is what is drawn, and profit and risk lie on
\* their sides of the entry.
LevelsAreDrawnOnce(candles) ==
  LET d == Drawing(candles)
      of(level) == {l \in d.lines : l.level = level}
  IN Position.action # "HOLD" =>
       /\ \A level \in {"entry", "sl", "tp"} :
            Cardinality(of(level)) = IF level \in InfoPanel THEN 1 ELSE 0
       /\ Position.levels \subseteq InfoPanel
       /\ \A p \in d.prices : p.bottom < p.top /\ LevelPrice("entry") \in {p.bottom, p.top}

\* What a chart draws is true to the candles and to the trade, whether the server's candles
\* have come or not.
DrawingIsTrue ==
  \A candles \in {chartData.candles, Merged(chartData)} :
    CandlesAreMerged(candles) /\ TradeIsPlaced(candles) /\ LevelsAreDrawnOnce(candles)

\* Whatever fails, the page does not wait for good: while it shows that it is loading, an
\* answer, the script or the library is still to come.
ChartIsAwaited == chart.mounted /\ chart.loading => chart.step # "nothing" /\ ~chart.error
===============================================================================
