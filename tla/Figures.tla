-------------------------------- MODULE Figures --------------------------------
(***************************************************************************)
(* What the dashboard and the page of backtests draw and compute from the  *)
(* figures the server sends: the curves of the profit, by broker and in    *)
(* all, with their axes and areas, the bars, the radar, the calendar, the  *)
(* curve of a backtest and its estimated cost.                             *)
(*                                                                         *)
(* Nothing happens here: the profits are chosen once and for all.  A       *)
(* coordinate is multiplied by the denominator it has in the code, so that *)
(* it is an integer: X of n points by n - 1, Y by the range of the values. *)
(* Texts, colours and what is only drawn twice are left out.               *)
(***************************************************************************)
EXTENDS Integers, FiniteSets, SequencesExt

CONSTANTS
  Brokers,      \* how many brokers have trades
  HistoryDays,  \* days of the history the server sends
  Amounts       \* profits of a broker's day

ASSUME FiguresAssumption ==
  /\ Brokers \in Nat \ {0} /\ HistoryDays \in Nat \ {0} /\ Amounts \subseteq Int

VARIABLE gains  \* the profit of each broker on each day

Abs(v) == IF v < 0 THEN -v ELSE v
Sums(s) == LET sum[i \in 0 .. Len(s)] == IF i = 0 THEN 0 ELSE sum[i - 1] + s[i] IN sum
Total(s) == Sums(s)[Len(s)]
Cumulated(s) == [i \in DOMAIN s |-> Sums(s)[i]]

\* What the server makes of the executions.
EquityByBroker == [b \in 1 .. Brokers |-> Cumulated(gains[b])]
PnlHistory == [d \in 1 .. HistoryDays |-> Total([b \in 1 .. Brokers |-> gains[b][d]])]

-------------------------------------------------------------------------------
(* The curves                                                              *)

SvgW == 400
UsableH == 135  \* 150, less the room at the bottom

\* Where a curve is cut off on the left: one day before the first of the days.
StartOf(days) == IF days = {} THEN 1 ELSE Max({1, Min(days) - 1})

ActiveDays(all) == {i \in 1 .. Len(all[1]) : \E b \in DOMAIN all : all[b][i] # 0}

\* Mutant: every curve is cut off by itself.
TrimmedAlone(all) ==
  [b \in DOMAIN all |-> SubSeq(all[b], StartOf(ActiveDays(<<all[b]>>)), Len(all[b]))]

\* trimLeadingZeros
TrimLeadingZeros(all) ==
  [b \in DOMAIN all |-> SubSeq(all[b], StartOf(ActiveDays(all)), Len(all[b]))]

\* Mutant: the values of the curves alone.
ExtentOfCurves(all) ==
  LET values == UNION {ToSet(all[b]) : b \in DOMAIN all}
  IN [lo |-> Min(values), hi |-> Max(values), range |-> Max({1, Max(values) - Min(values)})]

\* The values of the curves and zero.
Extent(all) ==
  LET values == {0} \cup UNION {ToSet(all[b]) : b \in DOMAIN all}
      lo == Min(values)  hi == Max(values)
  IN [lo |-> lo, hi |-> hi, range |-> IF hi = lo THEN 1 ELSE hi - lo]

X(i, n) == IF n > 1 THEN (i - 1) * SvgW ELSE SvgW \div 2
Y(v, e) == UsableH * e.range - (v - e.lo) * UsableH

\* buildSvgPolyline, getProfitAreaPoints
Polyline(s, e) == [i \in DOMAIN s |-> [x |-> X(i, Len(s)), y |-> Y(s[i], e)]]

\* buildSvgSplitAreaPaths: the curve above the zero line, or below it, and the line back.
SplitArea(s, e, Nearer(_)) ==
  LET points == Polyline(s, e)
      zero(i) == [x |-> points[i].x, y |-> Y(0, e)]
  IN IF Len(s) < 2 THEN <<>>
     ELSE [i \in DOMAIN s |-> [x |-> points[i].x, y |-> Nearer({points[i].y, Y(0, e)})]]
          \o <<zero(Len(s)), zero(1)>>
GreenArea(s, e) == SplitArea(s, e, Min)
RedArea(s, e) == SplitArea(s, e, Max)

\* getEquityBrokerYAxis: the labels, by twice their values; the middle one only where it is
\* neither zero nor too close to the top.
YAxis(e) ==
  {2 * e.hi} \cup {m \in {e.lo + e.hi} : m # 0 /\ 100 * (2 * e.hi - m) > 30 * (e.hi - e.lo)}
TopPct(v2, e) == 100 * 2 * e.range - 100 * (v2 - 2 * e.lo)

\* Mutant: a label every n / 4 days.
EveryFourth(n) == [i \in 1 .. 4 |-> (((i - 1) * n) \div 4) + 1]

\* getXAxisDates: at most four days, evenly spread; Math.round rounds halves up.
XAxisDates(n) ==
  IF n <= 4 THEN [i \in 1 .. n |-> i] ELSE [i \in 1 .. 4 |-> ((2 * (i - 1) * (n - 1) + 3) \div 6) + 1]

\* Mutant: the first day with a profit is cut off.
ProfitAfterFirst(h) ==
  LET active == {i \in DOMAIN h : h[i] # 0}
  IN IF active = {} THEN <<>> ELSE Cumulated(SubSeq(h, Min(active) + 1, Len(h)))

\* getProfitCumulative
ProfitCumulative(h) ==
  LET active == {i \in DOMAIN h : h[i] # 0}
  IN IF active = {} THEN <<>> ELSE Cumulated(SubSeq(h, StartOf(active), Len(h)))
ProfitCurrentValue(h) == IF ProfitCumulative(h) = <<>> THEN 0 ELSE Last(ProfitCumulative(h))

-------------------------------------------------------------------------------
(* Bars, radar and calendar of the dashboard                               *)

\* getBarHeight, getPnLBarPercent and getPipelineBarHeight: a share of the height a bar may
\* have, and never less than least.
BarHeight(v, values, full, least) ==
  LET most == Max({Abs(w) : w \in values \cup {0}})
  IN IF most = 0 THEN least ELSE Max({(Abs(v) * full) \div most, least})

\* The trading score, in hundredths: shares of the trades and days that won, how much was won
\* for what was lost, and the deepest fall from a peak, which may be more than the peak.
Trades == {t \in (1 .. Brokers) \X (1 .. HistoryDays) : gains[t[1]][t[2]] # 0}
Share(part, whole) == IF whole = {} THEN 0 ELSE (100 * Cardinality(part)) \div Cardinality(whole)
WinRate == Share({t \in Trades : gains[t[1]][t[2]] > 0}, Trades)
TradingDays == {d \in 1 .. HistoryDays : PnlHistory[d] # 0}
Consistency == Share({d \in TradingDays : PnlHistory[d] > 0}, TradingDays)
Drawdown ==
  LET level == Cumulated(PnlHistory)
      peak(i) == Max({0} \cup {level[j] : j \in 1 .. i})
  IN Max({0} \cup {(100 * (peak(i) - level[i])) \div peak(i) :
                     i \in {j \in 1 .. HistoryDays : peak(j) > 0}})

\* getRadarNormValues, of the axes without a cap of five.
RadarNormValues == <<Min({WinRate, 100}), Max({100 - Drawdown, 0}), Min({Consistency, 100})>>

\* Mutant: a month that starts on a Sunday starts a day before its first week.
DaysFromMonday(w) == w - 1

\* getCalendarDays: the cells before the first day, whose weekday is w (0: Sunday).
StartDow(w) == IF w = 0 THEN 6 ELSE w - 1
CalendarDays(w, days) ==
  [c \in 1 .. Max({42, StartDow(w) + days}) |->
     IF c > StartDow(w) /\ c <= StartDow(w) + days THEN c - StartDow(w) ELSE 0]

\* bestCalendarDay: day by day, one with trades that beats the best so far; 0 if there is none.
BestCalendarDay(h) ==
  LET best[d \in 0 .. HistoryDays] ==
        IF d = 0 THEN 0
        ELSE IF /\ \E t \in Trades : t[2] = d
                /\ best[d - 1] = 0 \/ h[d] > h[best[d - 1]] THEN d ELSE best[d - 1]
  IN best[HistoryDays]

-------------------------------------------------------------------------------
(* The page of backtests                                                   *)

PlotHeight == 208
Padding == 25  \* the least there is, which is enough for the profits of an instance

\* equityChartModel: the values and the initial capital, with room above and below.
Domain(s, capital) ==
  LET values == ToSet(s) \cup {capital}
  IN [lo |-> Min(values) - Padding, hi |-> Max(values) + Padding]
ScaleY(v, d) == (d.hi - v) * PlotHeight

\* dailyPnlChartModel: a bar stands on the zero line in the middle, or hangs from it.
HalfHeight == PlotHeight \div 2
DailyPnlBar(v, values) ==
  LET height == BarHeight(v, values, HalfHeight - 8, 2)
  IN [top |-> IF v >= 0 THEN HalfHeight - height ELSE HalfHeight, height |-> height]

\* buildSignedAreaPath: what one colour covers between two points, by the differences a and b
\* from the capital at them; a crossing is at the share |a| / (|a| + |b|) of the way.
SignedArea(a, b, sign) ==
  LET cross == <<Abs(a), Abs(a) + Abs(b)>>
      start == <<0, 1>>
      end == <<1, 1>>
  IN CASE a * sign >= 0 /\ b * sign >= 0 -> {<<start, end>>}
       [] a * sign > 0 /\ b * sign < 0 -> {<<start, cross>>}
       [] a * sign < 0 /\ b * sign > 0 -> {<<cross, end>>}
       [] OTHER -> {}

\* buildEquityXTicks
EquityXTicks(n) == IF n <= 3 THEN 1 .. n ELSE {1, ((n - 1) \div 2) + 1, n}

Round(a, b) == (2 * a + b) \div (2 * b)

\* Mutant: a started month counts as a whole one.
ExecutionsByMonth(symbols, days) == symbols * 100 * ((days + 29) \div 30)

\* The executions both sides expect, of which one costs 7.5 cents.
Executions(symbols, days) == symbols * Max({1, Round(Max({1, days}) * 100, 30)})

\* estimatedCostUsd of the page and of the dialog, in cents: toFixed rounds halves up.
ShownEstimate(symbols, days) == Round(15 * Executions(symbols, days), 2)

\* The server rounds halves to even; where the product of the floating point numbers falls
\* beside the half, both round it the same way, up or down.
ServerEstimates(symbols, days) ==
  LET twice == 15 * symbols * Max({1, Round(Max({1, days}) * 100, 30)})
  IN IF twice % 4 = 1 THEN {twice \div 2, ShownEstimate(symbols, days)}
     ELSE {ShownEstimate(symbols, days)}

-------------------------------------------------------------------------------

figuresVars == <<gains>>

FiguresInit == gains \in [1 .. Brokers -> [1 .. HistoryDays -> Amounts]]
FiguresSpec == FiguresInit /\ [][UNCHANGED gains]_figuresVars

-------------------------------------------------------------------------------
(* Properties                                                              *)

Trimmed == TrimLeadingZeros(EquityByBroker)

\* trimLeadingZeros and getProfitCumulative cut off nothing that happened: the curves of all
\* brokers start on the same day, which the axis of dates is written for, no later than the
\* first profit, and end at their totals; the whole profit ends at the sum of all days, and
\* the best day is the first traded day that no other beats.
CurvesTellAll ==
  /\ \A b \in 1 .. Brokers :
       /\ Len(Trimmed[b]) = Len(Trimmed[1])
       /\ Last(Trimmed[b]) = Total(gains[b])
       /\ gains[b][1] = 0 => Trimmed[b][1] = 0
  /\ ProfitCurrentValue(PnlHistory) = Total(PnlHistory)
  /\ LET best == BestCalendarDay(PnlHistory) IN
     \A t \in Trades :
       /\ PnlHistory[t[2]] <= PnlHistory[best]
       /\ PnlHistory[t[2]] = PnlHistory[best] => best <= t[2]

InFrame(points, e) ==
  \A i \in DOMAIN points : /\ points[i].y \in 0 .. UsableH * e.range
                           /\ points[i].x \in 0 .. SvgW * Max({1, HistoryDays - 1})

\* The areas of a curve lie on their own side of the zero line.
AreasFit(s, e) ==
  /\ InFrame(Polyline(s, e), e) /\ InFrame(GreenArea(s, e), e) /\ InFrame(RedArea(s, e), e)
  /\ \A i \in DOMAIN GreenArea(s, e) : GreenArea(s, e)[i].y <= Y(0, e)
  /\ \A i \in DOMAIN RedArea(s, e) : RedArea(s, e)[i].y >= Y(0, e)

\* The part of the way between two points that the area of a sign covers, times n; there is one
\* area at most.
Covered(areas, n) ==
  IF Cardinality(areas) # 1 THEN 0
  ELSE LET z == CHOOSE z \in areas : TRUE
       IN (n * (z[2][1] * z[1][2] - z[1][1] * z[2][2])) \div (z[1][2] * z[2][2])

\* Whatever the profits, everything is drawn inside its frame: the curves and their areas, the
\* labels of the axis, the bars and the radar; and the curve of a backtest is coloured by its
\* sign from end to end, by one colour at a time.
FiguresFit ==
  LET e == Extent(Trimmed)
      p == ProfitCumulative(PnlHistory)
      s == Cumulated(PnlHistory)
      d == Domain(s, 0)
  IN /\ \A b \in 1 .. Brokers : AreasFit(Trimmed[b], e)
     /\ AreasFit(p, Extent(<<p>>))
     /\ \A v2 \in YAxis(e) : TopPct(v2, e) \in 0 .. 200 * e.range
     /\ \A i \in 1 .. HistoryDays : BarHeight(PnlHistory[i], ToSet(PnlHistory), 100, 4) \in 4 .. 100
     /\ \A i \in 1 .. HistoryDays :
          LET bar == DailyPnlBar(PnlHistory[i], ToSet(PnlHistory))
          IN bar.top >= 0 /\ bar.top + bar.height <= PlotHeight
     /\ \A i \in DOMAIN RadarNormValues : RadarNormValues[i] \in 0 .. 100
     /\ \A i \in 1 .. HistoryDays : ScaleY(s[i], d) \in 0 .. (d.hi - d.lo) * PlotHeight
     /\ \A i \in 1 .. HistoryDays - 1 :
          LET n == Abs(s[i]) + Abs(s[i + 1])
              covered(sign) == Covered(SignedArea(s[i], s[i + 1], sign), n)
          IN n > 0 => covered(1) + covered(-1) = n

\* Every month has its days under their weekdays, Monday first, and fits on the sheet; the
\* axes have the first and the last day on them, and no day twice.
AxesAreTrue ==
  /\ \A w \in 0 .. 6, days \in 28 .. 31 :
       LET cells == CalendarDays(w, days) IN
       /\ Len(cells) = 42
       /\ \A d \in 1 .. days : \E c \in 1 .. 42 : cells[c] = d /\ (c - 1) % 7 = (w + d - 1 + 6) % 7
  /\ \A n \in 1 .. 40 :
       LET dates == XAxisDates(n) IN
       /\ dates[1] = 1 /\ Last(dates) = n
       /\ \A i \in 1 .. Len(dates) - 1 : dates[i] < dates[i + 1]
       /\ {1, n} \subseteq EquityXTicks(n)

\* The cost a user accepts in the form is never below what the server estimates for the same
\* backtest, so that a launch is not refused for its cost: two formulas in two languages.
EstimateCovers ==
  \A symbols \in 1 .. 20, days \in 0 .. 400 :
    \A cost \in ServerEstimates(symbols, days) : cost <= ShownEstimate(symbols, days)

\* What is drawn and computed from the figures is true to them.
FiguresAreTrue == CurvesTellAll /\ FiguresFit /\ AxesAreTrue /\ EstimateCovers
===============================================================================
