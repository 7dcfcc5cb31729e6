----------------------------- MODULE ProgressProofs -----------------------------
(***************************************************************************)
(* Proofs about the pages on which something has to come.                  *)
(***************************************************************************)
EXTENDS Progress, TradingProofs

-------------------------------------------------------------------------------
(* Sorting by time                                                         *)

\* A stable sort: every place once, in the order of the times, equal times by their places.
LEMMA ByTimeIs ==
  ASSUME NEW S \in SUBSET Nat, IsFiniteSet(S), NEW times, \A i \in S : times[i] \in Int
  PROVE  /\ Cardinality(S) \in Nat /\ ByTime(S, times) \in [1 .. Cardinality(S) -> S]
         /\ \A i \in S : \E k \in 1 .. Cardinality(S) : ByTime(S, times)[k] = i
         /\ \A k, l \in 1 .. Cardinality(S) :
              k < l => /\ NotAfter(times, ByTime(S, times)[k], ByTime(S, times)[l])
                       /\ ByTime(S, times)[k] # ByTime(S, times)[l]
<1> DEFINE upto(x) == {y \in S : NotAfter(times, y, x)}
           n == Cardinality(S)
           rank == [x \in S |-> Cardinality(upto(x))]
           o == ByTime(S, times)
<1>1. n \in Nat
  BY FS_CardinalityType
<1>2. /\ \A x \in S : NotAfter(times, x, x)
      /\ \A x, y \in S : NotAfter(times, x, y) \/ NotAfter(times, y, x)
      /\ \A x, y \in S : NotAfter(times, x, y) /\ NotAfter(times, y, x) => x = y
      /\ \A x, y, z \in S : NotAfter(times, x, y) /\ NotAfter(times, y, z) => NotAfter(times, x, z)
  BY DEF NotAfter
<1>3. ASSUME NEW x \in S PROVE IsFiniteSet(upto(x)) /\ Cardinality(upto(x)) \in 1 .. n
  <2>1. upto(x) \subseteq S /\ x \in upto(x)
    BY <1>2
  <2> HIDE DEF upto
  <2>2. IsFiniteSet(upto(x)) /\ Cardinality(upto(x)) <= n
    BY <2>1, FS_Subset
  <2>3. Cardinality(upto(x)) \in Nat /\ Cardinality(upto(x)) # 0
    BY <2>1, <2>2, FS_CardinalityType, FS_EmptySet
  <2> QED
    BY <1>1, <2>2, <2>3
<1>4. ASSUME NEW x \in S, NEW y \in S, x # y, NotAfter(times, x, y)
      PROVE  Cardinality(upto(x)) < Cardinality(upto(y))
  <2>1. upto(x) \subseteq upto(y) /\ y \in upto(y) /\ y \notin upto(x)
    BY <1>2, <1>4
  <2>2. IsFiniteSet(upto(y)) /\ Cardinality(upto(y)) \in Nat /\ Cardinality(upto(x)) \in Nat
    BY <1>1, <1>3
  <2> HIDE DEF upto
  <2>3. upto(x) # upto(y)
    BY <2>1
  <2>4. Cardinality(upto(x)) <= Cardinality(upto(y))
    BY <2>1, <2>2, FS_Subset
  <2>5. Cardinality(upto(x)) # Cardinality(upto(y))
    BY <2>1, <2>2, <2>3, FS_Subset
  <2> QED
    BY <2>2, <2>4, <2>5
<1>5. \A x, y \in S : x # y => rank[x] # rank[y]
  <2> TAKE x, y \in S
  <2>1. rank[x] = Cardinality(upto(x)) /\ rank[y] = Cardinality(upto(y))
    OBVIOUS
  <2>2. Cardinality(upto(x)) \in Nat /\ Cardinality(upto(y)) \in Nat
    BY <1>1, <1>3
  <2> HIDE DEF upto, rank
  <2> QED
    BY <1>2, <1>4, <2>1, <2>2
<1>6. rank \in [S -> 1 .. n]
  <2> HIDE DEF upto, n
  <2> QED
    BY <1>3
<1>7. rank \in Injection(S, 1 .. n)
  <2> HIDE DEF rank, n
  <2> QED
    BY <1>5, <1>6 DEF Injection, IsInjective
<1>8. IsFiniteSet(1 .. n) /\ Cardinality(1 .. n) = n
  <2> HIDE DEF n
  <2> QED
    BY <1>1, FS_Interval
<1>9. rank \in Surjection(S, 1 .. n)
  <2> HIDE DEF rank
  <2> QED
    BY <1>7, <1>8, FS_Injection
<1>10. ASSUME NEW i \in 1 .. n PROVE o[i] \in S /\ rank[o[i]] = i
  <2>1. \E x \in S : rank[x] = i
    <3> HIDE DEF rank
    <3> QED
      BY <1>9 DEF Surjection
  <2>2. \E x \in S : Cardinality(upto(x)) = i
    BY <2>1
  <2>3. o[i] = CHOOSE x \in S : Cardinality(upto(x)) = i
    BY DEF ByTime
  <2> HIDE DEF upto, o
  <2>4. o[i] \in S /\ Cardinality(upto(o[i])) = i
    BY <2>2, <2>3
  <2> QED
    BY <2>4
<1>11. o = [i \in 1 .. n |-> o[i]]
  BY DEF ByTime
<1>12. \A x \in S : rank[x] = Cardinality(upto(x))
  OBVIOUS
<1> HIDE DEF rank, n, o, upto
<1>13. o \in [1 .. n -> S]
  BY <1>10, <1>11
<1>14. ASSUME NEW i \in S PROVE \E k \in 1 .. n : o[k] = i
  <2>1. rank[i] \in 1 .. n
    BY <1>6
  <2>2. o[rank[i]] \in S /\ rank[o[rank[i]]] = rank[i]
    BY <1>10, <2>1
  <2>3. o[rank[i]] = i
    BY <1>5, <2>2
  <2> QED
    BY <2>1, <2>3
<1>15. ASSUME NEW k \in 1 .. n, NEW l \in 1 .. n, k < l
       PROVE  NotAfter(times, o[k], o[l]) /\ o[k] # o[l]
  <2>1. /\ o[k] \in S /\ o[l] \in S
        /\ Cardinality(upto(o[k])) = k /\ Cardinality(upto(o[l])) = l
    BY <1>10, <1>12
  <2>2. o[k] # o[l]
    BY <1>1, <1>15, <2>1
  <2>3. ~NotAfter(times, o[l], o[k])
    <3>1. NotAfter(times, o[l], o[k]) => Cardinality(upto(o[l])) < Cardinality(upto(o[k]))
      BY <1>4, <2>1, <2>2
    <3>2. k \in Nat /\ l \in Nat /\ ~(l < k)
      BY <1>1, <1>15
    <3> QED
      BY <2>1, <3>1, <3>2
  <2> QED
    BY <1>2, <2>1, <2>2, <2>3
<1> QED
  BY <1>1, <1>13, <1>14, <1>15 DEF n, o

-------------------------------------------------------------------------------
(* The details of an execution                                             *)

\* A page that gave its refresh up while nothing was on its way, and is open: nothing comes any
\* more that would show the execution as monitored.  Only a dialog may still close the
\* position, and that completes the row.
Quiet ==
  detail.open /\ ~detail.refreshing /\ ~outpaced =>
    /\ ~isMonitoring /\ ~isAwaitingApproval
    /\ \A c \in commands :
         c.op = "closePosition" /\ (c.answer = "ok" => rows[ShownId] = "COMPLETED")
    /\ \A r \in detailRequests :
         rows[ShownId] = "COMPLETED" /\ (r.served => r.execution = "COMPLETED")

DetailInv == RowsTypeOK /\ DetailTypeOK /\ Quiet

LEMMA ShownRow ==
  ASSUME RowsTypeOK
  PROVE  /\ ShownId \in Ids /\ ShownId \in Nat /\ Status(ShownId) \in ExecutionStatuses
         /\ results[ShownId] \in Results
         /\ rows[ShownId] = "COMPLETED" => Status(ShownId) = "COMPLETED"
<1>1. ShownId \in 1 .. Len(rows) /\ rows[ShownId] \in RowStatuses /\ results[ShownId] \in Results
  BY RowsAssumption DEF RowsTypeOK, RowStatuses, ShownId
<1> QED
  BY <1>1 DEF Status, RowStatuses, ExecutionStatuses, ActiveStatuses, Ids

\* What is completed stays so, whatever the backend does or is asked to do.
LEMMA CompletedStays ==
  ASSUME RowsTypeOK, rows[ShownId] = "COMPLETED", BackendMoves
  PROVE  rows'[ShownId] = "COMPLETED"
<1>1. ShownId \in 1 .. Len(rows) /\ rows \in Seq(RowStatuses)
  BY RowsAssumption DEF RowsTypeOK, RowStatuses, ShownId
<1>2. CASE RowCreated
  BY <1>1, <1>2 DEF RowCreated
<1>3. CASE RowMoves
  <2>1. PICK e \in Ids : \E s, r : rows[e] # "COMPLETED" /\ SetRow(e, s, r)
    BY <1>3 DEF RowMoves
  <2> QED
    BY <1>1, <2>1 DEF SetRow
<1> QED
  BY <1>2, <1>3 DEF BackendMoves

LEMMA LoadIs ==
  ASSUME DetailTypeOK, LoadExecution
  PROVE  /\ detailRequests' \subseteq DetailRequests
         /\ \A r \in detailRequests' : r \in detailRequests \/ ~r.served
<1>1. PICK n \in FreeNumbers :
        detailRequests' = detailRequests \cup
          {[n |-> n, served |-> FALSE, execution |-> "none", result |-> "none"]}
  BY DEF LoadExecution
<1>2. n \in 1 .. MaxDetailRequests
  BY DEF FreeNumbers
<1> DEFINE new == [n |-> n, served |-> FALSE, execution |-> "none", result |-> "none"]
<1>3. new \in DetailRequests /\ ~new.served
  BY <1>2 DEF DetailRequests, Results
<1>4. detailRequests' = detailRequests \cup {new}
  BY <1>1
<1> HIDE DEF new
<1> QED
  BY <1>3, <1>4 DEF DetailTypeOK

LEMMA DetailInitially == DetailOpened /\ RowsTypeOK => DetailInv
<1> SUFFICES ASSUME DetailOpened, RowsTypeOK PROVE DetailInv
  OBVIOUS
<1>1. [n |-> 1, served |-> FALSE, execution |-> "none", result |-> "none"] \in DetailRequests
  BY DetailAssumption DEF DetailRequests, Results
<1>2. detail \in Details /\ detail.refreshing
  BY DEF DetailOpened, Details, Results
<1>3. detailRequests \subseteq DetailRequests
  BY <1>1 DEF DetailOpened
<1>4. commands = {} /\ detailActions = 0 /\ outpaced = FALSE
  BY DEF DetailOpened
<1>5. 0 \in 0 .. MaxDetailActions
  BY DetailAssumption
<1> QED
  BY <1>2, <1>3, <1>4, <1>5 DEF DetailInv, DetailTypeOK, Quiet

LEMMA DetailActIs == ASSUME DetailInv, DetailAct PROVE detailActions' \in 0 .. MaxDetailActions
BY DetailAssumption DEF DetailAct, DetailInv, DetailTypeOK

LEMMA CommandIs ==
  ASSUME DetailInv, NEW op \in {"approve", "reject", "closePosition"}, Command(op)
  PROVE  commands' \subseteq Commands
BY DEF Command, Commands, DetailInv, DetailTypeOK

\* The timer, the requests and their answers.
LEMMA TickKept == DetailInv /\ Tick => DetailInv'
<1> SUFFICES ASSUME DetailInv, Tick PROVE DetailInv'
  OBVIOUS
<1>1. UNCHANGED <<rowVars, commands, detailActions>> /\ outpaced' \in BOOLEAN
  BY DEF Tick, DetailInv, DetailTypeOK
<1>2. CASE isMonitoring \/ isAwaitingApproval
  <2>1. LoadExecution /\ detail' = detail /\ detail.refreshing
    BY <1>2 DEF Tick
  <2> QED
    BY <1>1, <2>1, LoadIs DEF DetailInv, DetailTypeOK, Quiet, rowVars, RowsTypeOK
<1>3. CASE ~(isMonitoring \/ isAwaitingApproval)
  <2>1. /\ detail' = [detail EXCEPT !.refreshing = FALSE] /\ detailRequests' = detailRequests
        /\ ~outpaced' => detailRequests = {} /\ commands = {}
    BY <1>3 DEF Tick, DetailInv, DetailTypeOK
  <2>2. detail' \in Details /\ detail'.execution = detail.execution
    BY <2>1 DEF DetailInv, DetailTypeOK, Details
  <2> QED
    BY <1>1, <1>3, <2>1, <2>2 DEF DetailInv, DetailTypeOK, Quiet, rowVars, RowsTypeOK,
       isMonitoring, isAwaitingApproval
<1> QED
  BY <1>2, <1>3

LEMMA DetailServedKept ==
  ASSUME DetailInv, NEW q \in detailRequests, DetailServed(q) PROVE DetailInv'
<1> DEFINE a == [q EXCEPT !.served = TRUE, !.execution = Status(ShownId),
                          !.result = results[ShownId]]
<1>1. /\ UNCHANGED <<rowVars, detail, commands, detailActions, outpaced>>
      /\ detailRequests' = (detailRequests \ {q}) \cup {a}
  BY DEF DetailServed
<1>2. q \in DetailRequests
  BY DEF DetailInv, DetailTypeOK
<1>3. a \in DetailRequests /\ a.served /\ a.execution = Status(ShownId)
  BY <1>2, ShownRow DEF DetailRequests, DetailInv
<1> HIDE DEF a
<1>4. DetailTypeOK' /\ RowsTypeOK'
  BY <1>1, <1>3 DEF DetailInv, DetailTypeOK, rowVars, RowsTypeOK
<1>5. Quiet'
  BY <1>1, <1>3, ShownRow DEF DetailInv, Quiet, rowVars, isMonitoring, isAwaitingApproval
<1> QED
  BY <1>4, <1>5 DEF DetailInv

LEMMA DetailAnsweredKept ==
  ASSUME DetailInv, NEW q \in detailRequests, DetailLoaded(q) \/ DetailFails(q)
  PROVE  DetailInv'
<1>1. q \in DetailRequests
  BY DEF DetailInv, DetailTypeOK
<1>2. /\ UNCHANGED <<rowVars, commands, outpaced>> /\ detailRequests' = detailRequests \ {q}
      /\ detailActions' \in 0 .. MaxDetailActions
  BY DetailActIs DEF DetailLoaded, DetailFails, DetailInv, DetailTypeOK
<1>3. /\ detail' \in Details /\ detail'.open = detail.open
      /\ detail'.refreshing = detail.refreshing
      /\ \/ detail'.execution = detail.execution
         \/ q.served /\ detail'.execution = q.execution
  <2>1. CASE DetailLoaded(q)
    BY <1>1, <2>1 DEF DetailLoaded, DetailRequests, DetailInv, DetailTypeOK, Details
  <2>2. CASE DetailFails(q)
    BY <2>2 DEF DetailFails, DetailInv, DetailTypeOK, Details
  <2> QED
    BY <2>1, <2>2
<1>4. DetailTypeOK' /\ RowsTypeOK'
  BY <1>2, <1>3 DEF DetailInv, DetailTypeOK, rowVars, RowsTypeOK
<1>5. Quiet'
  BY <1>2, <1>3 DEF DetailInv, Quiet, rowVars, isMonitoring, isAwaitingApproval
<1> QED
  BY <1>4, <1>5 DEF DetailInv

\* What the user does.
LEMMA DetailUserKept ==
  ASSUME DetailInv,
         RefreshExecution \/ ApproveExecution \/ ClosePosition \/ CloseConfirmed \/ LeaveDetail
  PROVE  DetailInv'
<1>1. CASE RefreshExecution
  BY <1>1, LoadIs, DetailActIs DEF RefreshExecution, DetailInv, DetailTypeOK, Quiet, rowVars,
     RowsTypeOK, isMonitoring
<1>2. CASE ApproveExecution
  <2>1. commands' \subseteq Commands
    BY <1>2, CommandIs DEF ApproveExecution
  <2> QED
    BY <1>2, <2>1, DetailActIs DEF ApproveExecution, DetailInv, DetailTypeOK, Quiet, rowVars,
       RowsTypeOK, isAwaitingApproval
<1>3. CASE ClosePosition
  <2>1. /\ detail' \in Details /\ detail'.open = detail.open
        /\ detail'.refreshing = detail.refreshing /\ detail'.execution = detail.execution
    BY <1>3 DEF ClosePosition, DetailInv, DetailTypeOK, Details
  <2> QED
    BY <1>3, <2>1, DetailActIs DEF ClosePosition, DetailInv, DetailTypeOK, Quiet, rowVars,
       RowsTypeOK, isMonitoring, isAwaitingApproval
<1>4. CASE CloseConfirmed
  <2>1. /\ detail' \in Details /\ detail'.open = detail.open
        /\ detail'.refreshing = detail.refreshing /\ detail'.execution = detail.execution
    BY <1>4 DEF CloseConfirmed, DetailInv, DetailTypeOK, Details
  <2>2. /\ commands' \subseteq Commands
        /\ \A c \in commands' :
             c \in commands \/ (c.op = "closePosition" /\ c.answer = "none")
    BY <1>4, CommandIs DEF CloseConfirmed, Command, DetailInv, DetailTypeOK
  <2>3. UNCHANGED <<rowVars, detailRequests, detailActions, outpaced>>
    BY <1>4 DEF CloseConfirmed
  <2>4. Quiet'
    BY <2>1, <2>2, <2>3 DEF DetailInv, Quiet, rowVars, isMonitoring, isAwaitingApproval
  <2> QED
    BY <2>1, <2>2, <2>3, <2>4 DEF DetailInv, DetailTypeOK, rowVars, RowsTypeOK
<1>5. CASE LeaveDetail
  BY <1>5 DEF LeaveDetail, DetailInv, DetailTypeOK, Details, Quiet, rowVars, RowsTypeOK
<1> QED
  BY <1>1, <1>2, <1>3, <1>4, <1>5

\* The commands: one that is accepted completes the row, if it closes the position.
LEMMA CommandKept ==
  ASSUME DetailInv, NEW c \in commands, DetailCommandServed(c) \/ CommandAnswered(c)
  PROVE  DetailInv'
<1>1. c \in Commands
  BY DEF DetailInv, DetailTypeOK
<1>2. CASE DetailCommandServed(c)
  <2>1. UNCHANGED <<detail, detailRequests, detailActions, outpaced>>
    BY <1>2 DEF DetailCommandServed
  <2>2. CASE ~Accepts(c.op, ShownId)
    <3>1. /\ UNCHANGED rowVars
          /\ commands' = (commands \ {c}) \cup {[c EXCEPT !.answer = "refused"]}
      BY <1>2, <2>2 DEF DetailCommandServed
    <3>2. /\ [c EXCEPT !.answer = "refused"] \in Commands
          /\ [c EXCEPT !.answer = "refused"].op = c.op
          /\ [c EXCEPT !.answer = "refused"].answer = "refused"
      BY <1>1 DEF Commands
    <3>3. Quiet'
      BY <2>1, <3>1, <3>2 DEF DetailInv, Quiet, rowVars, isMonitoring, isAwaitingApproval
    <3> QED
      BY <2>1, <3>1, <3>2, <3>3 DEF DetailInv, DetailTypeOK, rowVars, RowsTypeOK
  <2>3. CASE Accepts(c.op, ShownId)
    <3>1. PICK r \in Results : Done(c.op, ShownId, r)
      BY <1>2, <2>3 DEF DetailCommandServed, Results
    <3>2. commands' = (commands \ {c}) \cup {[c EXCEPT !.answer = "ok"]}
      BY <1>2, <2>3 DEF DetailCommandServed
    <3>3. RowsTypeOK'
      BY <3>1, RowsDone, ShownRow DEF DetailInv
    <3>4. /\ [c EXCEPT !.answer = "ok"] \in Commands
          /\ [c EXCEPT !.answer = "ok"].op = c.op
      BY <1>1 DEF Commands
    <3>5. c.op = "closePosition" => rows'[ShownId] = "COMPLETED"
      BY <3>1, ShownRow DEF Done, SetRow, DetailInv, RowsTypeOK, Ids
    <3>6. detail.open /\ ~detail.refreshing /\ ~outpaced => rows'[ShownId] = "COMPLETED"
      BY <3>5 DEF DetailInv, Quiet
    <3>7. Quiet'
      BY <2>1, <3>2, <3>4, <3>6 DEF DetailInv, Quiet, isMonitoring, isAwaitingApproval
    <3> QED
      BY <2>1, <3>2, <3>3, <3>4, <3>7 DEF DetailInv, DetailTypeOK
  <2> QED
    BY <2>2, <2>3
<1>3. CASE CommandAnswered(c)
  <2>1. UNCHANGED <<rowVars, detail, detailActions, outpaced>> /\ commands' = commands \ {c}
    BY <1>3 DEF CommandAnswered
  <2>2. CASE c.answer = "ok"
    <3>1. /\ detailRequests' \subseteq DetailRequests
          /\ \A r \in detailRequests' : r \in detailRequests \/ ~r.served
      BY <1>3, <2>2, LoadIs DEF CommandAnswered, DetailInv
    <3>2. Quiet'
      BY <2>1, <2>2, <3>1 DEF DetailInv, Quiet, rowVars, isMonitoring, isAwaitingApproval
    <3> QED
      BY <2>1, <3>1, <3>2 DEF DetailInv, DetailTypeOK, rowVars, RowsTypeOK
  <2>3. CASE c.answer # "ok"
    <3>1. detailRequests' = detailRequests
      BY <1>3, <2>3 DEF CommandAnswered
    <3>2. Quiet'
      BY <2>1, <3>1 DEF DetailInv, Quiet, rowVars, isMonitoring, isAwaitingApproval
    <3> QED
      BY <2>1, <3>1, <3>2 DEF DetailInv, DetailTypeOK, rowVars, RowsTypeOK
  <2> QED
    BY <2>2, <2>3
<1> QED
  BY <1>2, <1>3

LEMMA DetailStep == DetailInv /\ [ExecutionDetailNext]_executionDetailVars => DetailInv'
<1> SUFFICES ASSUME DetailInv, [ExecutionDetailNext]_executionDetailVars PROVE DetailInv'
  OBVIOUS
<1>1. CASE BackendMoves /\ UNCHANGED detailVars
  <2>1. RowsTypeOK'
    BY <1>1, RowsMove DEF DetailInv
  <2>2. rows[ShownId] = "COMPLETED" => rows'[ShownId] = "COMPLETED"
    BY <1>1, CompletedStays DEF DetailInv
  <2>3. Quiet'
    BY <1>1, <2>2 DEF DetailInv, Quiet, detailVars, isMonitoring, isAwaitingApproval
  <2> QED
    BY <1>1, <2>1, <2>3 DEF DetailInv, DetailTypeOK, detailVars
<1>2. CASE UNCHANGED executionDetailVars
  BY <1>2 DEF executionDetailVars, detailVars, rowVars, DetailInv, DetailTypeOK, RowsTypeOK,
     Quiet, isMonitoring, isAwaitingApproval
<1> QED
  BY <1>1, <1>2, TickKept, DetailServedKept, DetailAnsweredKept, DetailUserKept, CommandKept
     DEF ExecutionDetailNext, DetailServes, DetailAnswers, CommandSteps

\* An open page of an execution that is monitored or waits goes on refreshing, for any rows,
\* requests and commands.
THEOREM DetailRefreshed == ExecutionDetailSpec => [](DetailTypeOK /\ MonitoredIsRefreshed)
<1>1. RowsInit /\ DetailOpened => DetailInv
  BY RowsInitially, DetailInitially
<1>2. DetailInv => DetailTypeOK /\ MonitoredIsRefreshed
  BY DEF DetailInv, MonitoredIsRefreshed, Quiet, DetailTypeOK, Details
<1> QED
  BY <1>1, <1>2, DetailStep, PTL DEF ExecutionDetailSpec

-------------------------------------------------------------------------------
(* The report                                                              *)

\* The summary is asked for once, after the execution: when it is shown in full, neither an
\* answer nor the timer is left that could replace it.
SummaryOnce ==
  /\ "summary" \in asked => "execution" \notin asked
  /\ report.executiveReport = "full" =>
       "summary" \notin asked /\ "execution" \notin asked /\ ~report.reportLoading

ReportInv == ReportTypeOK /\ SummaryOnce

LEMMA OpenedIs ==
  ASSUME NEW view \in {"page", "modal"}
  PROVE  /\ Opened(view) \in Reports /\ Opened(view).executiveReport = "none"
         /\ Opened(view).view = view
         /\ AskedAtOnce(view) \subseteq ReportRequests
         /\ "summary" \in AskedAtOnce(view) => "execution" \notin AskedAtOnce(view)
<1>1. {} \in SUBSET SectionIds /\ "summary" \in SectionIds
  BY DEF SectionIds
<1>2. Opened(view) \in Reports /\ Opened(view).executiveReport = "none" /\ Opened(view).view = view
  BY <1>1 DEF Opened, Reports
<1> QED
  BY <1>2 DEF AskedAtOnce, ReportRequests

LEMMA ReportInitially ==
  ASSUME recorded \in Recorded, zone \in Zones, NEW view \in {"page", "modal"}, ReportOpened(view)
  PROVE  ReportInv
<1>1. report \in Reports /\ report.executiveReport = "none" /\ asked = AskedAtOnce(view)
  BY OpenedIs DEF ReportOpened
<1>2. reportActions = 0 /\ 0 \in 0 .. MaxReportActions
  BY ReportAssumption DEF ReportOpened
<1> QED
  BY <1>1, <1>2, OpenedIs DEF ReportInv, ReportTypeOK, SummaryOnce

LEMMA ReportActIs ==
  ASSUME ReportInv, ReportAct PROVE reportActions' \in 0 .. MaxReportActions
BY ReportAssumption DEF ReportAct, ReportInv, ReportTypeOK

\* What a step does to the report and its requests.
LEMMA ReportFrame ==
  ASSUME ReportInv, UNCHANGED <<recorded, zone>>, reportActions' \in 0 .. MaxReportActions,
         report' \in Reports, asked' \subseteq ReportRequests, SummaryOnce'
  PROVE  ReportInv'
BY DEF ReportInv, ReportTypeOK

\* The answers.
LEMMA ReportAnswered ==
  ASSUME ReportInv,
         \/ ReportExecutionLoaded \/ ReportExecutionFails \/ SummaryLoaded \/ SummaryFails
         \/ AnalysisAnswered \/ Downloaded
  PROVE  ReportInv' /\ (report.executiveReport = "full" => report'.executiveReport = "full")
<1>1. report \in Reports /\ asked \subseteq ReportRequests
  BY DEF ReportInv, ReportTypeOK
<1>2. UNCHANGED <<recorded, zone>> /\ reportActions' \in 0 .. MaxReportActions
  BY DEF ReportExecutionLoaded, ReportExecutionFails, SummaryLoaded, SummaryFails,
     AnalysisAnswered, Downloaded, Answer, ReportInv, ReportTypeOK
<1>3. CASE ReportExecutionLoaded
  <2>1. /\ "execution" \in asked
        /\ asked' = (asked \ {"execution"}) \cup {"summary", "analysis"}
        /\ report' = IF report.open
                     THEN [report EXCEPT !.execution = TRUE, !.loading = FALSE, !.timer = TRUE,
                                         !.navSections = BuildNavSections]
                     ELSE report
    BY <1>3 DEF ReportExecutionLoaded, Answer
  <2>2. report' \in Reports /\ report'.executiveReport = report.executiveReport
    BY <1>1, <2>1 DEF Reports, BuildNavSections
  <2>3. SummaryOnce' /\ asked' \subseteq ReportRequests
    BY <1>1, <2>1, <2>2 DEF SummaryOnce, ReportInv, ReportRequests
  <2> QED
    BY <1>2, <2>2, <2>3, ReportFrame
<1>4. CASE ReportExecutionFails
  <2>1. /\ asked' = asked \ {"execution"}
        /\ report' = IF report.open
                     THEN [report EXCEPT !.error = TRUE, !.loading = FALSE] ELSE report
    BY <1>4 DEF ReportExecutionFails, Answer
  <2>2. /\ report' \in Reports /\ report'.executiveReport = report.executiveReport
        /\ report'.reportLoading = report.reportLoading
    BY <1>1, <2>1 DEF Reports
  <2>3. SummaryOnce' /\ asked' \subseteq ReportRequests
    BY <1>1, <2>1, <2>2 DEF SummaryOnce, ReportInv
  <2> QED
    BY <1>2, <2>2, <2>3, ReportFrame
<1>5. CASE SummaryLoaded \/ SummaryFails
  <2>1. PICK outcome \in {"full", "failed"} :
          report' = IF report.open
                    THEN [report EXCEPT !.timer = FALSE, !.executiveReport = outcome,
                                        !.reportLoading = FALSE]
                    ELSE report
    BY <1>5 DEF SummaryLoaded, SummaryFails, Answer
  <2>2. "summary" \in asked /\ asked' = asked \ {"summary"}
    BY <1>5 DEF SummaryLoaded, SummaryFails, Answer
  <2>3. /\ report' \in Reports
        /\ report'.executiveReport = "full" =>
             ~report'.reportLoading \/ report.executiveReport = "full"
    BY <1>1, <2>1 DEF Reports
  <2>4. report.executiveReport # "full" /\ "execution" \notin asked
    BY <2>2 DEF SummaryOnce, ReportInv
  <2>5. SummaryOnce' /\ asked' \subseteq ReportRequests
    BY <1>1, <2>2, <2>3, <2>4 DEF SummaryOnce
  <2> QED
    BY <1>2, <2>3, <2>4, <2>5, ReportFrame
<1>6. CASE AnalysisAnswered \/ Downloaded
  <2>1. /\ asked' \subseteq asked /\ ("summary" \in asked' => "summary" \in asked)
        /\ "execution" \in asked' <=> "execution" \in asked
    BY <1>6 DEF AnalysisAnswered, Downloaded
  <2>2. /\ report' \in Reports /\ report'.executiveReport = report.executiveReport
        /\ report'.reportLoading = report.reportLoading
    <3>1. CASE report' = report
      BY <1>1, <3>1
    <3>2. CASE report' = [report EXCEPT !.tradeAnalysis = "available"]
      BY <1>1, <3>2 DEF Reports
    <3>3. CASE report' = [report EXCEPT !.tradeAnalysis = "unavailable",
                                        !.navSections = report.navSections \ {"analysis"}]
      BY <1>1, <3>3 DEF Reports
    <3> QED
      BY <1>6, <3>1, <3>2, <3>3 DEF AnalysisAnswered, Downloaded, Answer
  <2>3. SummaryOnce' /\ asked' \subseteq ReportRequests
    BY <1>1, <2>1, <2>2 DEF SummaryOnce, ReportInv
  <2> QED
    BY <1>2, <2>2, <2>3, ReportFrame
<1> QED
  BY <1>3, <1>4, <1>5, <1>6

\* The timer, and what the user does.
LEMMA ReportMoved ==
  ASSUME ReportInv,
         SummaryTimesOut \/ DownloadReport \/ ScrollToSection \/ OpenFullReport \/ CloseReport
  PROVE  /\ ReportInv'
         /\ report.executiveReport = "full" /\ report'.view = report.view =>
              report'.executiveReport = "full"
<1>1. report \in Reports /\ asked \subseteq ReportRequests
  BY DEF ReportInv, ReportTypeOK
<1>2. UNCHANGED <<recorded, zone>> /\ reportActions' \in 0 .. MaxReportActions
  BY ReportActIs DEF SummaryTimesOut, DownloadReport, ScrollToSection, OpenFullReport, CloseReport,
     ReportInv, ReportTypeOK
<1>3. CASE OpenFullReport
  <2>1. /\ report.view = "modal" /\ report' = Opened("page") /\ asked' = AskedAtOnce("page")
    BY <1>3 DEF OpenFullReport
  <2>2. SummaryOnce'
    BY <2>1, OpenedIs DEF SummaryOnce
  <2> QED
    BY <1>2, <2>1, <2>2, OpenedIs, ReportFrame
<1>4. CASE SummaryTimesOut
  <2>1. /\ asked' = asked
        /\ report' = IF report.reportLoading
                     THEN [report EXCEPT !.timer = FALSE, !.executiveReport = "basic",
                                         !.reportLoading = FALSE]
                     ELSE [report EXCEPT !.timer = FALSE]
    BY <1>4 DEF SummaryTimesOut
  <2>2. /\ report' \in Reports
        /\ \/ report'.executiveReport = "basic"
           \/ /\ report'.executiveReport = report.executiveReport
              /\ report'.reportLoading = report.reportLoading
        /\ report.reportLoading \/ report'.executiveReport = report.executiveReport
    BY <1>1, <2>1 DEF Reports
  <2>3. SummaryOnce'
    BY <2>1, <2>2 DEF SummaryOnce, ReportInv
  <2> QED
    BY <1>1, <1>2, <2>1, <2>2, <2>3, ReportFrame DEF SummaryOnce, ReportInv
<1>5. CASE DownloadReport
  <2>1. report' = report /\ asked' = asked \cup {"pdf"}
    BY <1>5 DEF DownloadReport
  <2>2. SummaryOnce' /\ asked' \subseteq ReportRequests
    BY <1>1, <2>1 DEF SummaryOnce, ReportInv, ReportRequests
  <2> QED
    BY <1>1, <1>2, <2>1, <2>2, ReportFrame
<1>6. CASE ScrollToSection \/ CloseReport
  <2>1. /\ report' \in Reports /\ report'.executiveReport = report.executiveReport
        /\ report'.reportLoading = report.reportLoading /\ asked' = asked
    <3>1. CASE ScrollToSection
      <4>1. PICK x \in report.navSections : report' = [report EXCEPT !.activeSection = x]
        BY <3>1 DEF ScrollToSection
      <4>2. x \in SectionIds
        BY <1>1 DEF Reports
      <4> QED
        BY <1>1, <3>1, <4>1, <4>2 DEF Reports, ScrollToSection
    <3>2. CASE CloseReport
      BY <1>1, <3>2 DEF Reports, CloseReport
    <3> QED
      BY <1>6, <3>1, <3>2
  <2>2. SummaryOnce'
    BY <2>1 DEF SummaryOnce, ReportInv
  <2> QED
    BY <1>1, <1>2, <2>1, <2>2, ReportFrame
<1> QED
  BY <1>3, <1>4, <1>5, <1>6

LEMMA ReportStep ==
  ReportInv /\ [ExecutionReportNext]_reportVars =>
    /\ ReportInv'
    /\ report.executiveReport = "full" /\ report'.view = report.view =>
         report'.executiveReport = "full"
<1> SUFFICES ASSUME ReportInv, [ExecutionReportNext]_reportVars
             PROVE  /\ ReportInv'
                    /\ report.executiveReport = "full" /\ report'.view = report.view =>
                         report'.executiveReport = "full"
  OBVIOUS
<1>1. CASE UNCHANGED reportVars
  BY <1>1 DEF reportVars, ReportInv, ReportTypeOK, SummaryOnce
<1> QED
  BY <1>1, ReportAnswered, ReportMoved DEF ExecutionReportNext

\* Five seconds race the summary: a report that was shown in full stays, for any hours, zones
\* and number of clicks.
THEOREM FullReport == ExecutionReportSpec => []ReportTypeOK /\ FullReportStays
<1> DEFINE Stays == report.executiveReport = "full" /\ report'.view = report.view =>
                      report'.executiveReport = "full"
<1>1. ReportInit => ReportInv
  BY ReportInitially DEF ReportInit
<1>2. ReportInv /\ [ExecutionReportNext]_reportVars => ReportInv' /\ [Stays]_reportVars
  BY ReportStep
<1>3. ReportInv => ReportTypeOK
  BY DEF ReportInv
<1>4. FullReportStays <=> [][Stays]_reportVars
  BY DEF FullReportStays
<1> HIDE DEF Stays
<1> QED
  BY <1>1, <1>2, <1>3, <1>4, PTL DEF ExecutionReportSpec

-------------------------------------------------------------------------------
(* The timeline of a report                                                *)

\* What the pages make of a date that they append a Z to: its instant, wherever they are.
LEMMA ParseIs ==
  ASSUME NEW d \in Dates
  PROVE  ParseTimestamp(d) = d.at /\ d.at \in Int
<1>1. CASE d = NoDate
  BY <1>1 DEF ParseTimestamp, NoDate
<1>2. CASE d \in [at : Hours, zoned : BOOLEAN, null : {FALSE}]
  <2>1. d.null \in {FALSE}
    BY <1>2, Zenon
  <2>2. d.at \in Int
    <3>1. d.at \in Hours
      BY <1>2, Zenon
    <3>2. \A h \in Hours : h \in Int
      BY ReportAssumption
    <3> QED
      BY <3>1, <3>2, Zenon
  <2>3. Normalised(d).zoned = TRUE /\ Normalised(d).at = d.at
    BY <1>2 DEF Normalised
  <2> QED
    BY <2>1, <2>2, <2>3 DEF ParseTimestamp, BrowserDate
<1> QED
  BY <1>1, <1>2 DEF Dates

EventKinds == {"started", "agent", "filled", "monitoring", "closed", "completed"}
Events == [kind : EventKinds, at : Dates, until : Dates]

LEMMA PushedAre == ASSUME recorded \in Recorded PROVE PushedEvents \in Seq(Events)
<1>1. \A kind \in EventKinds, at, until \in Dates : Event(kind, at, until) \in Events
  BY DEF Event, Events
<1>2. NoDate \in Dates
  BY DEF Dates
<1>3. /\ recorded.started_at \in Dates /\ recorded.completed_at \in Dates
      /\ recorded.agentStarted \in Dates /\ recorded.agentCompleted \in Dates
      /\ recorded.filled \in Dates /\ recorded.closed \in Dates
  BY DEF Recorded
<1>4. \A condition \in BOOLEAN, e \in Events : If(condition, e) \in Seq(Events)
  BY DEF If
<1> DEFINE first == Event("started", recorded.started_at, NoDate)
           second == Event("agent", recorded.agentStarted, recorded.agentCompleted)
           third == If(~recorded.filled.null, Event("filled", recorded.filled, NoDate))
           fourth == If(~recorded.closed.null,
                        Event("monitoring", recorded.filled, recorded.closed))
           fifth == If(~recorded.closed.null, Event("closed", recorded.closed, NoDate))
           sixth == If(~recorded.completed_at.null,
                       Event("completed", recorded.completed_at, NoDate))
<1>5. first \in Events /\ second \in Events
  BY <1>1, <1>2, <1>3 DEF EventKinds
<1>6. /\ third \in Seq(Events) /\ fourth \in Seq(Events) /\ fifth \in Seq(Events)
      /\ sixth \in Seq(Events)
  BY <1>1, <1>2, <1>3, <1>4 DEF EventKinds
<1>7. PushedEvents = <<first, second>> \o third \o fourth \o fifth \o sixth
  BY DEF PushedEvents
<1> HIDE DEF first, second, third, fourth, fifth, sixth
<1>8. <<first, second>> \in Seq(Events)
  BY <1>5
<1>9. <<first, second>> \o third \in Seq(Events)
  BY <1>6, <1>8, ConcatProperties
<1>10. <<first, second>> \o third \o fourth \in Seq(Events)
  BY <1>6, <1>9, ConcatProperties
<1>11. <<first, second>> \o third \o fourth \o fifth \in Seq(Events)
  BY <1>6, <1>10, ConcatProperties
<1>12. <<first, second>> \o third \o fourth \o fifth \o sixth \in Seq(Events)
  BY <1>6, <1>11, ConcatProperties
<1> QED
  BY <1>7, <1>12

LEMMA EventsAre ==
  ASSUME recorded \in Recorded
  PROVE  /\ \A i \in DOMAIN BuildTimelineEvents : BuildTimelineEvents[i] \in Events
         /\ \A i, j \in DOMAIN BuildTimelineEvents :
              i < j => BuildTimelineEvents[i].at.at <= BuildTimelineEvents[j].at.at
<1> DEFINE pushed == PushedEvents
           times == [i \in DOMAIN pushed |-> ParseTimestamp(pushed[i].at)]
           n == Cardinality(DOMAIN pushed)
           order == ByTime(DOMAIN pushed, times)
<1>1. BuildTimelineEvents = [k \in DOMAIN order |-> pushed[order[k]]]
  BY DEF BuildTimelineEvents
<1>2. pushed \in Seq(Events)
  BY PushedAre
<1>3. DOMAIN pushed = 1 .. Len(pushed) /\ Len(pushed) \in Nat
  BY <1>2
<1> HIDE DEF pushed
<1>4. \A i \in DOMAIN pushed : pushed[i] \in Events /\ pushed[i].at \in Dates
  <2>1. \A i \in DOMAIN pushed : pushed[i] \in Events
    BY <1>2, <1>3
  <2> QED
    BY <2>1 DEF Events
<1>5. \A i \in DOMAIN pushed : times[i] = pushed[i].at.at /\ times[i] \in Int
  BY <1>4, ParseIs
<1>6. DOMAIN pushed \in SUBSET Nat /\ IsFiniteSet(DOMAIN pushed)
  BY <1>3, FS_Interval
<1> HIDE DEF times, order
<1>7. /\ n \in Nat /\ order \in [1 .. n -> DOMAIN pushed]
      /\ \A k, l \in 1 .. n : k < l => NotAfter(times, order[k], order[l])
  BY <1>5, <1>6, ByTimeIs DEF order
<1> HIDE DEF n
<1>8. \A k \in 1 .. n : order[k] \in DOMAIN pushed /\ BuildTimelineEvents[k] = pushed[order[k]]
  BY <1>1, <1>7
<1>9. \A k, l \in 1 .. n : k < l => times[order[k]] <= times[order[l]]
  BY <1>5, <1>7, <1>8 DEF NotAfter
<1>10. DOMAIN BuildTimelineEvents = 1 .. n
  BY <1>1, <1>7
<1> QED
  BY <1>4, <1>5, <1>8, <1>9, <1>10

LEMMA TimelineTrue == ASSUME recorded \in Recorded, zone \in Zones PROVE TimelineIsTrue
<1> DEFINE events == BuildTimelineEvents
<1>1. \A i \in DOMAIN events : events[i].at \in Dates /\ events[i].until \in Dates
  BY EventsAre DEF Events
<1>2. \A i \in DOMAIN events :
        ComputeDuration(events[i].at, events[i].until) = events[i].until.at - events[i].at.at
  BY <1>1, ParseIs DEF ComputeDuration
<1>3. ~recorded.completed_at.null =>
        GetDurationSeconds = recorded.completed_at.at - recorded.started_at.at
  <2>1. /\ recorded.started_at \in Dates /\ recorded.completed_at \in Dates
        /\ ~recorded.completed_at.null =>
             recorded.completed_at.zoned = recorded.started_at.zoned
    BY DEF Recorded
  <2>2. /\ recorded.started_at.at \in Int /\ recorded.completed_at.at \in Int /\ zone \in Int
    BY <2>1, ParseIs, ReportAssumption
  <2> QED
    BY <2>1, <2>2 DEF GetDurationSeconds, BrowserDate
<1> QED
  BY <1>2, <1>3, EventsAre DEF TimelineIsTrue

-------------------------------------------------------------------------------
(* The candles of a chart                                                  *)

Candles == {Candle(h, form) : h \in CandleHours, form \in Forms}
TimeOf(c) == BrowserDate(c, zone)

LEMMA CandleOf ==
  ASSUME NEW h \in CandleHours, NEW form \in Forms
  PROVE  /\ Candle(h, form) \in Candles
         /\ Candle(h, form).at = h /\ Candle(h, form).form = form
<1>1. Candle(h, form) \in Candles
  BY DEF Candles
<1> QED
  BY <1>1, Zenon DEF Candle

\* A candle is its hour and the form it is written in.
LEMMA CandleIs ==
  ASSUME zone \in Zones, NEW c \in Candles
  PROVE  /\ c.at \in CandleHours /\ c.form \in Forms /\ c = Candle(c.at, c.form)
         /\ c.at \in Int /\ TimeOf(c) \in Int
         /\ TimeOf(c) = IF c.form = "naive" THEN c.at - zone ELSE c.at
         /\ c.zoned => TimeOf(c) = c.at
<1>1. PICK h \in CandleHours, form \in Forms : c = Candle(h, form)
  BY DEF Candles
<1>2. c.at = h /\ c.form = form
  BY <1>1 DEF Candle
<1>3. c.zoned <=> form # "naive"
  BY <1>1, Zenon DEF Candle
<1>4. h \in Int /\ zone \in Int
  BY ChartAssumption, ReportAssumption
<1>5. TimeOf(c) = IF form = "naive" THEN h - zone ELSE h
  BY <1>2, <1>3 DEF TimeOf, BrowserDate
<1> QED
  BY <1>1, <1>2, <1>3, <1>4, <1>5

\* The hours between two: a finite set.
LEMMA StretchIs ==
  ASSUME NEW hours \in Stretches
  PROVE  IsFiniteSet(hours) /\ hours \subseteq CandleHours /\ hours \in SUBSET Nat
<1>1. CASE hours = {}
  BY <1>1, FS_EmptySet
<1>2. CASE hours # {}
  <2>1. PICK a, b \in CandleHours : hours = {h \in CandleHours : a <= h /\ h <= b}
    BY <1>2 DEF Stretches
  <2>2. CandleHours \subseteq Nat
    BY ChartAssumption
  <2>3. IsFiniteSet(a .. b)
    BY <2>2, FS_Interval
  <2>4. ASSUME NEW h \in hours PROVE h \in a .. b
    <3>1. h \in Nat /\ a \in Nat /\ b \in Nat /\ a <= h /\ h <= b
      BY <2>1, <2>2
    <3> QED
      BY <3>1
  <2> QED
    BY <2>1, <2>2, <2>3, <2>4, FS_Subset
<1> QED
  BY <1>1, <1>2

\* A run of candles: one for each hour, in the order of the hours, and all in one form.
LEMMA RunIs ==
  ASSUME NEW hours \in Stretches, NEW form \in Forms
  PROVE  /\ CandleRun(hours, form) \in Seq(Candles)
         /\ Len(CandleRun(hours, form)) = Cardinality(hours)
         /\ \A i \in DOMAIN CandleRun(hours, form) : CandleRun(hours, form)[i].form = form
         /\ \A i, j \in DOMAIN CandleRun(hours, form) :
              i < j => CandleRun(hours, form)[i].at < CandleRun(hours, form)[j].at
<1> DEFINE n == Cardinality(hours)
           times == [h \in hours |-> h]
           o == ByTime(hours, times)
           r == CandleRun(hours, form)
<1>1. IsFiniteSet(hours) /\ hours \subseteq CandleHours /\ hours \in SUBSET Nat
  BY StretchIs
<1>2. \A h \in hours : times[h] = h /\ times[h] \in Int
  BY <1>1
<1>3. r = [i \in DOMAIN o |-> Candle(o[i], form)]
  BY DEF CandleRun
<1> HIDE DEF times, r
<1>4. /\ n \in Nat /\ o \in [1 .. n -> hours]
      /\ \A k, l \in 1 .. n : k < l => NotAfter(times, o[k], o[l]) /\ o[k] # o[l]
  BY <1>1, <1>2, ByTimeIs
<1> HIDE DEF n, o
<1>5. DOMAIN r = 1 .. n /\ \A i \in 1 .. n : r[i] = Candle(o[i], form) /\ o[i] \in hours
  BY <1>3, <1>4
<1>6. \A i \in 1 .. n : r[i] \in Candles /\ r[i].at = o[i] /\ r[i].form = form
  <2> TAKE i \in 1 .. n
  <2>1. o[i] \in CandleHours /\ r[i] = Candle(o[i], form)
    BY <1>1, <1>5
  <2> QED
    BY <2>1, CandleOf
<1>7. r \in Seq(Candles) /\ Len(r) = n
  BY <1>3, <1>4, <1>5, <1>6
<1>8. \A i, j \in 1 .. n : i < j => o[i] < o[j]
  <2> SUFFICES ASSUME NEW i \in 1 .. n, NEW j \in 1 .. n, i < j PROVE o[i] < o[j]
    OBVIOUS
  <2>1. o[i] \in hours /\ o[j] \in hours /\ o[i] # o[j] /\ NotAfter(times, o[i], o[j])
    BY <1>4, <1>5
  <2>2. o[i] \in Nat /\ o[j] \in Nat /\ times[o[i]] = o[i] /\ times[o[j]] = o[j]
    BY <1>1, <1>2, <2>1
  <2> QED
    BY <2>1, <2>2 DEF NotAfter
<1> QED
  BY <1>5, <1>6, <1>7, <1>8 DEF r, n

\* What a chart is given.
LEMMA DataIs ==
  ASSUME chartData \in ChartDatas
  PROVE  /\ chartData.candles \in Seq(Candles) /\ chartData.fresh \in Seq(Candles)
         /\ chartData.decided \in Candles /\ chartData.decided \in ToSet(chartData.candles)
         /\ chartData.decision \in ChartDecisions
         /\ \A i \in DOMAIN chartData.candles :
              chartData.candles[i].form = chartData.decided.form
         /\ \A i, j \in DOMAIN chartData.candles :
              i < j => chartData.candles[i].at < chartData.candles[j].at
<1>1. PICK hours \in Stretches \ {{}}, form \in {"offset", "naive"}, h \in CandleHours,
           symbol \in BOOLEAN, decision \in ChartDecisions, now \in Stretches,
           written \in Forms :
        chartData = [candles |-> CandleRun(hours, form), decided |-> Candle(h, form),
                     symbol |-> symbol, decision |-> decision, fresh |-> CandleRun(now, written)]
  BY DEF ChartDatas
<1>2. /\ chartData.candles = CandleRun(hours, form) /\ chartData.decided = Candle(h, form)
      /\ chartData.fresh = CandleRun(now, written) /\ chartData.decision = decision
  BY <1>1
<1>3. form \in Forms /\ hours \in Stretches
  BY DEF Forms
<1>4. chartData.decided \in Candles /\ chartData.decided.form = form
  BY <1>2, <1>3, CandleOf
<1>5. chartData.decided \in ToSet(chartData.candles)
  BY DEF ChartDatas
<1> QED
  BY <1>2, <1>3, <1>4, <1>5, RunIs

\* The candles in order: each of them, those written alike once, by their times.
LEMMA InOrderIs ==
  ASSUME zone \in Zones, NEW all \in Seq(Candles)
  PROVE  /\ InOrder(all) \in Seq(Candles) /\ ToSet(all) \subseteq ToSet(InOrder(all))
         /\ ToSet(InOrder(all)) \subseteq ToSet(all)
         /\ \A i, j \in DOMAIN InOrder(all) :
              i < j => /\ TimeOf(InOrder(all)[i]) <= TimeOf(InOrder(all)[j])
                       /\ InOrder(all)[i] # InOrder(all)[j]
<1> DEFINE firsts == {i \in DOMAIN all : \A j \in 1 .. i - 1 : all[j] # all[i]}
           times == [i \in firsts |-> BrowserDate(all[i], zone)]
           n == Cardinality(firsts)
           o == ByTime(firsts, times)
           r == InOrder(all)
<1>1. DOMAIN all = 1 .. Len(all) /\ Len(all) \in Nat /\ \A i \in DOMAIN all : all[i] \in Candles
  OBVIOUS
<1>2. /\ firsts \subseteq DOMAIN all /\ firsts \in SUBSET Nat
      /\ \A i \in firsts : \A j \in 1 .. i - 1 : all[j] # all[i]
  BY <1>1
<1>3. ASSUME NEW i \in DOMAIN all PROVE \E f \in firsts : all[f] = all[i]
  <2> DEFINE S == {j \in DOMAIN all : all[j] = all[i]}
  <2>1. S \in SUBSET Nat /\ S # {}
    BY <1>1
  <2>2. PICK m \in S : \A k \in S : m <= k
    BY <2>1, SomeLeast
  <2>3. m \in DOMAIN all /\ all[m] = all[i]
    OBVIOUS
  <2>4. ASSUME NEW j \in 1 .. m - 1 PROVE all[j] # all[m]
    <3>1. j \in DOMAIN all /\ ~(m <= j)
      BY <1>1, <2>3
    <3> QED
      BY <2>2, <2>3, <3>1
  <2>5. m \in firsts
    BY <2>3, <2>4
  <2> QED
    BY <2>3, <2>5
<1>4. r = [k \in DOMAIN o |-> all[o[k]]]
  BY DEF InOrder
<1>5. \A i \in firsts : times[i] = TimeOf(all[i]) /\ times[i] \in Int
  BY <1>1, <1>2, CandleIs DEF TimeOf
<1> HIDE DEF firsts, times, r
<1>6. IsFiniteSet(firsts)
  <2>1. IsFiniteSet(DOMAIN all)
    BY <1>1, FS_Interval
  <2> QED
    BY <1>2, <2>1, FS_Subset
<1>7. /\ n \in Nat /\ o \in [1 .. n -> firsts]
      /\ \A i \in firsts : \E k \in 1 .. n : o[k] = i
      /\ \A k, l \in 1 .. n : k < l => NotAfter(times, o[k], o[l]) /\ o[k] # o[l]
  BY <1>2, <1>5, <1>6, ByTimeIs
<1> HIDE DEF n, o
<1>8. /\ DOMAIN r = 1 .. n
      /\ \A k \in 1 .. n : r[k] = all[o[k]] /\ o[k] \in firsts /\ o[k] \in DOMAIN all
  BY <1>2, <1>4, <1>7
<1>9. r \in Seq(Candles)
  BY <1>1, <1>4, <1>7, <1>8
<1>10. ToSet(all) \subseteq ToSet(r) /\ ToSet(r) \subseteq ToSet(all)
  <2>1. ASSUME NEW i \in DOMAIN all PROVE \E k \in DOMAIN r : r[k] = all[i]
    <3>1. PICK f \in firsts : all[f] = all[i]
      BY <1>3
    <3>2. PICK k \in 1 .. n : o[k] = f
      BY <1>7
    <3> QED
      BY <1>8, <3>1, <3>2
  <2>2. \A k \in DOMAIN r : \E i \in DOMAIN all : r[k] = all[i]
    BY <1>8
  <2> QED
    BY <2>1, <2>2 DEF ToSet
<1>11. ASSUME NEW k \in 1 .. n, NEW l \in 1 .. n, k < l
       PROVE  TimeOf(r[k]) <= TimeOf(r[l]) /\ r[k] # r[l]
  <2>1. NotAfter(times, o[k], o[l]) /\ o[k] # o[l]
    BY <1>7, <1>11
  <2>2. times[o[k]] <= times[o[l]]
    BY <1>5, <1>8, <2>1 DEF NotAfter
  <2>3. all[o[k]] # all[o[l]]
    <3>1. o[k] \in Nat /\ o[l] \in Nat /\ o[k] >= 1 /\ o[l] >= 1
      BY <1>1, <1>8
    <3>2. o[k] \in 1 .. o[l] - 1 \/ o[l] \in 1 .. o[k] - 1
      BY <2>1, <3>1
    <3> QED
      BY <1>2, <1>8, <3>2
  <2> QED
    BY <1>5, <1>8, <2>2, <2>3
<1> QED
  BY <1>8, <1>9, <1>10, <1>11 DEF r

-------------------------------------------------------------------------------
(* The drawing                                                             *)

\* Candles a chart may have: some, in the order of their times, with all of the row's among
\* them, and none twice where the server writes as the row does.
Alike == \A i \in DOMAIN chartData.fresh : chartData.fresh[i].form = chartData.decided.form

Fitting(candles) ==
  /\ candles \in Seq(Candles) /\ ToSet(chartData.candles) \subseteq ToSet(candles)
  /\ \A i, j \in DOMAIN candles :
       i < j => /\ TimeOf(candles[i]) <= TimeOf(candles[j])
                /\ Alike => TimeOf(candles[i]) # TimeOf(candles[j])

LEMMA GivenFits ==
  ASSUME zone \in Zones, chartData \in ChartDatas PROVE Fitting(chartData.candles)
<1> DEFINE c == chartData.candles
<1>1. /\ c \in Seq(Candles) /\ \A i \in DOMAIN c : c[i].form = chartData.decided.form
      /\ \A i, j \in DOMAIN c : i < j => c[i].at < c[j].at
  BY DataIs
<1> HIDE DEF c
<1>2. zone \in Int
  BY ReportAssumption
<1>3. ASSUME NEW i \in DOMAIN c, NEW j \in DOMAIN c, i < j
      PROVE  TimeOf(c[i]) <= TimeOf(c[j]) /\ TimeOf(c[i]) # TimeOf(c[j])
  <2>1. c[i] \in Candles /\ c[j] \in Candles /\ c[i].form = c[j].form /\ c[i].at < c[j].at
    BY <1>1, <1>3
  <2>2. /\ c[i].at \in Int /\ c[j].at \in Int
        /\ TimeOf(c[i]) = IF c[i].form = "naive" THEN c[i].at - zone ELSE c[i].at
        /\ TimeOf(c[j]) = IF c[j].form = "naive" THEN c[j].at - zone ELSE c[j].at
    BY <2>1, CandleIs
  <2> QED
    BY <1>2, <2>1, <2>2
<1> QED
  BY <1>1, <1>3 DEF Fitting, c

LEMMA MergedFits ==
  ASSUME zone \in Zones, chartData \in ChartDatas PROVE Fitting(Merged(chartData))
<1> DEFINE c == chartData.candles
           f == chartData.fresh
           all == c \o f
           m == InOrder(all)
<1>1. c \in Seq(Candles) /\ f \in Seq(Candles)
  BY DataIs
<1>2. \A i \in DOMAIN c : c[i].form = chartData.decided.form
  BY DataIs
<1>3. Merged(chartData) = m
  BY DEF Merged
<1>4. Alike <=> \A i \in DOMAIN f : f[i].form = chartData.decided.form
  BY DEF Alike
<1> HIDE DEF c, f
<1>5. /\ all \in Seq(Candles) /\ Len(all) = Len(c) + Len(f)
      /\ Len(c) \in Nat /\ Len(f) \in Nat
      /\ \A i \in 1 .. Len(c) : all[i] = c[i]
      /\ \A i \in 1 .. Len(all) : i > Len(c) => all[i] = f[i - Len(c)]
  BY <1>1
<1> HIDE DEF all
<1>6. /\ m \in Seq(Candles) /\ ToSet(all) \subseteq ToSet(m) /\ ToSet(m) \subseteq ToSet(all)
      /\ \A i, j \in DOMAIN m : i < j => TimeOf(m[i]) <= TimeOf(m[j]) /\ m[i] # m[j]
  BY <1>5, InOrderIs
<1> HIDE DEF m
<1>7. ToSet(c) \subseteq ToSet(m)
  <2>1. \A i \in DOMAIN c : i \in DOMAIN all /\ all[i] = c[i]
    <3>1. DOMAIN c = 1 .. Len(c)
      BY <1>1
    <3>2. DOMAIN all = 1 .. Len(all)
      BY <1>5
    <3>3. \A i \in 1 .. Len(c) : i \in 1 .. Len(all)
      BY <1>5
    <3> QED
      BY <1>5, <3>1, <3>2, <3>3
  <2>2. ToSet(c) \subseteq ToSet(all)
    BY <2>1 DEF ToSet
  <2> QED
    BY <1>6, <2>2
<1>8. ASSUME Alike, NEW x \in ToSet(all) PROVE x.form = chartData.decided.form
  <2>1. PICK i \in DOMAIN all : x = all[i]
    BY DEF ToSet
  <2>2. i \in 1 .. Len(all)
    BY <1>5
  <2>3. CASE i <= Len(c)
    <3>1. i \in DOMAIN c /\ x = c[i]
      BY <1>1, <1>5, <2>1, <2>2, <2>3
    <3> QED
      BY <1>2, <3>1
  <2>4. CASE ~(i <= Len(c))
    <3>1. i - Len(c) \in DOMAIN f /\ x = f[i - Len(c)]
      BY <1>1, <1>5, <2>1, <2>2, <2>4
    <3> QED
      BY <1>4, <1>8, <3>1
  <2> QED
    BY <2>3, <2>4
<1>9. ASSUME Alike, NEW i \in DOMAIN m, NEW j \in DOMAIN m, i < j
      PROVE  TimeOf(m[i]) # TimeOf(m[j])
  <2>1. m[i] \in ToSet(all) /\ m[j] \in ToSet(all)
    BY <1>6 DEF ToSet
  <2>2. m[i].form = m[j].form
    BY <1>8, <1>9, <2>1
  <2>3. m[i] \in Candles /\ m[j] \in Candles /\ m[i] # m[j]
    BY <1>6, <1>9
  <2>4. /\ m[i] = Candle(m[i].at, m[i].form) /\ m[j] = Candle(m[j].at, m[j].form)
        /\ m[i].at \in Int /\ m[j].at \in Int /\ zone \in Int
        /\ TimeOf(m[i]) = IF m[i].form = "naive" THEN m[i].at - zone ELSE m[i].at
        /\ TimeOf(m[j]) = IF m[j].form = "naive" THEN m[j].at - zone ELSE m[j].at
    BY <2>3, CandleIs, ReportAssumption
  <2>5. m[i].at # m[j].at
    BY <2>2, <2>3, <2>4
  <2> QED
    BY <2>2, <2>4, <2>5
<1>10. \A i, j \in DOMAIN m :
         i < j => /\ TimeOf(m[i]) <= TimeOf(m[j])
                  /\ Alike => TimeOf(m[i]) # TimeOf(m[j])
  BY <1>6, <1>9
<1>11. Fitting(m)
  BY <1>6, <1>7, <1>10 DEF Fitting, c
<1> QED
  BY <1>3, <1>11

\* "Merge stored + fresh candles, deduplicate by timestamp".
LEMMA MergedTrue ==
  ASSUME NEW candles, Fitting(candles), chartData \in ChartDatas PROVE CandlesAreMerged(candles)
<1> DEFINE bars == Bars(candles)
<1>1. bars = [i \in DOMAIN candles |-> TimeOf(candles[i])]
  BY DEF Bars, TimeOf
<1>2. DOMAIN bars = DOMAIN candles /\ \A i \in DOMAIN bars : bars[i] = TimeOf(candles[i])
  BY <1>1
<1>3. \A i, j \in DOMAIN bars : i < j => bars[i] <= bars[j] /\ (Alike => bars[i] # bars[j])
  BY <1>2 DEF Fitting
<1>4. ToSet(Bars(chartData.candles)) \subseteq ToSet(bars)
  <2> SUFFICES ASSUME NEW i \in DOMAIN chartData.candles
               PROVE  \E j \in DOMAIN bars : bars[j] = TimeOf(chartData.candles[i])
    BY DEF Bars, ToSet, TimeOf
  <2>1. chartData.candles[i] \in ToSet(candles)
    BY DEF ToSet, Fitting
  <2>2. PICK j \in DOMAIN candles : candles[j] = chartData.candles[i]
    BY <2>1 DEF ToSet
  <2> QED
    BY <1>2, <2>2
<1> HIDE DEF bars
<1> QED
  BY <1>3, <1>4 DEF CandlesAreMerged, Alike, bars

\* What the chart makes of a date: its instant.
LEMMA ParseUtcIs ==
  /\ \A d \in Dates : ParseUtcTime(d) = d.at /\ d.at \in Int
  /\ zone \in Zones => \A c \in Candles : ParseUtcTime(c) = c.at /\ c.at \in Int
<1>1. ASSUME NEW d, d \in Dates \/ d \in Candles PROVE ParseUtcTime(d) = d.at
  <2>1. Normalised(d).zoned = TRUE /\ Normalised(d).at = d.at
    <3>1. CASE d = NoDate
      BY <3>1 DEF NoDate, Normalised
    <3>2. CASE d \in [at : Hours, zoned : BOOLEAN, null : {FALSE}]
      BY <3>2 DEF Normalised
    <3>3. CASE d \in Candles
      <4>1. PICK h \in CandleHours, form \in Forms : d = Candle(h, form)
        BY <3>3 DEF Candles
      <4> QED
        BY <4>1 DEF Candle, Normalised
    <3> QED
      BY <1>1, <3>1, <3>2, <3>3 DEF Dates
  <2> QED
    BY <2>1 DEF ParseUtcTime, BrowserDate
<1>2. \A d \in Dates : d.at \in Int
  BY ParseIs
<1>3. zone \in Zones => \A c \in Candles : c.at \in Int
  BY CandleIs
<1> QED
  BY <1>1, <1>2, <1>3

\* The boxes of the trade, the line of its exit and the gap.
LEMMA TradePlaced ==
  ASSUME NEW candles, Fitting(candles), chartData \in ChartDatas, recorded \in Recorded,
         zone \in Zones
  PROVE  TradeIsPlaced(candles)
<1> DEFINE last == LastTime(candles)
           n == Len(candles)
           entry == FindEntryTime(last)
           exit == FindExitTime(last)
           start == Min({entry, last})
           end == IF exit > start THEN exit ELSE last
           interval == IF n > 1 THEN (last - FirstTime(candles)) \div (n - 1) ELSE 1
           box == TradeBox(candles)
           gap == TimeOf(chartData.decided)
<1>1. /\ candles \in Seq(Candles) /\ n \in Nat /\ DOMAIN candles = 1 .. n
      /\ \A i \in DOMAIN candles : candles[i] \in Candles /\ TimeOf(candles[i]) \in Int
  BY CandleIs DEF Fitting
<1>2. PICK k \in DOMAIN candles : candles[k] = chartData.decided
  BY DataIs DEF Fitting, ToSet
<1>3. 1 \in DOMAIN candles /\ n \in DOMAIN candles /\ k <= n
  BY <1>1, <1>2
<1>4. last = TimeOf(candles[n]) /\ FirstTime(candles) = TimeOf(candles[1])
  BY DEF LastTime, FirstTime, TimeOf
<1>5. last \in Int /\ FirstTime(candles) \in Int
  BY <1>1, <1>3, <1>4
<1>6. recorded.filled \in Dates /\ recorded.closed \in Dates /\ chartData.decided \in Candles
  BY DataIs DEF Recorded
<1>7. /\ entry \in Int /\ exit \in Int
      /\ ~recorded.filled.null => entry = recorded.filled.at
      /\ ~recorded.closed.null => exit = recorded.closed.at
  BY <1>5, <1>6, ParseUtcIs DEF FindEntryTime, FindExitTime
<1>8. box = [from |-> start, to |-> IF end > start THEN end ELSE start + Max({8 * interval, 1})]
  BY DEF TradeBox
<1>9. interval \in Int
  BY <1>1, <1>5
<1>10. ExitLines(candles) = {t \in {exit} : HasPosition /\ t > box.from}
  BY DEF ExitLines
<1> HIDE DEF entry, exit, interval, n
<1>11. Max({8 * interval, 1}) \in Int /\ Max({8 * interval, 1}) >= 1
  <2> DEFINE width == 8 * interval
  <2>1. width \in Int /\ 1 \in Int
    BY <1>9
  <2> HIDE DEF width
  <2>2. Max({width, 1}) \in Int /\ Max({width, 1}) >= 1
    BY <2>1, MaxOfTwo
  <2> QED
    BY <2>2 DEF width
<1>12. start \in Int /\ start = IF entry <= last THEN entry ELSE last
  BY <1>5, <1>7, MinOfTwo
<1> HIDE DEF start, last
<1>13. end \in Int
  BY <1>5, <1>7
<1> HIDE DEF end
<1>14. /\ box.from = start
       /\ box.to = IF end > start THEN end ELSE start + Max({8 * interval, 1})
  BY <1>8
<1> HIDE DEF box
<1>15. box.from < box.to
  BY <1>11, <1>12, <1>13, <1>14
<1>16. ~recorded.filled.null => box.from = Min({recorded.filled.at, last})
  BY <1>7, <1>14 DEF start
<1>17. HasPosition /\ ~recorded.closed.null /\ recorded.closed.at > box.from =>
         box.to = recorded.closed.at /\ ExitLines(candles) = {recorded.closed.at}
  <2> SUFFICES ASSUME HasPosition, ~recorded.closed.null, recorded.closed.at > box.from
               PROVE  box.to = recorded.closed.at /\ ExitLines(candles) = {recorded.closed.at}
    OBVIOUS
  <2>1. exit = recorded.closed.at /\ exit > start /\ exit > box.from
    BY <1>7, <1>14
  <2>2. end = exit
    BY <2>1 DEF end
  <2> QED
    BY <1>10, <1>14, <2>1, <2>2
<1>18. gap \in ToSet(Bars(candles)) /\ gap <= last
  <2>1. gap = TimeOf(candles[k]) /\ Bars(candles) = [i \in DOMAIN candles |-> TimeOf(candles[i])]
    BY <1>2 DEF Bars, TimeOf
  <2>2. gap \in ToSet(Bars(candles))
    BY <2>1 DEF ToSet
  <2>3. \A i, j \in DOMAIN candles : i < j => TimeOf(candles[i]) <= TimeOf(candles[j])
    BY DEF Fitting
  <2>4. TimeOf(candles[k]) <= TimeOf(candles[n])
    BY <1>1, <1>3, <2>3
  <2>5. gap <= last
    BY <1>4, <2>1, <2>4 DEF last
  <2> QED
    BY <2>2, <2>5
<1>19. /\ Drawing(candles).box = box /\ Drawing(candles).exits = ExitLines(candles)
       /\ Drawing(candles).gap.from = gap /\ Drawing(candles).gap.to = last
  BY DEF Drawing, GapBox, TimeOf, box, last
<1> QED
  BY <1>15, <1>16, <1>17, <1>18, <1>19 DEF TradeIsPlaced, last

\* The guides of a trade show its levels: one each, and no other line does.
LEMMA LevelsDrawn ==
  ASSUME NEW candles, chartData \in ChartDatas
  PROVE  LevelsAreDrawnOnce(candles)
<1> DEFINE lines == Drawing(candles).lines
           prices == Drawing(candles).prices
           of(level) == {l \in lines : l.level = level}
           levels == Position.levels
<1> SUFFICES ASSUME Position.action # "HOLD"
             PROVE  /\ \A level \in {"entry", "sl", "tp"} :
                         Cardinality(of(level)) = IF level \in InfoPanel THEN 1 ELSE 0
                    /\ levels \subseteq InfoPanel
                    /\ \A p \in prices :
                         p.bottom < p.top /\ LevelPrice("entry") \in {p.bottom, p.top}
  BY DEF LevelsAreDrawnOnce
<1>1. Position \in ChartDecisions
  BY DataIs DEF Position
<1>2. /\ "entry" \in levels /\ levels \subseteq {"entry", "sl", "tp"}
      /\ Position.action \in {"BUY", "SELL"}
  BY <1>1 DEF ChartDecisions
<1>3. HasPosition
  BY <1>2 DEF HasPosition
<1>4. lines = Guides /\ prices = PriceBoxes
  BY <1>3 DEF Drawing, DrawnLines
<1> HIDE DEF lines, prices
<1>5. \A level \in {"entry", "sl", "tp"} : level \in InfoPanel <=> level \in levels
  <2>1. \A level \in {"entry", "sl", "tp"} : level \notin {"bias", "rr", "fill", "exit"}
    OBVIOUS
  <2> QED
    BY <2>1 DEF InfoPanel
<1>6. ASSUME NEW level \in {"entry", "sl", "tp"}
      PROVE  Cardinality(of(level)) = IF level \in InfoPanel THEN 1 ELSE 0
  <2> DEFINE guide == [level |-> level, by |-> "guide"]
  <2>1. Guides = [level : levels, by : {"guide"}]
    BY DEF Guides
  <2>2. CASE level \in levels
    <3>1. of(level) = {guide}
      BY <1>4, <2>1, <2>2
    <3> QED
      BY <1>5, <2>2, <3>1, FS_Singleton
  <2>3. CASE level \notin levels
    <3>1. of(level) = {}
      BY <1>4, <2>1, <2>3
    <3> QED
      BY <1>5, <2>3, <3>1, FS_EmptySet
  <2> QED
    BY <2>2, <2>3
<1>7. levels \subseteq InfoPanel
  BY DEF InfoPanel
<1>8. ASSUME NEW p \in prices
      PROVE  p.bottom < p.top /\ LevelPrice("entry") \in {p.bottom, p.top}
  <2>1. PICK l \in levels \ {"entry"} :
          p = [level |-> l,
               bottom |-> IF (l = "tp") = (Position.action = "BUY") THEN LevelPrice("entry")
                          ELSE LevelPrice(l),
               top |-> IF (l = "tp") = (Position.action = "BUY") THEN LevelPrice(l)
                       ELSE LevelPrice("entry")]
    BY <1>4 DEF PriceBoxes
  <2>2. LevelPrice("entry") = 2
    BY DEF LevelPrice
  <2>3. /\ LevelPrice("tp") = IF Position.action = "BUY" THEN 3 ELSE 1
        /\ LevelPrice("sl") = IF Position.action = "BUY" THEN 1 ELSE 3
    BY DEF LevelPrice
  <2>4. l = "tp" \/ l = "sl"
    BY <1>2
  <2>5. CASE (l = "tp") = (Position.action = "BUY")
    <3>1. p.bottom = 2 /\ p.top = LevelPrice(l)
      BY <2>1, <2>2, <2>5
    <3>2. LevelPrice(l) = 3
      BY <2>3, <2>4, <2>5
    <3> QED
      BY <2>2, <3>1, <3>2
  <2>6. CASE ~((l = "tp") = (Position.action = "BUY"))
    <3>1. p.bottom = LevelPrice(l) /\ p.top = 2
      BY <2>1, <2>2, <2>6
    <3>2. LevelPrice(l) = 1
      BY <2>3, <2>4, <2>6
    <3> QED
      BY <2>2, <3>1, <3>2
  <2> QED
    BY <2>5, <2>6
<1> QED
  BY <1>6, <1>7, <1>8

\* What a chart draws, with the server's candles or without them.
LEMMA DrawingTrue ==
  ASSUME chartData \in ChartDatas, recorded \in Recorded, zone \in Zones PROVE DrawingIsTrue
<1>1. Fitting(chartData.candles) /\ Fitting(Merged(chartData))
  BY GivenFits, MergedFits
<1> QED
  BY <1>1, MergedTrue, TradePlaced, LevelsDrawn DEF DrawingIsTrue

-------------------------------------------------------------------------------
(* The chart                                                               *)

\* One that is shown and loads waits for something.
SomethingComes(c) == c.mounted /\ c.loading => c.step # "nothing" /\ ~c.error

\* The components, whatever their candles are.
ChartsWith(S) ==
  [step : ChartSteps, mounted : BOOLEAN, loading : BOOLEAN, error : BOOLEAN, widget : BOOLEAN,
   candles : S, drawn : BOOLEAN,
   panel : SUBSET {"bias", "entry", "sl", "tp", "rr", "fill", "exit"}]

ChartInv ==
  /\ recorded \in Recorded /\ zone \in Zones /\ chartData \in ChartDatas
  /\ library \in BOOLEAN /\ chart \in Charts /\ SomethingComes(chart)

\* What happens to a component leaves it one.
LEMMA ChartEdits ==
  ASSUME NEW S, NEW c \in ChartsWith(S)
  PROVE  /\ [c EXCEPT !.error = TRUE, !.loading = FALSE, !.step = "nothing"] \in ChartsWith(S)
         /\ [c EXCEPT !.widget = TRUE, !.step = "bars"] \in ChartsWith(S)
         /\ [c EXCEPT !.step = "script"] \in ChartsWith(S)
         /\ [c EXCEPT !.step = "ready"] \in ChartsWith(S)
         /\ [c EXCEPT !.mounted = FALSE, !.widget = FALSE, !.drawn = FALSE] \in ChartsWith(S)
         /\ \A candles \in S : [c EXCEPT !.candles = candles] \in ChartsWith(S)
         /\ \A panel \in SUBSET {"bias", "entry", "sl", "tp", "rr", "fill", "exit"} :
              [c EXCEPT !.step = "nothing", !.loading = FALSE, !.drawn = TRUE,
                        !.panel = panel] \in ChartsWith(S)
BY DEF ChartsWith, ChartSteps

LEMMA ChartsAre == Charts = ChartsWith(Seq(Candles))
BY DEF Charts, ChartsWith, Candles

LEMMA FailedIs ==
  ASSUME NEW c \in Charts PROVE Failed(c) \in Charts /\ SomethingComes(Failed(c))
<1>1. Failed(c) \in Charts
  BY ChartEdits, ChartsAre DEF Failed
<1>2. Failed(c).loading = FALSE
  BY DEF Charts, Failed
<1> QED
  BY <1>1, <1>2 DEF SomethingComes

LEMMA InitializedIs ==
  ASSUME NEW c \in Charts, c.mounted /\ c.loading => ~c.error, NEW x \in Initialized(c)
  PROVE  x \in Charts /\ SomethingComes(x)
<1>1. CASE x = Failed(c)
  BY <1>1, FailedIs
<1>2. CASE x = [c EXCEPT !.widget = TRUE, !.step = "bars"]
  <2>1. x \in Charts
    BY <1>2, ChartEdits, ChartsAre
  <2>2. x.mounted = c.mounted /\ x.loading = c.loading /\ x.error = c.error /\ x.step = "bars"
    BY <1>2 DEF Charts
  <2> QED
    BY <2>1, <2>2 DEF SomethingComes
<1> QED
  BY <1>1, <1>2 DEF Initialized

LEMMA ResolvedAre ==
  ASSUME NEW c \in Charts, c.mounted /\ c.loading => ~c.error, NEW x \in Resolved(c)
  PROVE  x \in Charts /\ SomethingComes(x)
<1>1. CASE library
  BY <1>1, InitializedIs DEF Resolved
<1>2. CASE ~library
  <2>1. x = [c EXCEPT !.step = "script"]
    BY <1>2 DEF Resolved
  <2>2. x \in Charts
    BY <2>1, ChartEdits, ChartsAre
  <2>3. x.mounted = c.mounted /\ x.loading = c.loading /\ x.error = c.error /\ x.step = "script"
    BY <2>1 DEF Charts
  <2> QED
    BY <2>2, <2>3 DEF SomethingComes
<1> QED
  BY <1>1, <1>2

LEMMA CandlesAre ==
  ASSUME zone \in Zones, chartData \in ChartDatas
  PROVE  /\ chartData.candles \in Seq({Candle(h, form) : h \in CandleHours, form \in Forms})
         /\ Merged(chartData) \in Seq({Candle(h, form) : h \in CandleHours, form \in Forms})
BY DataIs, MergedFits DEF Fitting, Candles

LEMMA PanelIs ==
  ASSUME chartData \in ChartDatas
  PROVE  InfoPanel \in SUBSET {"bias", "entry", "sl", "tp", "rr", "fill", "exit"}
<1>1. Position.levels \subseteq {"entry", "sl", "tp"}
  BY DataIs DEF Position, ChartDecisions
<1> QED
  BY <1>1 DEF InfoPanel

LEMMA ChartInitially ==
  ASSUME recorded \in Recorded, zone \in Zones, chartData \in ChartDatas, library \in BOOLEAN,
         ChartOpened
  PROVE  ChartInv
<1>1. FreshChart \in Charts /\ FreshChart.error = FALSE /\ FreshChart.step = "candles"
  BY CandlesAre DEF FreshChart, Charts, ChartSteps
<1>2. SomethingComes(FreshChart)
  BY <1>1 DEF SomethingComes
<1>3. chart \in Charts /\ SomethingComes(chart)
  <2>1. chart = FreshChart \/ chart \in Resolved(FreshChart)
    BY DEF ChartOpened
  <2>2. CASE chart \in Resolved(FreshChart)
    BY <1>1, <2>2, ResolvedAre
  <2> QED
    BY <1>1, <1>2, <2>1, <2>2
<1> QED
  BY <1>3 DEF ChartInv

LEMMA ChartFrame ==
  ChartInv /\ UNCHANGED <<reportVars, chartVars>> => ChartInv'
BY DEF ChartInv, SomethingComes, reportVars, chartVars

LEMMA ChartStep ==
  ChartInv /\ CandleChartNext /\ UNCHANGED <<recorded, zone>> => ChartInv'
<1> SUFFICES ASSUME ChartInv, CandleChartNext, UNCHANGED <<recorded, zone>> PROVE ChartInv'
  OBVIOUS
<1>1. /\ zone \in Zones /\ chartData \in ChartDatas /\ library \in BOOLEAN /\ chart \in Charts
      /\ SomethingComes(chart)
      /\ chart.mounted /\ chart.loading => ~chart.error
  BY DEF ChartInv, SomethingComes
<1>2. chartData' = chartData /\ library' \in BOOLEAN
  BY <1>1 DEF CandleChartNext, CandlesAnswered, ScriptLoaded, ScriptFails, BarsAsked, ChartReady,
              LeaveChart
<1>3. CASE CandlesAnswered
  <2>1. ASSUME chart' \in Resolved(chart) PROVE chart' \in Charts /\ SomethingComes(chart')
    BY <1>1, <2>1, ResolvedAre
  <2>2. ASSUME chart' \in Resolved([chart EXCEPT !.candles = Merged(chartData)])
        PROVE  chart' \in Charts /\ SomethingComes(chart')
    <3> DEFINE c == [chart EXCEPT !.candles = Merged(chartData)]
    <3>1. c \in Charts
      <4>1. Merged(chartData) \in Seq(Candles) /\ chart \in ChartsWith(Seq(Candles))
        BY <1>1, MergedFits, ChartsAre DEF Fitting
      <4>2. c \in ChartsWith(Seq(Candles))
        BY <4>1, ChartEdits
      <4> QED
        BY <4>2, ChartsAre
    <3>2. c.mounted = chart.mounted /\ c.loading = chart.loading /\ c.error = chart.error
      BY <1>1 DEF Charts
    <3>3. chart' \in Resolved(c)
      BY <2>2 DEF c
    <3> HIDE DEF c
    <3> QED
      BY <1>1, <3>1, <3>2, <3>3, ResolvedAre
  <2>3. chart' \in Charts /\ SomethingComes(chart')
    BY <1>3, <2>1, <2>2 DEF CandlesAnswered
  <2> QED
    BY <1>1, <1>2, <2>3 DEF ChartInv, SomethingComes
<1>4. CASE ScriptLoaded
  <2>1. chart' \in Charts /\ SomethingComes(chart')
    BY <1>1, <1>4, InitializedIs DEF ScriptLoaded
  <2> QED
    BY <1>1, <1>2, <2>1 DEF ChartInv, SomethingComes
<1>5. CASE ScriptFails
  <2>1. chart' \in Charts /\ SomethingComes(chart')
    BY <1>1, <1>5, FailedIs DEF ScriptFails
  <2> QED
    BY <1>1, <1>2, <2>1 DEF ChartInv, SomethingComes
<1>6. CASE BarsAsked \/ ChartReady \/ LeaveChart
  <2>1. CASE BarsAsked
    <3>1. chart' \in Charts
      BY <1>1, <2>1, ChartEdits, ChartsAre DEF BarsAsked
    <3>2. /\ chart'.mounted = chart.mounted /\ chart'.loading = chart.loading
          /\ chart'.error = chart.error /\ chart'.step = "ready"
      BY <1>1, <2>1 DEF BarsAsked, Charts
    <3> QED
      BY <1>1, <1>2, <3>1, <3>2 DEF ChartInv, SomethingComes
  <2>2. CASE ChartReady
    <3>1. chart' \in Charts
      BY <1>1, <2>2, PanelIs, ChartEdits, ChartsAre DEF ChartReady
    <3>2. chart'.loading = FALSE
      BY <1>1, <2>2 DEF ChartReady, Charts
    <3> QED
      BY <1>1, <1>2, <3>1, <3>2 DEF ChartInv, SomethingComes
  <2>3. CASE LeaveChart
    <3>1. chart' \in Charts
      BY <1>1, <2>3, ChartEdits, ChartsAre DEF LeaveChart
    <3>2. chart'.mounted = FALSE
      BY <1>1, <2>3 DEF LeaveChart, Charts
    <3> QED
      BY <1>1, <1>2, <3>1, <3>2 DEF ChartInv, SomethingComes
  <2> QED
    BY <1>6, <2>1, <2>2, <2>3
<1> QED
  BY <1>3, <1>4, <1>5, <1>6 DEF CandleChartNext

LEMMA ChartShows == ChartInv => ChartTypeOK /\ ChartIsAwaited /\ DrawingIsTrue
BY DataIs, DrawingTrue DEF ChartInv, ChartTypeOK, ChartIsAwaited, SomethingComes

\* The chart of a report never loads for nothing, and what it draws is true to the candles and to
\* the trade: for any hours, in any zone, whichever candles the server has.
THEOREM ChartTrue == CandleChartSpec => [](ChartTypeOK /\ ChartIsAwaited /\ DrawingIsTrue)
<1>1. ChartInit => ChartInv
  BY ChartInitially DEF ChartInit, ReportInit
<1>2. ChartInv /\ [CandleChartNext /\ UNCHANGED reportVars]_<<reportVars, chartVars>> => ChartInv'
  BY ChartStep, ChartFrame DEF reportVars
<1> QED
  BY <1>1, <1>2, ChartShows, PTL DEF CandleChartSpec

-------------------------------------------------------------------------------
(* The dashboard                                                           *)

LEMMA CallIs ==
  ASSUME NEW kind \in {"load", "auto", "health"}, NEW i \in 1 .. DashboardSlots
  PROVE  DashboardCall(kind, i) \in DashboardCallSet
<1>1. 0 \in 0 .. MaxVersion
  BY DashboardAssumption
<1> QED
  BY <1>1 DEF DashboardCall, DashboardCallSet

LEMMA OpeningIs ==
  ASSUME NEW i \in 1 .. DashboardSlots PROVE Opening(i) \subseteq DashboardCallSet
BY CallIs DEF Opening

LEMMA NoDayIs ==
  /\ NoDay \in [day : 0 .. MaxVersion, version : 0 .. MaxVersion]
  /\ FreshDashboard \in DashboardPages
<1>1. 0 \in 0 .. MaxVersion /\ 0 \in -MaxMonths .. MaxMonths
  BY DashboardAssumption
<1>2. NoDay \in [day : 0 .. MaxVersion, version : 0 .. MaxVersion]
  BY <1>1 DEF NoDay
<1> QED
  BY <1>1, <1>2 DEF FreshDashboard, DashboardPages

LEMMA DashboardInitially == DashboardInit => DashboardTypeOK
<1> SUFFICES ASSUME DashboardInit PROVE DashboardTypeOK
  OBVIOUS
<1>1. 1 \in 1 .. DashboardSlots /\ 1 \in Versions /\ 0 \in 0 .. MaxVersion
  BY DashboardAssumption DEF Versions
<1>2. Opening(1) \subseteq DashboardCallSet
  BY <1>1, OpeningIs
<1>3. 0 \in 0 .. MaxDashboardMoves /\ 0 \in 0 .. MaxDashboardFails
  BY DashboardAssumption
<1> QED
  BY <1>1, <1>2, <1>3, NoDayIs DEF DashboardInit, DashboardTypeOK

\* A page after an edit of one of its fields.
LEMMA PageEdits ==
  ASSUME NEW p \in DashboardPages
  PROVE  /\ [p EXCEPT !.loading = TRUE, !.error = FALSE] \in DashboardPages
         /\ [p EXCEPT !.open = FALSE, !.refreshing = FALSE] \in DashboardPages
         /\ [p EXCEPT !.refreshing = FALSE] \in DashboardPages
         /\ [p EXCEPT !.error = TRUE, !.loading = FALSE] \in DashboardPages
         /\ \A n \in -MaxMonths .. MaxMonths :
              [p EXCEPT !.calendarMonth = n, !.selected = NoDay] \in DashboardPages
         /\ \A v \in 0 .. MaxVersion :
              /\ [p EXCEPT !.data = v] \in DashboardPages
              /\ [p EXCEPT !.data = v, !.loading = FALSE] \in DashboardPages
         /\ \A ok \in BOOLEAN : [p EXCEPT !.healthStatus = ok] \in DashboardPages
         /\ \A x \in [day : 0 .. MaxVersion, version : 0 .. MaxVersion] :
              [p EXCEPT !.selected = x] \in DashboardPages
BY NoDayIs DEF DashboardPages

LEMMA DashboardStep == DashboardTypeOK /\ [DashboardNext]_dashboardVars => DashboardTypeOK'
<1> SUFFICES ASSUME DashboardTypeOK, [DashboardNext]_dashboardVars PROVE DashboardTypeOK'
  OBVIOUS
<1> DEFINE KeptSet == [data : 0 .. MaxVersion, loading : BOOLEAN]
<1>1. /\ today \in 1 .. MaxVersion /\ today \in 0 .. MaxVersion /\ MaxVersion \in Nat
      /\ dashboard \in DashboardPages /\ dashboardKept \in KeptSet
      /\ dashboardCalls \subseteq DashboardCallSet
      /\ dashboardMoves \in 0 .. MaxDashboardMoves /\ dashboardFails \in 0 .. MaxDashboardFails
  BY DashboardAssumption DEF DashboardTypeOK, Versions
<1>2. /\ DashboardMove => dashboardMoves' \in 0 .. MaxDashboardMoves
      /\ [dashboardKept EXCEPT !.loading = TRUE] \in KeptSet
      /\ dashboard.data \in 0 .. MaxVersion
  <2>1. DashboardMove => dashboardMoves' \in 0 .. MaxDashboardMoves
    BY <1>1, DashboardAssumption DEF DashboardMove
  <2> QED
    BY <1>1, <2>1 DEF DashboardPages
<1>3. \A c \in dashboardCalls : c \in DashboardCallSet /\ Kept(c) \in KeptSet
                                /\ c.version \in 0 .. MaxVersion
  <2> TAKE c \in dashboardCalls
  <2>1. c \in DashboardCallSet /\ c.version \in 0 .. MaxVersion
    BY <1>1 DEF DashboardCallSet
  <2>2. Kept(c) \in KeptSet
    BY <1>1, <2>1 DEF Kept
  <2> QED
    BY <2>1, <2>2
<1>4. CASE OpenDashboard \/ RefreshDashboard
  <2>1. PICK i \in FreeSlots(dashboardCalls) : dashboardCalls' = dashboardCalls \cup Opening(i)
    BY <1>4 DEF OpenDashboard, RefreshDashboard
  <2>2. dashboardCalls' \subseteq DashboardCallSet
    BY <1>1, <2>1, OpeningIs DEF FreeSlots
  <2>3. dashboard' \in DashboardPages
    BY <1>1, <1>4, PageEdits, NoDayIs DEF OpenDashboard, RefreshDashboard
  <2>4. /\ dashboardMoves' \in 0 .. MaxDashboardMoves /\ today' = today
        /\ dashboardFails' = dashboardFails /\ dashboardKept' \in KeptSet
    BY <1>2, <1>4 DEF OpenDashboard, RefreshDashboard, DashboardMove
  <2> QED
    BY <1>1, <2>2, <2>3, <2>4 DEF DashboardTypeOK, Versions
<1>5. CASE LeaveDashboard
  <2>1. \A c \in dashboardCalls : [c EXCEPT !.mine = FALSE] \in DashboardCallSet
    BY <1>1 DEF DashboardCallSet
  <2>2. dashboardCalls' \subseteq DashboardCallSet
    BY <1>5, <2>1 DEF LeaveDashboard
  <2>3. dashboard' \in DashboardPages
    BY <1>5, PageEdits, NoDayIs DEF LeaveDashboard
  <2> QED
    BY <1>1, <1>2, <1>5, <2>2, <2>3 DEF LeaveDashboard, DashboardMove, DashboardTypeOK, Versions
<1>6. CASE TurnMonth \/ ClickDay
  <2>1. dashboard' \in DashboardPages
    <3>1. CASE TurnMonth
      <4>1. PICK n \in -MaxMonths .. MaxMonths :
              dashboard' = [dashboard EXCEPT !.calendarMonth = n, !.selected = NoDay]
        BY <3>1, Zenon DEF TurnMonth, ShowMonth
      <4>2. \A k \in -MaxMonths .. MaxMonths :
              [dashboard EXCEPT !.calendarMonth = k, !.selected = NoDay] \in DashboardPages
        BY <1>1, PageEdits, Zenon
      <4> QED
        BY <4>1, <4>2, Zenon
    <3>2. CASE ClickDay
      <4>1. PICK d \in 0 .. MaxVersion : dashboard' = [dashboard EXCEPT !.selected =
              IF d \in TradedDays /\ @.day # d THEN [day |-> d, version |-> dashboard.data]
              ELSE NoDay]
        BY <3>2 DEF ClickDay
      <4>2. /\ [day |-> d, version |-> dashboard.data] \in
                 [day : 0 .. MaxVersion, version : 0 .. MaxVersion]
            /\ NoDay \in [day : 0 .. MaxVersion, version : 0 .. MaxVersion]
        BY <1>2, NoDayIs
      <4> QED
        BY <1>1, <4>1, <4>2, PageEdits
    <3> QED
      BY <1>6, <3>1, <3>2
  <2> QED
    BY <1>1, <1>2, <1>6, <2>1
       DEF TurnMonth, ClickDay, DashboardMove, DashboardTypeOK, Versions
<1>7. CASE DashboardTick
  <2> DEFINE rest == {c \in dashboardCalls : ~(c.kind = "auto" /\ c.mine)}
  <2>1. PICK i \in FreeSlots({c \in rest : c.kind = "auto"}) :
          dashboardCalls' = rest \cup {DashboardCall("auto", i)}
    BY <1>7 DEF DashboardTick
  <2>2. DashboardCall("auto", i) \in DashboardCallSet
    BY <2>1, CallIs DEF FreeSlots
  <2>3. dashboardCalls' \subseteq DashboardCallSet
    BY <1>1, <2>1, <2>2
  <2> QED
    BY <1>1, <1>2, <1>7, <2>3 DEF DashboardTick, DashboardTypeOK, Versions
<1>8. CASE Trade
  <2>1. today' \in 1 .. MaxVersion
    BY <1>1, <1>8 DEF Trade
  <2> QED
    BY <1>1, <1>8, <2>1 DEF Trade, DashboardTypeOK, Versions
<1>9. ASSUME NEW c \in dashboardCalls, ServeDashboard(c) \/ DashboardCallFails(c)
      PROVE  DashboardTypeOK'
  <2>1. /\ [c EXCEPT !.answer = "ok", !.version = today] \in DashboardCallSet
        /\ [c EXCEPT !.answer = "error"] \in DashboardCallSet
    BY <1>1 DEF DashboardCallSet
  <2>2. dashboardCalls' \subseteq DashboardCallSet
    BY <1>1, <1>9, <2>1 DEF ServeDashboard, DashboardCallFails
  <2>3. dashboardFails' \in 0 .. MaxDashboardFails
    BY <1>1, <1>9, DashboardAssumption DEF ServeDashboard, DashboardCallFails
  <2> QED
    BY <1>1, <1>9, <2>2, <2>3 DEF ServeDashboard, DashboardCallFails, DashboardTypeOK, Versions
<1>10. ASSUME NEW c \in dashboardCalls, HealthAnswered(c) \/ LoadAnswered(c) \/ AutoAnswered(c)
       PROVE  DashboardTypeOK'
  <2>1. /\ dashboardCalls' \subseteq DashboardCallSet /\ today' = today
        /\ dashboardMoves' = dashboardMoves /\ dashboardFails' = dashboardFails
    BY <1>1, <1>10 DEF HealthAnswered, LoadAnswered, AutoAnswered
  <2>2. dashboardKept' \in KeptSet
    BY <1>1, <1>3, <1>10 DEF HealthAnswered, LoadAnswered, AutoAnswered
  <2>3. dashboard' \in DashboardPages
    <3>1. CASE HealthAnswered(c)
      BY <1>1, <3>1, PageEdits DEF HealthAnswered
    <3>2. CASE LoadAnswered(c)
      BY <1>1, <1>3, <3>2, PageEdits DEF LoadAnswered
    <3>3. CASE AutoAnswered(c)
      BY <1>1, <1>3, <3>3, PageEdits DEF AutoAnswered, Refreshed
    <3> QED
      BY <1>10, <3>1, <3>2, <3>3
  <2> QED
    BY <1>1, <2>1, <2>2, <2>3 DEF DashboardTypeOK, Versions
<1>11. CASE UNCHANGED dashboardVars
  BY <1>11 DEF dashboardVars, DashboardTypeOK
<1> QED
  BY <1>4, <1>5, <1>6, <1>7, <1>8, <1>9, <1>10, <1>11 DEF DashboardNext, AnswerDashboard

\* The types of the dashboard, for any number of versions, requests and months.
THEOREM DashboardTypes == DashboardSpec => []DashboardTypeOK
BY DashboardInitially, DashboardStep, PTL DEF DashboardSpec

-------------------------------------------------------------------------------
(* The pages together                                                      *)

\* There is such a record, and there are such charts.
LEMMA SomeRecordIs == SomeRecord \in Recorded
<1>1. PICK h \in Hours : TRUE
  BY ReportAssumption
<1> DEFINE d == [at |-> h, zoned |-> TRUE, null |-> FALSE]
           x == [started_at |-> d, completed_at |-> d, agentStarted |-> NoDate,
                 agentCompleted |-> NoDate, filled |-> NoDate, closed |-> NoDate]
<1>2. d \in [at : Hours, zoned : BOOLEAN, null : {FALSE}] /\ d.null = FALSE /\ NoDate.null = TRUE
  BY DEF NoDate
<1> HIDE DEF d
<1>3. d \in Dates \ {NoDate} /\ d \in Dates /\ NoDate \in Dates
  BY <1>2 DEF Dates
<1>4. /\ x.started_at = d /\ x.completed_at = d /\ x.agentCompleted = NoDate
      /\ x.closed = NoDate
      /\ x \in [started_at : Dates \ {NoDate}, completed_at : Dates, agentStarted : Dates,
                agentCompleted : Dates, filled : Dates, closed : Dates]
  BY <1>3
<1> HIDE DEF x
<1>5. x \in Recorded /\ ~x.completed_at.null
  BY <1>2, <1>4 DEF Recorded
<1> QED
  BY <1>5 DEF SomeRecord

LEMMA SomeChartIs ==
  ASSUME NEW symbol \in BOOLEAN
  PROVE  \E d \in ChartDatas : d.symbol = symbol /\ (symbol => d.fresh # <<>>)
<1>1. PICK h \in CandleHours : h \in Nat
  BY ChartAssumption
<1> DEFINE hours == {k \in CandleHours : h <= k /\ k <= h}
           now == IF symbol THEN hours ELSE {}
           candles == CandleRun(hours, "offset")
           fresh == CandleRun(now, "Z")
           decision == [action |-> "HOLD", levels |-> {}]
<1>2. h \in hours /\ hours \in Stretches /\ now \in Stretches
  BY <1>1 DEF Stretches
<1>3. IsFiniteSet(hours) /\ Cardinality(hours) \in Nat /\ Cardinality(hours) # 0
  BY <1>2, StretchIs, FS_CardinalityType, FS_EmptySet
<1>4. /\ candles \in Seq(Candles) /\ Len(candles) = Cardinality(hours)
      /\ \A i \in DOMAIN candles : candles[i].form = "offset"
      /\ fresh \in Seq(Candles) /\ Len(fresh) = Cardinality(now)
  BY <1>2, RunIs DEF Forms
<1>5. (symbol => fresh # <<>>) /\ (~symbol => fresh = <<>>)
  <2>1. ~symbol => Cardinality(now) = 0
    BY FS_EmptySet
  <2>2. symbol => Cardinality(now) # 0
    BY <1>3
  <2> HIDE DEF now, fresh
  <2> QED
    BY <1>4, <2>1, <2>2
<1> HIDE DEF candles, fresh
<1>6. 1 \in DOMAIN candles
  BY <1>3, <1>4
<1>7. candles[1].at \in CandleHours /\ candles[1] = Candle(candles[1].at, "offset")
  <2>1. candles[1] \in Candles /\ candles[1].form = "offset"
    BY <1>4, <1>6
  <2>2. PICK k \in CandleHours, form \in Forms : candles[1] = Candle(k, form)
    BY <2>1 DEF Candles
  <2>3. candles[1].at = k /\ candles[1].form = form
    BY <2>2 DEF Candle
  <2> QED
    BY <2>1, <2>2, <2>3
<1>9. decision \in ChartDecisions
  BY DEF ChartDecisions
<1> HIDE DEF hours, now, decision
<1> DEFINE all == {[candles |-> CandleRun(hs, form), decided |-> Candle(k, form),
                    symbol |-> sym, decision |-> dec, fresh |-> CandleRun(n, written)] :
                      hs \in Stretches \ {{}}, form \in {"offset", "naive"},
                      k \in CandleHours, sym \in BOOLEAN, dec \in ChartDecisions,
                      n \in Stretches, written \in Forms}
           d == [candles |-> candles, decided |-> candles[1], symbol |-> symbol,
                 decision |-> decision, fresh |-> fresh]
<1>10. d \in all
  <2>1. d = [candles |-> CandleRun(hours, "offset"),
             decided |-> Candle(candles[1].at, "offset"), symbol |-> symbol,
             decision |-> decision, fresh |-> CandleRun(now, "Z")]
    BY <1>7 DEF candles, fresh
  <2>2. "Z" \in Forms /\ hours \in Stretches \ {{}}
    BY <1>2 DEF Forms
  <2>3. ASSUME NEW hs \in Stretches \ {{}}, NEW form \in {"offset", "naive"},
               NEW k \in CandleHours, NEW sym \in BOOLEAN, NEW dec \in ChartDecisions,
               NEW n \in Stretches, NEW written \in Forms
        PROVE  [candles |-> CandleRun(hs, form), decided |-> Candle(k, form), symbol |-> sym,
                decision |-> dec, fresh |-> CandleRun(n, written)] \in all
    BY SMT
  <2>4. "offset" \in {"offset", "naive"}
    OBVIOUS
  <2> HIDE DEF all, d
  <2> QED
    BY <1>2, <1>7, <1>9, <2>1, <2>2, <2>3, <2>4, Zenon
<1>11. /\ d.decided = candles[1] /\ d.candles = candles /\ d.symbol = symbol
       /\ d.fresh = fresh
  OBVIOUS
<1>12. candles[1] \in ToSet(candles)
  BY <1>6 DEF ToSet
<1>13. ChartDatas = {y \in all : y.decided \in ToSet(y.candles) /\ (~y.symbol => y.fresh = <<>>)}
  BY DEF ChartDatas
<1> HIDE DEF all, d
<1>14. d \in ChartDatas
  BY <1>5, <1>10, <1>11, <1>12, <1>13
<1> QED
  BY <1>5, <1>11, <1>14

LEMMA SomeChartsAre == SomeCharts \subseteq ChartDatas
<1> SUFFICES ASSUME NEW symbol \in BOOLEAN
             PROVE  (CHOOSE d \in ChartDatas : d.symbol = symbol /\ (symbol => d.fresh # <<>>))
                       \in ChartDatas
  BY DEF SomeCharts
<1> QED
  BY SomeChartIs

\* The invariant of them all: what a page keeps while it is open, and that the details rest as
\* they were opened while another page is.
ProgressInv ==
  /\ watchedPage \in WatchedPages
  /\ ListInv /\ DetailInv /\ ReportInv /\ ChartInv /\ DashboardTypeOK
  /\ watchedPage # "detail" => DetailOpened

LEMMA ProgressInitially == ProgressInit => ProgressInv
<1> SUFFICES ASSUME ProgressInit PROVE ProgressInv
  OBVIOUS
<1>1. watchedPage \in WatchedPages /\ DetailOpened
  BY DEF ProgressInit
<1>2. ListInv
  BY ListInitially DEF ProgressInit
<1>3. DetailInv
  <2>1. RowsTypeOK
    BY <1>2 DEF ListInv, ListTypeOK
  <2> QED
    BY <1>1, <2>1, DetailInitially
<1>4. recorded \in Recorded /\ zone \in Zones
  <2>1. (CHOOSE z \in Zones : TRUE) \in Zones
    BY ReportAssumption
  <2>2. CASE watchedPage = "timeline"
    BY <2>2 DEF ProgressInit
  <2>3. CASE watchedPage = "drawing"
    <3>1. ChartRecords \subseteq Recorded
      <4> DEFINE written == {[SomeRecord EXCEPT !.filled = filled, !.closed = closed] :
                               filled, closed \in Dates}
      <4>1. ChartRecords = {x \in written : x \in Recorded /\ ~x.filled.zoned}
        BY DEF ChartRecords
      <4> HIDE DEF written
      <4> QED
        BY <4>1
    <3> QED
      BY <2>3, <3>1 DEF ProgressInit
  <2>4. CASE watchedPage \notin {"timeline", "drawing"}
    BY <2>1, <2>4, SomeRecordIs DEF ProgressInit
  <2> QED
    BY <2>2, <2>3, <2>4
<1>5. ReportInv
  <2>1. PICK view \in {"page", "modal"} : ReportOpened(view)
    BY DEF ProgressInit
  <2> QED
    BY <1>4, <2>1, ReportInitially
<1>6. chartData \in ChartDatas /\ library \in BOOLEAN /\ ChartOpened
  <2>1. CASE watchedPage = "chart"
    BY <2>1, SomeChartsAre DEF ProgressInit
  <2>2. CASE watchedPage = "drawing"
    BY <2>2 DEF ProgressInit
  <2>3. CASE watchedPage \notin {"chart", "drawing"}
    BY <2>3, SomeChartsAre DEF ProgressInit
  <2> QED
    BY <2>1, <2>2, <2>3
<1>7. ChartInv
  BY <1>4, <1>6, ChartInitially
<1>8. DashboardTypeOK
  BY DashboardInitially DEF ProgressInit
<1> QED
  BY <1>1, <1>2, <1>3, <1>5, <1>7, <1>8 DEF ProgressInv

\* A page that is not open rests.
LEMMA DetailRests ==
  DetailInv /\ DetailOpened /\ UNCHANGED detailVars /\ RowsTypeOK' => DetailInv' /\ DetailOpened'
<1> SUFFICES ASSUME DetailInv, DetailOpened, UNCHANGED detailVars, RowsTypeOK'
             PROVE  DetailInv' /\ DetailOpened'
  OBVIOUS
<1>1. DetailTypeOK' /\ DetailOpened'
  BY DEF DetailInv, DetailTypeOK, DetailOpened, detailVars
<1>2. detail'.refreshing
  BY DEF DetailOpened, detailVars
<1> QED
  BY <1>1, <1>2 DEF DetailInv, Quiet

LEMMA DetailStays ==
  /\ DetailInv /\ UNCHANGED <<rowVars, detailVars>> => DetailInv'
  /\ DetailOpened /\ UNCHANGED detailVars => DetailOpened'
<1>1. DetailInv /\ UNCHANGED <<rowVars, detailVars>> => DetailInv'
  BY DetailStep DEF executionDetailVars
<1> QED
  BY <1>1 DEF DetailOpened, detailVars

LEMMA ReportRests == ReportInv /\ UNCHANGED reportVars => ReportInv'
BY ReportStep

LEMMA ChartRests == ChartInv /\ UNCHANGED chartVars /\ ReportInv' => ChartInv'
BY DEF ChartInv, SomethingComes, chartVars, ReportInv, ReportTypeOK

LEMMA DashboardRests == DashboardTypeOK /\ UNCHANGED dashboardVars => DashboardTypeOK'
BY DashboardStep

LEMMA ListPageRests ==
  ListInv /\ UNCHANGED listPageVars /\ RowsTypeOK' => ListInv'
BY ListRests DEF listPageVars, listPartVars

LEMMA ListPageStays ==
  ListInv /\ UNCHANGED <<rowVars, listPageVars>> => ListInv'
<1>1. UNCHANGED <<rowVars, listPageVars>> => UNCHANGED executionListVars
  BY DEF listPageVars, executionListVars
<1> QED
  BY <1>1, ListStep

LEMMA ProgressStep == ProgressInv /\ [ProgressNext]_progressVars => ProgressInv'
<1> SUFFICES ASSUME ProgressInv, [ProgressNext]_progressVars PROVE ProgressInv'
  OBVIOUS
<1>1. /\ watchedPage' = watchedPage /\ watchedPage \in WatchedPages
      /\ ListInv /\ DetailInv /\ ReportInv /\ ChartInv /\ DashboardTypeOK
      /\ watchedPage # "detail" => DetailOpened
  BY DEF ProgressInv, ProgressNext, AtList, AtDetail, AtReport, AtChart, AtDashboard,
         progressVars
<1>2. CASE AtList /\ ExecutionListNext
  <2>1. /\ watchedPage = "list" /\ UNCHANGED <<detailVars, reportVars, chartVars>>
        /\ UNCHANGED dashboardVars
    BY <1>2 DEF AtList
  <2>2. ListInv' /\ RowsTypeOK'
    BY <1>1, <1>2, ListStep DEF ListInv, ListTypeOK
  <2>3. DetailInv' /\ DetailOpened'
    BY <1>1, <2>1, <2>2, DetailRests
  <2>4. ReportInv' /\ ChartInv' /\ DashboardTypeOK'
    BY <1>1, <2>1, ReportRests, ChartRests, DashboardRests
  <2> QED
    BY <1>1, <2>2, <2>3, <2>4 DEF ProgressInv
<1>3. CASE AtDetail /\ ExecutionDetailNext
  <2>1. /\ watchedPage = "detail" /\ UNCHANGED <<listPageVars, reportVars, chartVars>>
        /\ UNCHANGED dashboardVars
    BY <1>3 DEF AtDetail
  <2>2. DetailInv' /\ RowsTypeOK'
    BY <1>1, <1>3, DetailStep DEF DetailInv
  <2>3. ListInv'
    BY <1>1, <2>1, <2>2, ListPageRests
  <2>4. ReportInv' /\ ChartInv' /\ DashboardTypeOK'
    BY <1>1, <2>1, ReportRests, ChartRests, DashboardRests
  <2> QED
    BY <1>1, <2>1, <2>2, <2>3, <2>4 DEF ProgressInv
<1>4. CASE AtReport /\ ExecutionReportNext
  <2>1. /\ UNCHANGED <<rowVars, listPageVars, detailVars, chartVars, dashboardVars>>
        /\ watchedPage # "detail"
    BY <1>4 DEF AtReport
  <2>2. ReportInv'
    BY <1>1, <1>4, ReportStep
  <2>3. ListInv' /\ DetailInv' /\ DetailOpened'
    BY <1>1, <2>1, ListPageStays, DetailStays
  <2>4. ChartInv' /\ DashboardTypeOK'
    BY <1>1, <2>1, <2>2, ChartRests, DashboardRests
  <2> QED
    BY <1>1, <2>2, <2>3, <2>4 DEF ProgressInv
<1>5. CASE AtChart /\ CandleChartNext
  <2>1. /\ UNCHANGED <<rowVars, listPageVars, detailVars, reportVars, dashboardVars>>
        /\ watchedPage # "detail" /\ UNCHANGED <<recorded, zone>>
    BY <1>5 DEF AtChart, reportVars
  <2>2. ChartInv'
    BY <1>1, <1>5, <2>1, ChartStep
  <2>3. ListInv' /\ DetailInv' /\ DetailOpened'
    BY <1>1, <2>1, ListPageStays, DetailStays
  <2>4. ReportInv' /\ DashboardTypeOK'
    BY <1>1, <2>1, ReportRests, DashboardRests
  <2> QED
    BY <1>1, <2>2, <2>3, <2>4 DEF ProgressInv
<1>6. CASE AtDashboard /\ DashboardNext
  <2>1. /\ UNCHANGED <<rowVars, listPageVars, detailVars, reportVars, chartVars>>
        /\ watchedPage # "detail"
    BY <1>6 DEF AtDashboard
  <2>2. DashboardTypeOK'
    BY <1>1, <1>6, DashboardStep
  <2>3. ListInv' /\ DetailInv' /\ DetailOpened'
    BY <1>1, <2>1, ListPageStays, DetailStays
  <2>4. ReportInv' /\ ChartInv'
    BY <1>1, <2>1, ReportRests, ChartRests
  <2> QED
    BY <1>1, <2>2, <2>3, <2>4 DEF ProgressInv
<1>7. CASE UNCHANGED progressVars
  <2>1. UNCHANGED <<rowVars, listPageVars, detailVars, reportVars, chartVars, dashboardVars>>
    BY <1>7 DEF progressVars
  <2>2. ListInv' /\ DetailInv' /\ (DetailOpened => DetailOpened')
    BY <1>1, <2>1, ListPageStays, DetailStays
  <2>3. ReportInv' /\ ChartInv' /\ DashboardTypeOK'
    BY <1>1, <2>1, ReportRests, ChartRests, DashboardRests
  <2> QED
    BY <1>1, <2>2, <2>3 DEF ProgressInv
<1> QED
  BY <1>2, <1>3, <1>4, <1>5, <1>6, <1>7 DEF ProgressNext

LEMMA ProgressIsInvariant == ProgressSpec => []ProgressInv
BY ProgressInitially, ProgressStep, PTL DEF ProgressSpec

LEMMA ProgressShows ==
  ProgressInv => ProgressTypeOK /\ MonitoredIsRefreshed /\ TimelineIsTrue /\ ChartIsTrue
<1> SUFFICES ASSUME ProgressInv
             PROVE  ProgressTypeOK /\ MonitoredIsRefreshed /\ TimelineIsTrue /\ ChartIsTrue
  OBVIOUS
<1>1. /\ watchedPage \in WatchedPages /\ ListTypeOK /\ DetailTypeOK /\ ReportTypeOK
      /\ DashboardTypeOK /\ ChartInv
  BY DEF ProgressInv, ListInv, DetailInv, ReportInv
<1>2. ChartTypeOK /\ ChartIsTrue
  BY <1>1, ChartShows DEF ChartIsTrue
<1>3. MonitoredIsRefreshed
  BY DEF ProgressInv, DetailInv, MonitoredIsRefreshed, Quiet, DetailTypeOK, Details
<1>4. TimelineIsTrue
  BY <1>1, TimelineTrue DEF ReportTypeOK
<1> QED
  BY <1>1, <1>2, <1>3, <1>4 DEF ProgressTypeOK

\* The types of all the pages, for any rows, hours, zones, versions and numbers of requests.
THEOREM ProgressTypes == ProgressSpec => []ProgressTypeOK
BY ProgressIsInvariant, ProgressShows, PTL

\* What the pages show is true: the timeline is in the order of what happened, the chart is true
\* to the candles and to the trade, the details of what goes on go on refreshing, and a report
\* that was shown in full stays.
THEOREM PagesTrue == ProgressSpec => PagesAreTrue
<1> DEFINE Stays == report.executiveReport = "full" /\ report'.view = report.view =>
                      report'.executiveReport = "full"
           Shown == MonitoredIsRefreshed /\ TimelineIsTrue /\ ChartIsTrue
<1>1. ProgressInv /\ [ProgressNext]_progressVars => [Stays]_reportVars
  <2> SUFFICES ASSUME ProgressInv, [ProgressNext]_progressVars PROVE [Stays]_reportVars
    OBVIOUS
  <2>1. ReportInv
    BY DEF ProgressInv
  <2>2. CASE AtReport /\ ExecutionReportNext
    BY <2>1, <2>2, ReportStep
  <2>3. CASE UNCHANGED reportVars
    BY <2>3
  <2> QED
    BY <2>2, <2>3 DEF ProgressNext, AtList, AtDetail, AtChart, AtDashboard, progressVars
<1>2. PagesAreTrue <=> []Shown /\ [][Stays]_reportVars
  BY DEF PagesAreTrue, FullReportStays
<1>3. ProgressInv => Shown
  BY ProgressShows
<1> HIDE DEF Stays, Shown
<1>4. ProgressSpec => [][ProgressNext]_progressVars
  BY PTL DEF ProgressSpec
<1> QED
  BY <1>1, <1>2, <1>3, <1>4, ProgressIsInvariant, PTL
===============================================================================
