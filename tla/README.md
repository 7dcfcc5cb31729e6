# A TLA+ model of the trading platform

The platform runs trading pipelines: a signal or a schedule starts an execution, agents decide
on a trade, a user may have to approve it, a broker takes the order, and Celery tasks watch the
trade until it is over. Nearly everything that can go wrong for good lies between those parts:
they share one PostgreSQL row per execution, a message queue that delivers late and twice, and a
broker whose books lag behind its answers. Users see all of it through a web client, whose pages
ask, refresh and save while answers come in any order. This directory models the core of the
backend and the pages of the web client, checks both with TLC and proves part of them with
TLAPS.

Source paths are relative to the repository; `B` stands for `backend/app`, `W` for
`frontend/src/app`.

## 1. The system

| Part | State it keeps | Operations | Correct when |
|---|---|---|---|
| Trade approval (`B/services/approval_service.py`, `B/api/v1/approvals.py`, `B/orchestration/tasks/approval.py`) | status, approval_status, approval_expires_at of the row | gate, approve and reject (by id, by token), timeout task, resume task | an order needs an approval of its own; a waiting row is resolved; a refusal stands |
| Position monitoring (`B/orchestration/tasks/monitoring.py`, `B/agents/trade_manager_agent.py`) | status, next_check_at, result and pipeline state of the row; one message per next check | load, ask the broker, decide, commit, enqueue the next check | no live trade is booked as over; the chain does not stop unnoticed |
| Trade reconciliation (`B/orchestration/tasks/reconciliation.py`) | the same row | compare with the broker, book, restart a dead chain | nothing alive is written off; nothing over is left open |
| Maintenance (`B/orchestration/tasks/maintenance.py`) | the same row | fail rows that are too old | ends what crashed, and nothing else |
| Execution API (`B/api/v1/executions.py`) | the same row | start, stop, cancel, close, resume monitoring, reconcile | what the user did stands |
| Pipeline executor and task (`B/orchestration/executor.py`, `B/orchestration/tasks/execute_pipeline.py`) | creates the row | preflight checks, agents, gate, trade, last commit | one trade per symbol and trigger |
| Broker services (`B/services/brokers/`) | nothing; the broker's books | positions, orders, trade details, close, cancel | an error is not an answer |
| Trigger dispatcher (`trigger-dispatcher/app/main.py`) | pipeline cache, signal batch, Kafka offset | refresh, match, busy check, enqueue | no signal is forgotten; none is repeated without cause |
| Schedules and liquidation (`B/orchestration/tasks/check_*.py`, `liquidate_positions.py`, `stop_execution.py`) | pipeline is_active, rows | activate, deactivate, close all | a stopped pipeline holds no position |
| Circuit breaker (`B/services/circuit_breaker.py`) | the user's halted flag | halt, close all, reset | halted means nothing trades |
| Celery app (`B/orchestration/celery_app.py`) | the queues | late acknowledgement, redelivery, retries, beat schedule | every accepted task ends or is delivered again |
| Backtesting (`B/backtesting/`, `B/orchestration/tasks/run_backtest.py`, `launch_backtest_runtime.py`, `B/api/v1/backtests.py`) | the run's row; positions, trades, account and checkpoint in Redis | launch, replay candle by candle, save, resume, cancel, report | every candle once; the books lose and double nothing; the window's end closes positions |
| Web client: builder (`W/features/pipeline-builder-guided`) | nodes, settings, subscriptions, broker; a pane with staged edits | load, edit, save, run, leave | what is stored is what is shown |
| Web client: session (`W/core/services/auth.service.ts`, interceptor, guard, login, register) | token, user, route | log in and out, guard, 401 | no protected page without a token; back to where it expired |
| Web client: monitoring (`W/features/monitoring`) | list, details, dialog, report, each with its timer | refresh, load more, approve, reject, close, reconcile, report | shows what is; announces what was done |
| Web client: approval page (`W/features/approval`) | the trade behind a link | load, decide | shows the decision that holds |
| Web client: backtests (`W/features/backtests`) | runs, selected run, launch form | select, launch, refresh, report | details, report and list belong to one run |
| Web client: pipelines, scanners, strategies, settings (`W/features/*`) | lists, forms, drafts | load, change, delete, vote, review, consent | what is shown is stored; what is typed stays |
| Web client: dashboard (`W/features/dashboard`) | figures of the account | load, refresh, draw | catches up; draws what the figures say |
| Language-model agents, signal generator, data plane, iOS client, notifications | data only | | not modelled, see section 8 |

**How they interact.** The dispatcher and the scheduler enqueue `execute_pipeline`; the executor
commits AWAITING_APPROVAL and enqueues the timeout, or trades at once; an approval enqueues the
resume task; a trade leaves a MONITORING row and one `schedule_monitoring_check` message; each
check enqueues the next. Beat runs the reconciliation and the cleanup beside all of them, and
the API answers the user meanwhile.

**What is hard.** No task locks the row: each loads it, spends seconds with the broker and
commits. PostgreSQL runs at READ COMMITTED; `version` is incremented but compared only in the
recovery after a failed commit. So a commit overwrites, column by column, what others committed
since the load, and JSON columns are rewritten whole. Messages are acknowledged after the task
(`task_acks_late`, `task_reject_on_worker_lost`): a crash means a second delivery. A message
sent after a commit may never be sent. The broker lists a new order late, `has_active_symbol`
asks it two questions in a row, and some services answer errors with "nothing there".

A backtest keeps its books as keys in Redis that are written one after the other, and goes on
from a checkpoint after a crash. The web client has no locks either: a page asks, the user goes
on, and the answer is applied to whatever page, selection or form there is when it comes; timers
ask again meanwhile, and a request that the client has given up is still worked on. PROJECT.json
lists these hazards at their lines.

## 2. The modules

| Module | What it is |
|---|---|
| `Approval` | the approval workflow: gate, endpoints, timeout, resume task, trade manager's order, cleanup, crashes |
| `TradePermission` | what it promises: every order is counted against a permission of its own, and closed rows get none |
| `ApprovalProps` | its properties, and the refinement mapping to `TradePermission` |
| `ApprovalProofs` | its theorems |
| `Monitoring` | one trade after its order: checks, reconciliation, cleanup, the user's requests, the broker |
| `MonitoringProps` | its properties, and a claim the code does not keep |
| `MonitoringProofs` | its theorems |
| `Dispatcher` | the instances of the trigger dispatcher between Kafka, Celery and the executions table, and the life of the rows it reads |
| `DispatcherProps` | its properties, and a claim the code does not keep |
| `DispatcherProofs` | its theorems |
| `Replay` | a backtest run: launch, orchestrator, broker's books, checkpoint, crash, cancel; its properties |
| `Builder`, `BuilderProps` | the pipeline builder, and what it promises |
| `PipelinesPage`, `ScannersPage`, `StrategyPages`, `Settings` | the other pages that prepare what trades |
| `Authoring` | those five, one of them open |
| `Session` | token, guard, interceptor, login and register pages |
| `ExecutionRows`, `ExecutionList` | the rows of executions as the client reads them, and the monitoring page |
| `Reconciliation`, `ApprovalPage`, `Backtests` | the reconciliation dialog, the page behind an approval link, the backtest pages |
| `Figures` | what the dashboard and the backtest pages draw and compute |
| `Trading` | session, list, dialog, approval page, backtests and figures, one of them in use |
| `ExecutionDetail`, `Dashboard` | one execution's page, the dashboard |
| `Timestamps`, `ExecutionReport`, `CandleChart` | dates with and without a zone; the report of an execution; the chart in it |
| `Progress` | list, details, report, chart and dashboard with their fairness, one of them open |
| `TradingProofs`, `BuilderProofs`, `AuthoringProofs`, `ProgressProofs`, `ReplayProofs` | their theorems, part by part and for the compositions |
| `MC...` | symmetry sets and values of constants for TLC |

### Approval and the code

The row is `status`, `approval`, `mode`; `expired` and `old` say which time limits have passed.
Each API request is in `req[r]`, each worker's task in `worker[w]`, the timeout task in
`timer[e]`, the messages of the resume task in `resumeQ`. A handler that loads the row and
commits later is two actions (`ApproveRead`, `ApproveCommit`; `TimeoutRead`, `TimeoutCommit`;
`TakeResume`, `CommitRunning`), and what it decided at the load is kept in its `pc` and not
looked at again, as in the code. `granted`, `orders` and `lost` are history: no action decides
by them.

A task may raise at every step, the load of `resume_approved_execution` and what follows its
RUNNING commit included, and so reaches its handler (`TakeResume`, `TaskRaises`,
`HandleFailure`). The handler marks the row FAILED or fails at that too; then a resume task is
retried until `retries` has reached `MaxRetries`, and gives up. A row that is left waiting by a
task that gave up, like one whose enqueue failed, is in `lost`: nothing in the code takes it up
again.

`execute_pipeline` is modelled without an execution id, the dispatcher's and the scheduler's
call: a redelivered message works on a new row, which is not this row any more. `PlaceOrder` is
one broker call whose result does not decide what happens next, as in `_execute_broker_trade`;
`DuplicateCheck` may say "duplicate" of a symbol without one, because the code answers an error
of the broker that way.

### Monitoring and the code

One row, the messages of its checks (equal, so `queue` counts them), the check each worker runs,
at most one reconciliation, one request and one cleanup. A check's record holds the columns of
the copy it loaded that it will still use. `Status` and `Cleared` model the commit: SQLAlchemy
writes a column only when it differs from the loaded copy, so a check that changes nothing about
the status leaves a status committed meanwhile alone, while `exec` and `outcome`, parts of one
JSON column, are written whole. Every broker call is a step of its own, through `Says`: yes, no,
or a fault that raises, or that reads as no when the service swallows it. The two calls of
`has_active_symbol` are two steps.

`trade` is the truth at the broker (pending, open, closed, void). `age` is the time since the
row started and since its order was placed. The reconciliation's grace runs for three minutes
from `started_at`, which is set before the agents run and before a wait for an approval: "grace"
says that it still runs, "new" that it is over while the order is younger than three minutes, so
that the broker's list may lag (a minute in the monitor's own grace period), "settled" that the
order is older, "stale" that 25 hours have passed. A row begins in either of the first two.
`MinutesPass` waits for a check that is between the calls of `has_active_symbol`; a
COMMUNICATION_ERROR verdict needs an order that is not new, because five checks 15 seconds apart
are longer than the lag. `rec.misled` is history: why the two answers of `has_active_symbol`
may miss a trade that is alive ("swallowed" an error, "unlisted" because the order is too new,
"filled between" the two calls without leaving an order behind).

`Limit`, `Legs`, `TradeIds` and `SwallowedCalls` describe broker and order: a bracket order's
legs are orders of the symbol (Alpaca, Tradier) or not (Oanda), a position carries a trade id
(Oanda) or not, and which calls swallow their errors.

### Dispatcher and the code

The instances are one consumer group of a topic with one partition. `owner` is the instance
whose commits the group takes, `fetching` the instances that believe to have the partition: one
learns of a rebalance in its next poll only (`Revoke`), or by its commit. `Assign` gives the
partition to an instance, whose `position` is then the committed offset, or the end of the topic
when there is none (`auto_offset_reset` is `latest`); `signal_buffer` keeps what it had polled
before. An instance's `pc` runs through `consume_signals`: `Poll` moves its position and fills
its `buffer`, `StartBatch` to `BatchDone` are `process_signal_batch`, `Commit` is the commit
after it. A failed commit is only logged. It is chiefly a `CommitFailedError` of an instance
that the group has left behind, which takes no signal until it has the partition again, from the
committed offset; another error leaves the position, and the next commit covers the batch.
`BatchRaises` empties the buffer, which the code does before it processes the batch, and goes on
polling without a commit. `Crash` and `Stop`, the interrupt whose `shutdown` commits, end an
instance, and the group rebalances. `times`, `given`, `dropped` and `missed` are history: how
often an instance processed a signal, how often it was given the partition, the signals of
batches that raised or were interrupted, and those that an assignment without an offset skipped.

The busy check is two steps, `CheckRunning` and `FailStale`; each catches its own errors. The
second one never changes a row: it binds `Column('status', String(50))`, a VARCHAR, to a column
that the migration made an enum (`20251028_1658`), which PostgreSQL refuses (section 7).

One partition, one user, one ticker. What the cache and the match say is any set of pipelines,
and what the market hours say is a choice of `Enqueue`; signals are well-formed. Rows go from
the preflight checks through insert, approval, resume and monitoring; RUNNING stands for PENDING
and MONITORING for COMMUNICATION_ERROR, which both guards treat alike. A row's `trade` says what
its task knows of the broker: it has found no position or order of the symbol
(`DuplicateCheck`), its order is there (`PlaceOrder`), until that is over (`EndAtBroker`). A row
is `old` when `started_at` is twelve minutes ago. The first task of a row is killed after ten,
so only rows that are resumed, or whose task died, grow old.

### Replay and the code

`Start` to `Report` are `execute_backtest_run` with `BacktestOrchestrator.run_backtest` inlined:
`job.pc` is the place in it, `job.tick` and `job.symbol` its two loops. Every write to Redis or
to a row is a step of its own, so that `Crash` falls between any two of them: `close_position`
is `Closed`, `BookResult` and `RemovePosition`, `open_position` is `ChargeFee` and
`OpenPosition`, and the checkpoint is saved after the signals and after each candle. With
`redelivers` the run is the shared Celery task, which is delivered again and goes on from its
checkpoint; without it, a container or a job that nobody starts again. `inside` is the schedule,
`liquidates` whether its end closes positions, `matched` what the signals of a tick match: any
set of symbols, but the same one when it is asked for again. A position knows the tick whose
candle reaches its stop or target; `cash` counts the fees and results of an execution instead of
adding amounts. The commit of the statuses, the cancel request with its two steps and the
exception branch of the task are as in the code, whose copy of the run never learns of a cancel.

### The web client and the code

A page is one record with the fields of its component that decide something, named as there; its
methods are actions. A request is an element of a set with what was sent, what the server read
or did, and whether the page that asked is still there: sending, serving and answering are three
steps, so that answers overtake each other and one that is lost, or fails, is a disjunct of the
third. Where the code drops answers (`takeUntil`, `switchMap`, a component that is destroyed)
they are dropped; where it does not, they reach a page that was left. The server's part is as
small as the page needs, and is translated from the endpoint (`B/api/v1/`) where the client
depends on its order, as for approvals, reconciliation and votes.

`Builder` keeps the four places an edit can be: the staged pane (`editingConfig`), the nodes,
the settings and the broker; `Agents`, `Texts`, `Tools` and `BrokerTypes` are sets because
nothing depends on which. `Session` numbers the tokens by login, so that a late 401 has an
owner. `Reconciliation` has small prices and the sign of a P&L, its rounding left out since
prices are further apart than a cent. `Timestamps` holds the two date formats of the backend,
with a zone and without, and what `new Date` makes of them in the reader's zone. `CandleChart`
tells three apart, since candles are compared as texts; how it loads is a behaviour, what it
draws a function of the candles, the trade and the zone. `Figures` has no behaviour: it chooses
profits once and states what is drawn from them, in integers (a coordinate times its
denominator), and compares the two cost formulas, in TypeScript and in Python, with their
roundings.

`Authoring`, `Trading` and `Progress` compose the pages: the variable `authoringPage`
(`tradingPart`, `watchedPage`) says which one is in use, and the others rest. The router shows
one page at a time, and pages share the server but no state, so that the states add up and do
not multiply. What a late answer of a page that was left does, navigating or opening a dialog,
is part of that page's module.

## 3. The runs

| Run | Instance | What it shows |
|---|---|---|
| `ApprovalSafety` | 1 row, 2 requests, 2 workers, 2 crashes | types; an order needs an unused approval of its own; a waiting row has its timeout or resume task unless that gave up; a settled row is not revived; `TradePermission` is implemented |
| `ApprovalLive` | 1 row, 2 requests, 1 worker, 1 crash, fair | no row runs forever, and none waits whose tasks did not give up |
| `MonitoringSafety` | 2 workers, bracket order, row started with it or long before, cancel, 1 fault | types; COMMUNICATION_ERROR rows keep a next check; a check books as executed only what is over |
| `MonitoringLive` | 1 worker, market order, trade ids, a broker that swallows the errors of both calls, emergency exits, close, resume and settle, 1 fault, fair | the reconciliation books a live trade for known reasons only; ended rows stay ended; an ended trade is booked; a dead chain is restarted |
| `DispatcherDelivery` | 2 instances, 3 signals, 1 pipeline, 1 row, 1 fault, fair | types; no signal below the offset is forgotten; none is processed again unless the partition was given again; each is dealt with in the end |
| `ReplaySafety` | 2 ticks, 2 symbols, 1 missing candle, 2 trades, 1 crash | types; a completed run shows every candle once and in order; the books keep every position, once; no position outlives the schedule's window |
| `ClientAuthoring` | 2 agents, 3 edits; 2 pipelines; 2 scanners; 2 strategies; 2 names and zones; up to 5 requests a page | types; what was saved is shown and stored; a stored pipeline is sound; lists and consent are current; an editor keeps to its scanner; typing is kept |
| `ClientTrading` | 2 logins, 2 rows, 2 requests in flight, 2 prices, 2 runs, profits of 2 brokers over 3 days | types; session, list, dialog, approval page, backtests and figures tell the truth |
| `ClientProgress` | 1 row, 2 requests, 2 zones, 2 candles of 3 formats, 2 versions, 1 failure, fair | types; what is due is shown (an ended execution, a report without an answer); what is shown is true (details, timeline, chart); the dashboard catches up |
| `FilledThenCancelled`, `DuplicateMonitoring`, `LateExecutions` | the smallest that show it | a statement of the repository that the code does not keep (section 7) |

Several properties of the client are conjunctions of one promise per page (`ShownIsStored`,
`TypingIsKept`, `DueIsShown`, `PagesAreTrue`, `SessionIsKept`, ...); each conjunct is a
definition of its page's module with the code it is about, and the modules hold mutants,
operators that change one action as a plausible bug would, for the conjuncts too.

What a property excuses is part of its statement, and of what it does not show: `EndedIsShown`
(in `DueIsShown`) pages that a tick of their timer outpaced, `DashboardCatchesUp` any
failure, `PositionsAreAccounted` a trade that is booked twice after a crash, `SettledStaysSettled`
and `EndedStaysEnded` rows that a handler still holds, `CommittedIsAccounted` dropped batches.

**Why the bounds are enough.** Rows do not share anything but the symbol's orders, so one row
shows every interleaving of its handlers. Two requests and two workers give every pair of racing
handlers, and each handler reads the row once and writes it once. Two crashes reach a crash
during the redelivery after a crash. In the monitoring, two workers give doubled chains, and
`MaxQueued = 1` still has a message queued while two run; equal messages beyond it are not told
apart. `MaxRetries = 1` stands for the 3 retries of the resume task: one that is used and none
that is left. In the monitoring `ErrorLimit = 1` and `MaxRetries = 2` stand for 5 and 60: below
the limit and at it are reached with one fault, which already overtakes a reset of the counter;
that the checks give up at the second limit needs a second fault and is left to the theorems,
which hold for any number. In `MonitoringLive` one fault is the least that misleads the
reconciliation or ends a chain, and the two safety properties there are theorems too. In the
dispatcher three signals are one that is committed, one in the batch and one not yet polled; two
instances are one that has the partition and one that takes it over; the one fault is a
rebalance, with the failed commit of the instance that has not heard of it, a commit that fails
otherwise, a lost batch, or a crash. Deadlock is not checked: an execution that has ended with
no request left is where the system is meant to stop.

In `Replay` two ticks are the least with a window that closes, and give a first, a middle and a
last write of a tick and of the run; two symbols with a gap give a candle before, at and after
the missing one; one crash reaches every place, and the run that goes on meets all that it left.
On the client two requests of a kind are what overtaking needs, and a third one overtakes no
more than a pair does; three edits are an edit, a save of it and an edit that is not in the
save. Two rows are one that moves and one that stays, two logins a session and the one whose
late answers meet it. The profits in `Figures` are below, at and above zero, and include none at
all; the curves of two brokers can begin on different days. Deadlock is not checked on the
client either: a user may stop at any time.

The model constants `MaxCrashes`, `MaxFaults`, `MaxQueued`, `MaxSignals`, `ErrorLimit`,
`MaxRetries` and the set `Rows` bound the first three models, `MaxTicks`, `MaxSymbols`,
`MaxGaps`, `MaxTrades` and `MaxCrashes` the replay, and the constants `Max...`, `FetchSize`,
`DashboardSlots`, `HistoryDays` the client's. There are no other bounds; the theorems hold for
all their values.

## 4. Fairness

`ApprovalLive`: requests that were accepted and tasks that run go on (`ApiStep`, `TaskStep`);
each queued resume message is taken (a queue is served, and late acknowledgement keeps it); the
timeout's countdown runs out and so do `approval_expires_at` and the cleanup's cutoff; beat
starts the cleanup each minute. Users owe nothing: nobody has to approve. `WaitEnds` excludes
rows whose enqueue failed or whose resume task gave up (`lost`); those are among the hazards,
and the code leaves them waiting.

`MonitoringLive`: messages are taken, checks proceed, the reconciliation runs every five minutes
and minutes pass. The user, the market and the 25-hour cleanup owe nothing, so
`EndedTradeIsBooked` does not rest on the cleanup failing the row in the end.

`DispatcherDelivery`: the loop of each instance goes on, and the group gives the partition to
one of them in the end. Nothing is owed by the signal generator, the workers or the users.

`ClientProgress`: the timers of an open page tick, the server serves, answers arrive (weakly
fair); only one page is open, so a fairness of the open page's steps is one of each page. The
dashboard's automatic refresh needs strong fairness of being served and answered: every tick
cancels an answer that is not there yet (`switchMap`), so that the code keeps up only with a
server that now and then answers within 30 seconds. Failures end what is promised
(`dashboardFails = 0` is a premise), as does leaving the page; a user owes nothing.

Fairness is weak elsewhere: no action needs to win a race to be taken.

## 5. What is proved

All theorems hold for every value of the constants that satisfies `ApprovalAssumption`,
`MonitoringAssumption`, `DispatcherAssumption`, `ReplayAssumption` or the assumption of the
page's module, which state types, `NoOne \notin Responders`, that the error limits are ordered,
that only limit orders have legs, that `NoOffset` is not an offset and `Nobody` not an instance,
and of the client that what stands for nothing (`NoId`, `NoBroker`, "none", `Blank`) is none of
the values and that there is something to choose from (brokers, texts, tickers, names,
timezones, pipelines). The bounds `Max...` are any numbers.

- `ApprovalProofs!TypeCorrect`, `MonitoringProofs!TypeCorrect`, `DispatcherProofs!TypeCorrect`:
  the type invariants.
- `ApprovalProofs!OneOrder`: `OneOrderPerGrant`. The invariant is not inductive: that no order
  has been spent on a grant depends on where the grant travels. `GrantInv` follows it: two
  workers never carry the same grant (`UniqueTasks`), a task's pc fits who asked for it
  (`TaskShape`), a row that was never started has no traffic (`RowStart`), a grant is in one
  place at a time, in a request, a message or a task (`GrantFlow`), and it is unspent until the
  task that carries it passes `PlaceOrder`, after which only a status other than
  AWAITING_APPROVAL lets it come back (`Spending`). The step proof has one case per action.
- `ApprovalProofs!Implementation`: `Spec => Permission!Spec`, from `GrantInv` in both states of
  a step: an approval maps to `Give`, `PlaceOrder` to `Order`, the end of a row to `Close`, all
  else stutters. Orders map to their counts, so that a second one on the same approval is a step
  that the abstract specification does not have, as is an order for a row that is closed: that a
  settled row stays so is lemma `SettledStep`. With `CommitRunningLater`, which leaves the row
  AWAITING_APPROVAL while it trades, TLC finds the refinement violated.
- `ApprovalProofs!Tracked`: `AwaitingIsTracked`. `WaitInv` adds that a row that waits is pending
  or approved: every other answer ends it in the commit that records it. Lemma `WaitFrame` lists
  who takes a message, answers a request, ends a task and runs a timer; `TimeoutKept` and
  `AnswerKept` follow the one obligation of a row from hand to hand, through a handler that
  retries it or gives it up, `WaitChange` says how a wait begins.
- `ApprovalProofs!Refused`: `SettledStaysSettled`, from the types: no action that starts,
  resumes or trades takes a row that is over and that no task holds.
- `MonitoringProofs!RetryScheduled`: `RetryIsScheduled` is inductive together with the types.
  The heart of it is the check that read MONITORING, and now keeps a status that somebody else
  changed to COMMUNICATION_ERROR: it writes a next check whenever it goes on.
- `MonitoringProofs!Ended`: `EndedStaysEnded`, from the types, one case per handler.
- `MonitoringProofs!NoFalse`: `NoFalseReconciliation`, for any broker, any row's age and any
  faults. `ReconcileInv` says that what is about to be booked is over, or that one of the two
  answers missed it for a reason that `misled` names. Lemma `NotActive` is the point of the
  order of the two calls: an honest "no" to the second question, of a list that does not lag and
  shows the legs, alone means that nothing is alive. That each of the three reasons does happen
  is in section 7; for a broker that raises its errors and keeps the legs, and an order that is
  settled, none of them can.
- `MonitoringProofs!Executed`: `ExecutedIsOver`, without emergency exits and for a broker that
  raises the errors of `get_position`, and those of `get_orders` if it lists legs. That the
  trade is over is not known from the position alone: an order that waits has none. `CheckInv`
  therefore follows the check's way there: a bracket whose order is known is asked for its
  position only when its order has left the broker's list after the lag, or a position was seen;
  `FilledIfTrade` that every copy of the row that knows a trade id stems from a fill; and
  `ExecutedInv` that a row that can be checked has no outcome, so that a check that commits
  `executed` decided it itself. A day may pass between the decision and the commit: a trade only
  moves forward (`TradeMoves`).
- `DispatcherProofs!Delivered`: `CommittedIsAccounted`. `DeliveryInv` says where every signal is
  that the owner of the partition has polled: in its buffer or accounted for; that nothing below
  the offset is not; and that a buffer is empty when its commit is due.
- `DispatcherProofs!Repeated`: `RepeatedByAssignment`. `RepeatInv` counts ahead what an instance
  may still process for the times it was given the partition (`Pending`): a signal in its buffer
  once, and one that it has yet to poll once more.
- `TradingProofs!SessionKept`: `SessionIsKept`, for any pages and any number of logins and
  requests. That a 401 returns to the page that was open is not inductive; `EndedOnLogin` adds
  that the address is kept on the login page only, `HasReturn` that a login page always has one.
- `TradingProofs!NoDuplicate`: `NoDuplicates`. `ListInv` says that no answer in flight names an
  execution twice either; lemma `InTurnIs` says what sorting the rows yields: each once,
  whatever the order.
- `TradingProofs!Announced`: `AnnouncedIsDone`. `AnswersAreTrue` carries what was booked to the
  answer that says so, the client's timeout in between; `PricesMatch`: `PnLMatchesPrices`, with
  a lemma on the recalculation, whatever the form held before.
- `TradingProofs!DecisionTrue`: `DecisionIsTrue`; `Awaited` says of the one answer that can be
  on its way that an accepted decision is the backend's.
- `TradingProofs!BacktestsShown`: `BacktestsAreShown`. What a page does not show yet is on its
  way, and an answer asks for the next: `ShownInv` follows the list of runs (`Listing`), the
  details of the selected one (`Detailing`) and its report (`Reporting`). Executions and
  timeline are not in it, since the page takes their late answers unseen (section 7).
- `TradingProofs!TradingTypes` and `TradingHolds` say the same of the parts together, where the
  list and the dialog share the rows: lemma `RowsStay`, that no step of the list takes a row
  from under the dialog, is all the composition adds.
- `BuilderProofs!Saved`: `SavedIsShown`, and `Sound`: `StoredIsSound`. `QuietInv` says of a page
  without edits that nothing is staged, that its agents have the broker of the selector, and
  that what it shows is stored or sent; `SavesInv` that, unless saves overlapped, failed or were
  asked for too early, there is one at a time; `SentInv` and `StoredInv` that what a save sends
  goes with its settings and its broker. `Staged`: `StagedIsSent`, that a save sends what was
  staged.
- `AuthoringProofs!RegistryCurrent`: `RegistryIsCurrent`. `ListIsKept`: the list that was asked
  for last is current when it is shown and when it is on its way, except after a change whose
  answer will ask again. `ListFiltered`: `ListIsFiltered`, the same for the scanners
  (`FilteredIsKept`), with what the filter leaves.
- `AuthoringProofs!EditorKeeps`: `EditorKeepsToItsScanner`; `EditorHasIt` says that an editor
  opened on a scanner has it, or is empty and cannot save, and `OwnCalls` that it waits for its
  own scanner only.
- `AuthoringProofs!PagesCurrent`: `PagesAreCurrent` of the strategies. Answers overtake each
  other, and each replaces one row. `AnswersCurrent` says that of the answers about a strategy
  the one that was made last is current; `PageCurrent`, that what is shown is, unless a change
  is on its way; `DeletionKept`, that a deletion is for ever; `LeftoversAreGone`, that a dialog
  which outlives its page is about what is deleted. `ServedOnce` counts the requests that are
  still to be served, so that the numbers of the answers stay in their bounds. `DraftsTyped` is
  the action property that nothing replaces a draft while it is edited.
- `AuthoringProofs!ConsentCurrent`: `ConsentIsCurrent`. `ConsentAsked`: the requests of a page
  about the consent exclude each other; `ConsentHeard`: so each of their answers tells what is
  stored. `NameStays`: `TypedNameStays`.
- `AuthoringProofs!AuthoringTypes`, `AuthoringShows` and `AuthoringTypings` are about the pages
  together: each of them keeps its invariant while another one is open.
- `TradingProofs!FiguresDrawn`: `FiguresAreDrawn`, for any profits, brokers and days; the one
  fact to carry is `GainsOK`, that profits are whole numbers. `SuffixSums` and `ZeroSums` say
  why cutting the leading zeros off loses nothing (`CurveTells`, `ProfitIs`), `BestIs` follows
  the best day through the history, `ExtentIs` and `AreasAre` hold every curve and both of its
  areas in the frame, `BarFits` divides, `SidesCover` shows for each pair of signs that the two
  colours of a segment share it without a gap. `EstimateIsEnough` compares the two cost formulas
  for all numbers of symbols and days, beyond those the run enumerates; `DatesAre` the axis for
  any number of days.
- `ProgressProofs!DetailRefreshed`: `MonitoredIsRefreshed`. A page that stopped refreshing must
  not learn again that its execution goes on: `Quiet` says of one with nothing left to come that
  the answers and commands on their way can only tell of a completed one.
- `ProgressProofs!FullReport`: `FullReportStays`. `SummaryOnce`: the summary is asked for after
  the execution, and once, so that neither an answer nor the timer is left when it is there in
  full.
- `ProgressProofs!ChartTrue`: `ChartIsAwaited` and `DrawingIsTrue`. `DrawingTrue` is about any
  candles and trade: `InOrderIs` what merging and sorting leave, `MergedTrue` which candles are
  there, and that none is twice where the server writes as the row does (`Alike`), `TradePlaced`
  where the trade's marks are in a zone, `LevelsDrawn` what the panel and the lines agree on.
  `TimelineTrue` is the same for the timeline of a report, from `ByTimeIs`, the stable sort by
  time, and `EventsAre`.
- `ProgressProofs!DashboardTypes`, `ProgressTypes` (`ProgressTypeOK`) and `PagesTrue`
  (`PagesAreTrue`) are about the watched pages together. Besides each page's invariant
  `ProgressInv` needs that the details rest as they were opened while another page is in use,
  since both are about the same rows. The proof of the types found that the charts a run starts
  from left out, in an instance with a single hour, that the server may have no fresh candles;
  `Stretches` now has the empty run.
- `ReplayProofs!ReplayBooks`: `BooksAreKept`, the first half of `PositionsAreAccounted`.
  `BooksInv` follows the order of the writes: a fee is charged before its position is opened; a
  position is among the trades before its result is booked, and is removed last. Lemma
  `BooksFrame` leaves the five writes to look at. `ReplayTypes` is `ReplayTypeOK` with `JobOK`,
  what goes with the orchestrator's place.
- `ReplayProofs!ReplayWindow`: `WindowClosesPositions`. An orchestrator that goes on from a
  checkpoint has forgotten the tick before; `CoverInv` says why that does no harm: at the tick
  it begins with, nothing is open from before a tick outside the schedule, and afterwards it
  knows the tick before. `ClosingInv` says that while positions are liquidated all that is open
  is going to be closed.
- `ReplayProofs!ReplayCurve`: `ReplayIsComplete`, through any crashes. `ResumeInv` relates the
  orchestrator's place to the checkpoint: until it has gone past the tick it began with, its
  checkpoint is the one it loaded; later the checkpoint lies behind the tick, with nothing left
  of its own tick, and while bars are recorded the next one is the first after it. `CurveInv`
  then says that the checkpoint's curve shows the candles before its cursor, each once and in
  order, and that a completed run's curve shows all of them.
- `ReplayProofs!ReplayAccounts`: `PositionsAreAccounted`. An execution that is run again after a
  crash finds its position open, for `KeptInv`: what was opened and is not on the checkpoint is
  open; `NearInv`, that such a position stems from the very tick after the checkpoint, and
  `PassedInv`, that only what is on the checkpoint is closed, keep it so. Without a crash
  `SmoothInv` counts: who has paid a fee is not run again (`FeesInv`), a position that is among
  the trades is being closed (`TradesInv`), and what was synchronised has its row (`SyncInv`).

**Only model-checked**: the liveness properties (temporal reasoning under fairness and ENABLED
are out of the prover's reach): `WaitEnds`, `RunningEnds`, `EndedTradeIsBooked`,
`ChainIsRestarted`, `SignalsAreAccounted`, `DueIsShown`, `DashboardCatchesUp`. Every safety
property that a passing run checks is a theorem.

No module declares a RECURSIVE operator: what is summed or chosen day by day is a recursive
function. The library's theorems of induction take an operator and cannot be used;
`TradingProofs` proves by induction on a set of numbers instead (`SomeLeast`, `AllNumbers`), and
shows that such a function exists (`Steps`). Extremes of finite sets (`Extremes`) and sorting
(`InTurnIs`, `ByTimeIs`) are lemmas on the same footing.

## 6. Plan

1. `PipelineRun`: preflight, insert and redelivery with two rows of one symbol; composed with
   the broker part of `Monitoring` for the duplicate check. "One order per symbol" is the
   property to examine; the rows of `Dispatcher` are a first sketch of it, and
   `DuplicateMonitoring` shows that they do not keep it.
2. `Liquidation`: schedules, liquidation and stop of live pipelines against running executions;
   an abstract specification "deactivated means nothing is open in the end", which `Replay`
   keeps for a backtest (`WindowClosesPositions`).
3. The circuit breaker's halt and reset against queued executions, on the same module.
4. Two orchestrators of one backtest run, after the visibility timeout of the queue.
5. The approval page and the monitoring page composed with `Approval` and `Monitoring` instead
   of their own sketch of the backend.
6. Proofs: an abstract trade life cycle that `Monitoring` implements where the broker raises.

## 7. Divergences

Found while modelling. Three have a violation run that checks a statement of the repository:

- `FilledThenCancelled`: the order fills between the check's listing and its `cancel_order`,
  whose refusal nobody looks at.
- `DuplicateMonitoring`: two messages of one symbol pass the preflight before either has
  inserted its row, and both trade managers ask the broker before either has placed its order:
  two rows are monitored, though the guard is there to "prevent duplicate MONITORING for the
  same user+symbol across ALL pipelines" (`B/orchestration/tasks/execute_pipeline.py:163`).
- `LateExecutions`: the executions of one run are answered after another run was selected and
  has had its own, and stay under that one; `loadExecutions` and `loadTimeline`
  (`backtests-page.component.ts:828`) do not look whose answer it is, as the details and the
  report do.

**The backend.** More that the models show, some with other constants, not kept as runs:

- The timeout task overwrites an approval committed between its read and its commit, though its
  docstring says "This task is race-condition safe: if the user already approved/rejected, this
  is a no-op." (`B/orchestration/tasks/approval.py:244`). `SettledStaysSettled` is about rows
  that no task holds, and so does not speak of it.
- The resume task has `max_retries=3` (`B/orchestration/tasks/approval.py:35`). An outage that
  outlasts the retries, with a handler that cannot write FAILED either (line 233), leaves an
  approved row that still reads AWAITING_APPROVAL, without a message or a timeout:
  `AwaitingIsTracked` and `WaitEnds` count it among the lost ones.
- A worker that dies after the order leaves RUNNING, not MONITORING, in the database, though a
  comment of the trade manager says "This ensures that even if worker crashes after broker API
  call, the execution will be in MONITORING status"; the redelivered task skips the row, the
  cleanup fails it and the order stays.
- "Grace period: don't reconcile executions that just entered monitoring"
  (`B/orchestration/tasks/reconciliation.py:43`): the period starts at `started_at`, which a
  wait for approval, or slow agents, outlast; the new order is not listed yet and is booked as
  cancelled ("unlisted").
- A check that loaded the row before the user's cancel writes its own status over CANCELLED,
  though the module says "Uses optimistic locking" (`B/orchestration/tasks/monitoring.py:5`).
  `EndedStaysEnded` is about rows of which no handler holds a copy, and so does not speak of it.
- `SwallowedCalls` with `get_orders` (Alpaca swallows both calls): one failing call reads as "no
  orders", and the reconciliation books a pending order as cancelled ("swallowed"), though
  `has_active_symbol` "re-raises exceptions on API errors" (`B/services/brokers/base.py:395`).
- `Legs` FALSE: an order that fills between the two calls of `has_active_symbol` is seen by
  neither, with the same end ("filled between").
- Step 1.5 of the check ends a row whose order is not listed yet, before the grace period of
  step 3 is looked at.
- `EmergencyExits` with a failing close: the row completes as executed with the position open,
  so `ExecutedIsOver` holds only without emergency exits.
- A row whose order call raised is written off by phase 3 of the reconciliation as cancelled,
  since no fill was seen, without asking for the order.
- The 25-hour cleanup looks at `started_at` only and fails healthy rows, over what a check has
  committed since, though its comment says "We only auto-fail MONITORING that has been truly
  orphaned." (`B/orchestration/tasks/maintenance.py:74`).
- Two overlapping checks reset each other's error counter, and a stale check restores an outcome
  a later one had replaced.
- A bracket that expired or was rejected may be booked as executed with a profit of zero.
- Comments in the cleanup and the reconciliation provide for COMMUNICATION_ERROR rows without a
  next check; `RetryIsScheduled` shows that there are none.
- A batch that raises is dropped, and the next commit covers it, though the comment says "Commit
  Kafka offsets after successful processing" (`trigger-dispatcher/app/main.py:781`). An
  interrupt in the middle of a batch commits it too.
- An assignment before the first commit skips what was not polled yet.
- After a failed commit or a rebalance the signals since the committed offset are processed
  again, by the same instance or by another one, and their pipelines are triggered again: the
  dispatcher keeps no record of signals, and its documentation advertises several instances
  (`trigger-dispatcher/README.md:34`, `:159`). `RepeatedByAssignment` says that nothing else
  repeats them.
- The dispatcher means to mark rows FAILED that have been RUNNING for more than twelve minutes.
  Its update binds `Column('status', String(50))` as VARCHAR to the enum column that the
  migration `20251028_1658` created, without a cast; PostgreSQL answers with a datatype
  mismatch, which is caught and logged (`trigger-dispatcher/app/main.py:457`). The row stays
  RUNNING until the backend's own cleanup ends it, while the dispatcher no longer takes its
  ticker for busy. This is read from the code and the driver's rules; it was not run against a
  database.
- AWAITING_APPROVAL is busy for neither the dispatcher nor the preflight: the same ticker is
  triggered again while an approval is pending.
- A redelivered `execute_pipeline` finds the RUNNING row of its first delivery and is skipped,
  so redelivery recovers only tasks that died before their insert.

**A backtest run.**

- A cancel does not always stand: RUNNING is written over it when the run starts or is delivered
  again, COMPLETED, the cost limit and a failure when it comes too late for the next tick. The
  test `run.status != CANCELLED` of the exception branch looks at the copy that was loaded
  (`expire_on_commit=False`) and never helps.
- The checkpoint is cleared before the report is stored and the message acknowledged: a crash
  there replays the whole run over the books of the first one (`again` in the model, and the
  premise of two properties). A container that dies leaves its run RUNNING for good.
- What the rows of the executions lack after a crash: the results of trades that were closed
  just before it; and the row of an execution that had opened its position says "Position
  already open" when it is run again. `PositionsAreAccounted` is about the books, which keep
  both. A trade that was booked when the orchestrator died before its position was removed is
  booked a second time.
- Of the amounts, not in the model: the entry's commission is charged when the position is
  opened and is in the net result too; the equity after a candle ignores the other symbols'
  positions; the trade manager opens with 10 000 of capital and default slippage whatever the
  run's are.
- `docs` say "No checkpoint/resume" (backtesting-implementation-review.md:147) of code that has
  one, and "No look-ahead bias" (backtesting-engine-final-proposal.md:99) of a position that is
  opened at a candle's close and tested against the same candle's high and low.

**The web client.**

- *Builder.* Save and Run can be used while the page loads; a save before the catalogue of
  brokers has come erases the agents' brokers. Run without an id saves and says "Saved. Click
  Run again to execute."; a second click before the answer creates a second pipeline. Saves of
  apply and of bulk changes overlap. A late answer to create or run navigates wherever the user
  is, and edits made meanwhile are lost. Choosing another item discards what was staged.
  Clearing the subscriptions and switching to periodic does not store it; emptied blocked
  sessions load as the default. A run is of the stored pipeline, though the comment before it
  speaks of staged edits.
- *Session.* Wrong credentials are a 401, for which the interceptor logs out; a late 401 of an
  old token ends the new session, which `SessionIsKept` allows; a late answer of
  `loadCurrentUser` sets the user after a logout.
- *Monitoring.* The refresh every five seconds drops the rows of "load more", and answers that
  overtake each other bring an older list back. The offset of "load more" counts the active rows
  that every answer contains, so rows are skipped (`B/api/v1/executions.py:404`,
  `monitoring.service.ts:34`). An automatic reconciliation is announced as "Monitoring resumed
  successfully"; "Realized P&L" adds unrealized profits; "Live Mode Exposure" counts ended
  trades. A P&L that is typed leaves the percentage; a price that is cleared leaves the P&L; a
  flat result is booked as cancelled. An approval answered after 10 seconds leaves the details
  of a monitored trade without refresh.
- *Report.* Agents without a start date sort before "Pipeline Started".
- *Chart.* "Merge stored + fresh candles, deduplicate by timestamp"
  (`trading-chart.component.ts:137`) compares texts: Oanda's candles end in `Z`, the row's in
  `+00:00`, and each is there twice. A chart that is left while it loads makes its widget all
  the same, and nobody removes it. Candles without a zone are drawn in local time, the trade in
  UTC. An open position has an "Exit" line at the last candle. A price that was written with
  HOLD is in the panel and nowhere else.
- *Approval page.* A failure is shown when only the answer was lost. "Uses raw HttpClient to
  bypass the JWT auth interceptor." (`approval.service.ts:5`) is not so: interceptors apply to
  it.
- *Backtests.* Executions and timeline of another run stay on show while theirs are loading, and
  for good when the other run's answer comes last (`LateExecutions`); a report of a run that is
  still RUNNING is kept for good; a launch dialog closed while launching leaves the new run
  unseen.
- *Lists.* "Execute now" and export, answered late, navigate wherever the user is; a change
  whose answer is lost leaves the list stale; a deletion's question about usage opens over any
  page. An answer to a strategy carries `has_voted` FALSE (`B/api/v1/strategies.py:43`); a
  summary cannot be cleared; a failed vote or submission shows nothing; a list that fails to
  load looks empty.
- *Settings.* "All schedule times are interpreted in this timezone."
  (`user-settings.component.html:151`): a timezone that was saved does not reach `currentUser$`
  (`auth.service.ts:72`), and one chosen before the user arrives is overwritten. A late answer
  overwrites the chat id that is typed; save and delete of it can overlap.
- *Dashboard.* "Auto-refresh every 30 seconds" (`dashboard.component.ts:98`) ends with the first
  one that fails, silently; an answer to a refresh by hand can bring older figures until the
  next tick; a request in flight survives leaving the page. Grid lines are computed for a height
  of 150 and curves for 135.

## 8. Not modelled

- Within the modelled parts of the backend: webhook trades; charts, reports and cost accounting;
  the recovery commit after a failed commit (the only place that compares `version`); pause,
  resume, stop and manual re-run of a pipeline; two rows of one symbol, except for the sketch in
  `Dispatcher`. The reconciliation's details call and its commit are one step.
- Planned parts: see section 6.
- In the replay: prices, metrics and costs (whether the cost limit is reached is a choice); the
  report's text; errors of the database and of Redis, which end the process like a crash; two
  orchestrators of one run, which the broker's visibility timeout of an hour makes possible for
  a run that takes longer. `engine.py` and `walk_forward.py` are a replay of their own over
  lists in memory, without state that outlives a call.
- In the client: the layout, texts, toasts and styles; the vendored charting library and its
  sample data feeds; landing, legal and how-it-works pages, which only show text; tables of
  tickers; the services' methods that nobody calls (`WebSocketService`,
  `MonitoringService.startPolling`, the tool detection); what a modelled page leaves out is in
  the comment at the head of its module. The iOS client is views over the same endpoints.
- Left out for good: the language-model agents (their outcome is a choice at the gate),
  indicator arithmetic of the signal generator, the data plane's cache, notifications and
  reports (errors are only logged).
- In the dispatcher: the cache refresh, ticker routing, and backtest signals, which go to a
  queue of their own.
