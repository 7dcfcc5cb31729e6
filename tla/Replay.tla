-------------------------------- MODULE Replay --------------------------------
(***************************************************************************)
(* A backtest run: the launch task, the orchestrator that replays the      *)
(* candles of a period, tick by tick and symbol by symbol, and the broker  *)
(* it trades with, whose books are keys in Redis.  The orchestrator may    *)
(* die between any two of its writes; a run that Celery delivers again     *)
(* goes on from the checkpoint that it saves after every step of a tick.   *)
(* Beside it the user, who may cancel.                                     *)
(*                                                                         *)
(* Prices are not modelled: of a position it is known which candle reaches *)
(* its stop or its target, of the cash which fees and results were booked  *)
(* into it.  Whether the costs are over their limit is a choice; the       *)
(* equity is left out, its curve is known by the candles it has a point    *)
(* for.  Timestamps are their places in the timeline.                      *)
(***************************************************************************)
EXTENDS Naturals, Sequences, FiniteSets, FiniteSetsExt

CONSTANTS
  MaxTicks,    \* bound on the timestamps of the replay
  MaxSymbols,  \* bound on the symbols of the run
  MaxGaps,     \* bound on the candles that a symbol lacks and another one has
  MaxTrades,   \* bound on the executions that open a position
  MaxCrashes   \* bound on crashes of the orchestrator's process

ASSUME ReplayAssumption ==
  /\ MaxTicks \in Nat \ {0} /\ MaxSymbols \in Nat \ {0}
  /\ MaxGaps \in Nat /\ MaxTrades \in Nat /\ MaxCrashes \in Nat

VARIABLES
  \* the period, the pipeline and the runtime: they do not change
  candles,     \* <<tick, symbol>> of the candles there are
  inside,      \* which ticks are inside the pipeline's schedule
  liquidates,  \* liquidate_on_deactivation
  redelivers,  \* the run is a Celery task (legacy_shared), not a container of its own
  matched,     \* what the signals of a tick match, none or one: it is asked for first
  \* the database
  status,      \* of the run
  curve,       \* its equity_curve
  rows,        \* executions
  outcomes,    \* executions whose row has the result of their trade
  \* Redis
  positions,   \* open position of a symbol
  trades,      \* closed trades, by their execution
  cash,        \* fees and results booked into the account
  checkpoint,
  \* processes
  queue,       \* the message of the run
  job,         \* the orchestrator
  cancelling,  \* the request to cancel
  \* history
  opened,      \* positions opened by an execution
  again,       \* a run that was over and had no checkpoint any more was delivered again
  crashes

givenVars == <<candles, inside, liquidates, redelivers>>
runVars == <<status, curve>>
rowVars == <<rows, outcomes>>
brokerVars == <<positions, trades, cash>>
histVars == <<opened, again, crashes>>
vars == <<givenVars, matched, runVars, rowVars, brokerVars, checkpoint, queue, job, cancelling,
          histVars>>

Ticks == 1 .. MaxTicks
Symbols == 1 .. MaxSymbols
Bars == Ticks \X Symbols

\* The id of an execution is computed from the run, the tick and the symbol.
Executions == Bars

\* exit: the tick whose candle reaches the stop or the target, 0 when none does.
Position == [of : Executions, exit : 0 .. MaxTicks]
NoPosition == [of |-> <<0, 0>>, exit |-> 0]

\* symbol: the last one that is done, 0 when the signals are dispatched.
Checkpoints == [tick : Ticks, symbol : 0 .. MaxSymbols, curve : Seq(Bars)]
NoCheckpoint == [tick |-> 0, symbol |-> 0, curve |-> <<>>]

\* resumed: the checkpoint that was loaded, until its tick is over.  todo: symbols to be
\* executed or liquidated.  synced: closed_trade_count.  was: previous_inside_window.
Jobs ==
  [pc : {"idle", "fetch", "tick", "liquidate", "traded", "booked", "sync", "dispatch", "execute",
         "agents", "charged", "opened", "bars", "record", "clear", "report"},
   tick : 0 .. MaxTicks, symbol : 0 .. MaxSymbols + 1, curve : Seq(Bars), synced : Nat,
   was : SUBSET BOOLEAN, resumed : Checkpoints \cup {NoCheckpoint},
   todo : SUBSET Symbols, next : {"idle", "liquidate", "dispatch", "record"}]
NoJob ==
  [pc |-> "idle", tick |-> 0, symbol |-> 0, curve |-> <<>>, synced |-> 0, was |-> {},
   resumed |-> NoCheckpoint, todo |-> {}, next |-> "idle"]

Timeline == {bar[1] : bar \in candles}
Current == <<job.tick, job.symbol>>

\* The next symbol with a candle at the tick, MaxSymbols + 1 when there is none.
NextSymbol(s) ==
  Min({n \in s + 1 .. MaxSymbols : <<job.tick, n>> \in candles} \cup {MaxSymbols + 1})

Held(e) == positions[e[2]] # NoPosition /\ positions[e[2]].of = e

\* The orchestrator's process is at pc, and only its own next step is taken.
At(pc) == job.pc = pc /\ UNCHANGED <<givenVars, queue, cancelling, again, crashes>>

-------------------------------------------------------------------------------
(* The life of a run                                                         *)

\* Whether the pipeline liquidates is told apart where a window closes.
Init ==
  /\ candles \in SUBSET Bars /\ \E n \in 0 .. MaxTicks : Timeline = 1 .. n
  /\ Cardinality((Timeline \X Symbols) \ candles) <= MaxGaps
  /\ inside \in [Ticks -> BOOLEAN] /\ redelivers \in BOOLEAN
  /\ liquidates \in BOOLEAN
  /\ liquidates => \E t \in Ticks : t + 1 \in Ticks /\ inside[t] /\ ~inside[t + 1]
  /\ matched = [t \in Ticks |-> {}]
  /\ status = "PENDING" /\ curve = <<>>
  /\ rows = [e \in Executions |-> "none"] /\ outcomes = {}
  /\ positions = [s \in Symbols |-> NoPosition] /\ trades = <<>>
  /\ cash = [e \in Executions |-> [fees |-> 0, results |-> 0]]
  /\ checkpoint = NoCheckpoint
  /\ queue = "launch" /\ job = NoJob /\ cancelling = "no"
  /\ opened = [e \in Executions |-> 0] /\ again = FALSE /\ crashes = 0

\* The launch task: it looks whether the run was cancelled, and reports what fails.
Launch ==
  /\ queue = "launch"
  /\ \/ queue' = (IF status = "CANCELLED" THEN "none" ELSE "run") /\ UNCHANGED status
     \/ status # "CANCELLED" /\ queue' = "none" /\ status' = "FAILED"
  /\ UNCHANGED <<givenVars, matched, curve, rowVars, brokerVars, checkpoint, job, cancelling,
                 histVars>>

\* The run is taken whatever its status is by now.
Start ==
  /\ queue = "run" /\ queue' = "taken"
  /\ status' = "RUNNING" /\ job' = [NoJob EXCEPT !.pc = "fetch"]
  /\ UNCHANGED <<givenVars, matched, curve, rowVars, brokerVars, checkpoint, cancelling,
                 histVars>>

\* The orchestrator is done, and its message acknowledged.
Stopped == job' = NoJob /\ queue' = "none"

\* An error of the data plane, the signal generator or an agent, whose row is failed first.
\* The run was loaded when it began, so that the test for a cancelled run says no.
Raises ==
  /\ job.pc \in {"fetch", "dispatch", "agents"}
  /\ status' = "FAILED" /\ Stopped
  /\ rows' = IF job.pc = "agents" THEN [rows EXCEPT ![Current] = "ended"] ELSE rows
  /\ UNCHANGED <<givenVars, matched, curve, outcomes, brokerVars, checkpoint, cancelling,
                 histVars>>

\* A worker that is lost gives the task back; a container is not started again.
Crash ==
  /\ job.pc # "idle" /\ crashes < MaxCrashes /\ crashes' = crashes + 1
  /\ job' = NoJob /\ queue' = (IF redelivers THEN "run" ELSE "none")
  /\ again' = (again \/ (job.pc = "report" /\ redelivers))
  /\ UNCHANGED <<givenVars, matched, runVars, rowVars, brokerVars, checkpoint, cancelling,
                 opened>>

-------------------------------------------------------------------------------
(* A tick: cancelled or not, inside the schedule or not                      *)

\* Mutant: the symbol of the checkpoint is replayed once more.
FetchAtSymbol ==
  /\ At("fetch") /\ Timeline # {}
  /\ job' = [job EXCEPT !.pc = "tick", !.curve = checkpoint.curve, !.synced = Len(trades),
                        !.resumed = [checkpoint EXCEPT !.symbol = IF @ = 0 THEN 0 ELSE @ - 1],
                        !.tick = IF checkpoint = NoCheckpoint THEN Min(Timeline)
                                 ELSE checkpoint.tick]
  /\ UNCHANGED <<matched, runVars, rowVars, brokerVars, checkpoint, opened>>

\* The candles are loaded; what comes before the checkpoint's tick is skipped.
Fetch ==
  /\ At("fetch") /\ Timeline # {}
  /\ job' = [job EXCEPT !.pc = "tick", !.curve = checkpoint.curve, !.synced = Len(trades),
                        !.resumed = checkpoint,
                        !.tick = IF checkpoint = NoCheckpoint THEN Min(Timeline)
                                 ELSE checkpoint.tick]
  /\ UNCHANGED <<matched, runVars, rowVars, brokerVars, checkpoint, opened>>

FetchNothing ==
  /\ job.pc = "fetch" /\ Timeline = {}
  /\ status' = "FAILED" /\ Stopped
  /\ UNCHANGED <<givenVars, matched, curve, rowVars, brokerVars, checkpoint, cancelling,
                 histVars>>

\* A cancelled run keeps its status, which the orchestrator's copy does not know.
Cancelled ==
  /\ At("tick") /\ status = "CANCELLED"
  /\ job' = [job EXCEPT !.pc = "clear"]
  /\ curve' = IF checkpoint.curve # <<>> THEN checkpoint.curve ELSE curve
  /\ UNCHANGED <<matched, status, rowVars, brokerVars, checkpoint, opened>>

\* The schedule's window closes with this tick: the first tick that is replayed, after a
\* restart too, has no previous one.
Closes == TRUE \in job.was /\ ~inside[job.tick]

\* Mutant: only what has a price at the tick is closed.
ToCloseAtPrice ==
  IF Closes /\ liquidates
  THEN {s \in Symbols : positions[s] # NoPosition /\ <<job.tick, s>> \in candles} ELSE {}

ToClose == IF Closes /\ liquidates THEN {s \in Symbols : positions[s] # NoPosition} ELSE {}

BeginTick ==
  /\ At("tick") /\ status # "CANCELLED"
  /\ job' = [job EXCEPT !.pc = IF ToClose # {} THEN "liquidate" ELSE "dispatch",
                        !.todo = ToClose, !.was = {inside[job.tick]}]
  /\ UNCHANGED <<matched, runVars, rowVars, brokerVars, checkpoint, opened>>

-------------------------------------------------------------------------------
(* Closing a position: three keys, written one after the other               *)

Closed(s, next) ==
  /\ trades' = Append(trades, positions[s].of)
  /\ job' = [job EXCEPT !.pc = "traded", !.symbol = s, !.todo = @ \ {s}, !.next = next]

Liquidate ==
  /\ At("liquidate") /\ \E s \in job.todo : Closed(s, "liquidate")
  /\ UNCHANGED <<matched, runVars, rowVars, positions, cash, checkpoint, opened>>

Liquidated ==
  /\ At("liquidate") /\ job.todo = {}
  /\ job' = [job EXCEPT !.pc = "sync", !.next = "dispatch"]
  /\ UNCHANGED <<matched, runVars, rowVars, brokerVars, checkpoint, opened>>

\* Mutant: the position is removed first, and the result comes with the row's.
BookResultAfter ==
  /\ At("traded") /\ job' = [job EXCEPT !.pc = "sync"]
  /\ positions' = [positions EXCEPT ![job.symbol] = NoPosition]
  /\ UNCHANGED <<matched, runVars, rowVars, cash, trades, checkpoint, opened>>

\* Mutant: with the wrong sign.
BookResultAsFee ==
  /\ At("traded") /\ job' = [job EXCEPT !.pc = "booked"]
  /\ cash' = [cash EXCEPT ![positions[job.symbol].of].results = @ - 1]
  /\ UNCHANGED <<matched, runVars, rowVars, positions, trades, checkpoint, opened>>

BookResult ==
  /\ At("traded") /\ job' = [job EXCEPT !.pc = "booked"]
  /\ cash' = [cash EXCEPT ![positions[job.symbol].of].results = @ + 1]
  /\ UNCHANGED <<matched, runVars, rowVars, positions, trades, checkpoint, opened>>

RemovePosition ==
  /\ At("booked")
  /\ job' = [job EXCEPT !.pc = IF job.next = "liquidate" THEN "liquidate" ELSE "sync"]
  /\ positions' = [positions EXCEPT ![job.symbol] = NoPosition]
  /\ UNCHANGED <<matched, runVars, rowVars, trades, cash, checkpoint, opened>>

\* The result of a trade goes to the row of its execution, for each one since the last look.
Sync ==
  /\ At("sync")
  /\ outcomes' = outcomes \cup {trades[job.synced + 1]}
  /\ job' = [job EXCEPT !.synced = @ + 1,
                        !.pc = IF job.synced + 1 = Len(trades) THEN job.next ELSE @]
  /\ UNCHANGED <<matched, runVars, rows, brokerVars, checkpoint, opened>>

-------------------------------------------------------------------------------
(* The signals of a tick                                                     *)

Dispatched == job.resumed # NoCheckpoint /\ job.resumed.tick = job.tick

\* The bars of the tick, from the first one that the checkpoint does not have.
Resume ==
  /\ At("dispatch") /\ Dispatched
  /\ job' = [job EXCEPT !.pc = "bars", !.symbol = NextSymbol(job.resumed.symbol)]
  /\ UNCHANGED <<matched, runVars, rowVars, brokerVars, checkpoint, opened>>

Saved(symbol, points) ==
  checkpoint' = [tick |-> job.tick, symbol |-> symbol, curve |-> points]

Skip ==
  /\ At("dispatch") /\ ~Dispatched /\ ~inside[job.tick]
  /\ Saved(0, job.curve) /\ job' = [job EXCEPT !.pc = "bars", !.symbol = NextSymbol(0)]
  /\ UNCHANGED <<matched, runVars, rowVars, brokerVars, opened>>

\* The same candles give the same signals, whenever they are asked for.
Match ==
  /\ At("dispatch") /\ ~Dispatched /\ inside[job.tick]
  /\ \E symbols \in SUBSET Symbols :
       /\ matched[job.tick] \subseteq {symbols}
       /\ matched' = [matched EXCEPT ![job.tick] = {symbols}]
       /\ job' = [job EXCEPT !.pc = "execute", !.todo = symbols]
  /\ UNCHANGED <<runVars, rowVars, brokerVars, checkpoint, opened>>

\* The pipeline of one symbol after the other: an execution that has ended is reused, one that
\* has not begins again.
Execute ==
  /\ At("execute")
  /\ \E s \in job.todo :
       IF rows[<<job.tick, s>>] = "ended"
       THEN job' = [job EXCEPT !.todo = @ \ {s}] /\ UNCHANGED rows
       ELSE /\ rows' = [rows EXCEPT ![<<job.tick, s>>] = "RUNNING"]
            /\ job' = [job EXCEPT !.pc = "agents", !.symbol = s, !.todo = @ \ {s}]
  /\ UNCHANGED <<matched, runVars, outcomes, brokerVars, checkpoint, opened>>

\* The trade manager: nothing is traded, or the position is opened, the fee first.
Ended(next) ==
  /\ job' = [job EXCEPT !.pc = next] /\ rows' = [rows EXCEPT ![Current] = "ended"]
  /\ UNCHANGED <<matched, runVars, outcomes, brokerVars, checkpoint, opened>>

NoTrade == At("agents") /\ Ended("execute")

ChargeFee ==
  /\ At("agents") /\ positions[job.symbol] = NoPosition
  /\ Cardinality({e \in Executions : cash[e].fees > 0} \cup {Current}) <= MaxTrades
  /\ cash' = [cash EXCEPT ![Current].fees = @ + 1]
  /\ job' = [job EXCEPT !.pc = "charged"]
  /\ UNCHANGED <<matched, runVars, rowVars, positions, trades, checkpoint, opened>>

OpenPosition ==
  /\ At("charged")
  /\ \E exit \in 0 .. MaxTicks :
       positions' = [positions EXCEPT ![job.symbol] = [of |-> Current, exit |-> exit]]
  /\ opened' = [opened EXCEPT ![Current] = @ + 1]
  /\ job' = [job EXCEPT !.pc = "opened"]
  /\ UNCHANGED <<matched, runVars, rowVars, trades, cash, checkpoint>>

EndExecution == At("opened") /\ Ended("execute")

CostLimitExceeded ==
  /\ At("execute") /\ job.todo = {} /\ matched[job.tick] # {{}}
  /\ status' = "FAILED" /\ curve' = IF checkpoint.curve # <<>> THEN checkpoint.curve ELSE curve
  /\ job' = [job EXCEPT !.pc = "clear"]
  /\ UNCHANGED <<matched, rowVars, brokerVars, checkpoint, opened>>

SaveDispatched ==
  /\ At("execute") /\ job.todo = {}
  /\ Saved(0, job.curve) /\ job' = [job EXCEPT !.pc = "bars", !.symbol = NextSymbol(0)]
  /\ UNCHANGED <<matched, runVars, rowVars, brokerVars, opened>>

-------------------------------------------------------------------------------
(* The candles of a tick, and the end                                        *)

Later == {t \in Timeline : t > job.tick}

\* The next tick; the checkpoint that was loaded is done with.
EndTick ==
  /\ At("bars") /\ job.symbol > MaxSymbols /\ Later # {}
  /\ job' = [job EXCEPT !.resumed = NoCheckpoint, !.pc = "tick", !.tick = Min(Later)]
  /\ UNCHANGED <<matched, runVars, rowVars, brokerVars, checkpoint, opened>>

\* The broker looks at the candle: the position of the symbol is closed or marked.
EvaluateBar ==
  /\ At("bars") /\ job.symbol \in Symbols
  /\ IF positions[job.symbol].exit = job.tick
       THEN Closed(job.symbol, "record")
       ELSE job' = [job EXCEPT !.pc = "record"] /\ UNCHANGED trades
  /\ UNCHANGED <<matched, runVars, rowVars, positions, cash, checkpoint, opened>>

RecordBar ==
  /\ At("record")
  /\ Saved(job.symbol, Append(job.curve, Current))
  /\ job' = [job EXCEPT !.pc = "bars", !.symbol = NextSymbol(@), !.curve = Append(@, Current)]
  /\ UNCHANGED <<matched, runVars, rowVars, brokerVars, opened>>

Complete ==
  /\ At("bars") /\ job.symbol > MaxSymbols /\ Later = {}
  /\ status' = "COMPLETED" /\ curve' = job.curve /\ job' = [job EXCEPT !.pc = "clear"]
  /\ UNCHANGED <<matched, rowVars, brokerVars, checkpoint, opened>>

ClearCheckpoint ==
  /\ At("clear") /\ checkpoint' = NoCheckpoint /\ job' = [job EXCEPT !.pc = "report"]
  /\ UNCHANGED <<matched, runVars, rowVars, brokerVars, opened>>

\* The report is written, if the run is completed, and the task is acknowledged.
Report ==
  /\ job.pc = "report" /\ Stopped
  /\ UNCHANGED <<givenVars, matched, runVars, rowVars, brokerVars, checkpoint, cancelling,
                 histVars>>

-------------------------------------------------------------------------------
(* The user                                                                  *)

\* The request loads the run, and looks whether there is a container to be stopped.
CancelRead ==
  /\ cancelling = "no" /\ status \in {"PENDING", "RUNNING"}
  /\ cancelling' = (IF status = "RUNNING" /\ ~redelivers THEN "stop" ELSE "commit")
  /\ UNCHANGED <<givenVars, matched, runVars, rowVars, brokerVars, checkpoint, queue, job,
                 histVars>>

\* It stops the container, or fails to, which is ignored, and commits.
CancelCommit ==
  /\ cancelling \in {"stop", "commit"} /\ cancelling' = "no" /\ status' = "CANCELLED"
  /\ \/ cancelling = "stop" /\ Stopped
     \/ UNCHANGED <<job, queue>>
  /\ UNCHANGED <<givenVars, matched, curve, rowVars, brokerVars, checkpoint, histVars>>

-------------------------------------------------------------------------------
(* The specification                                                         *)

Closing == Liquidate \/ Liquidated \/ BookResult \/ RemovePosition \/ Sync
Dispatching ==
  \/ Resume \/ Skip \/ Match \/ Execute \/ NoTrade \/ ChargeFee \/ OpenPosition \/ EndExecution
  \/ CostLimitExceeded \/ SaveDispatched
Replaying ==
  \/ Fetch \/ FetchNothing \/ Cancelled \/ BeginTick \/ EndTick \/ EvaluateBar
  \/ RecordBar \/ Complete \/ ClearCheckpoint \/ Report

Next ==
  \/ Launch \/ Start \/ Replaying \/ Dispatching \/ Closing
  \/ Raises \/ Crash \/ CancelRead \/ CancelCommit

Spec == Init /\ [][Next]_vars

-------------------------------------------------------------------------------
(* Properties                                                                *)

\* The variables keep their types.
GivenTypeOK ==
  /\ candles \in SUBSET Bars /\ inside \in [Ticks -> BOOLEAN]
  /\ liquidates \in BOOLEAN /\ redelivers \in BOOLEAN
  /\ matched \in [Ticks -> SUBSET SUBSET Symbols]

RunTypeOK ==
  /\ status \in {"PENDING", "RUNNING", "COMPLETED", "FAILED", "CANCELLED"}
  /\ curve \in Seq(Bars) /\ checkpoint \in Checkpoints \cup {NoCheckpoint}
  /\ rows \in [Executions -> {"none", "RUNNING", "ended"}] /\ outcomes \in SUBSET Executions
  /\ queue \in {"launch", "run", "taken", "none"} /\ cancelling \in {"no", "stop", "commit"}
  /\ again \in BOOLEAN /\ crashes \in 0 .. MaxCrashes

BooksTypeOK ==
  /\ positions \in [Symbols -> Position \cup {NoPosition}] /\ trades \in Seq(Executions)
  /\ cash \in [Executions -> [fees : Nat, results : Nat]] /\ opened \in [Executions -> Nat]

ReplayTypeOK == GivenTypeOK /\ RunTypeOK /\ BooksTypeOK /\ job \in Jobs

\* What a run that is COMPLETED shows is the whole period, every candle once and in order,
\* wherever the orchestrator died and went on (run_backtest, _save_checkpoint).
ReplayIsComplete ==
  status = "COMPLETED" =>
    /\ Len(curve) = Cardinality(candles)
    /\ {curve[i] : i \in DOMAIN curve} = candles
    /\ \A i, j \in DOMAIN curve :
         i < j => \/ curve[i][1] < curve[j][1]
                 \/ (curve[i][1] = curve[j][1] /\ curve[i][2] < curve[j][2])

Times(e) == Cardinality({i \in DOMAIN trades : trades[i] = e})

\* Nothing of the broker's books is lost, though an operation writes them key by key: what an
\* execution has opened is open, or it is among the trades with its result in the cash; its
\* fee is there from the start; and nothing is among the trades that was not opened.
BooksAreKept ==
  /\ \A e \in Executions :
       opened[e] > 0 =>
         /\ cash[e].fees >= opened[e]
         /\ Held(e) \/ (cash[e].results > 0 /\ \E i \in DOMAIN trades : trades[i] = e)
  /\ \A i \in DOMAIN trades : opened[trades[i]] > 0

\* Nor is anything traded twice: an execution that is run again after a crash opens no second
\* position, and without a crash a fee, a result and a trade are booked once, and the row of
\* the execution has the result of its trade when the next candle is looked at.
TradedOnce ==
  /\ \A e \in Executions : opened[e] <= 1
  /\ crashes = 0 =>
       \A e \in Executions :
         /\ cash[e].fees <= 1 /\ cash[e].results <= 1 /\ Times(e) <= 1
         /\ job.pc \in {"tick", "bars", "clear"} /\ Times(e) = 1 => e \in outcomes

\* The positions of a run are accounted for wherever its orchestrator dies.
PositionsAreAccounted == BooksAreKept /\ (~again => TradedOnce)

\* With liquidate_on_deactivation no position outlives the window it was opened in, wherever
\* the orchestrator died, which forgets previous_inside_window: none has a tick outside the
\* schedule between its own and the one on the checkpoint.
WindowClosesPositions ==
  liquidates =>
    \A s \in {t \in Symbols : positions[t] # NoPosition} :
      \A u \in Timeline : positions[s].of[1] < u /\ u <= checkpoint.tick => inside[u]
===============================================================================
