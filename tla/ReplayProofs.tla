------------------------------ MODULE ReplayProofs ------------------------------
(***************************************************************************)
(* Proofs about a backtest run, for any period, symbols, schedule, number  *)
(* of trades and of crashes: what the variables hold, that the broker's    *)
(* books are kept whatever write the orchestrator died after, that no      *)
(* position outlives the window of a pipeline that liquidates, that a      *)
(* completed run shows the whole period, and that nothing is traded twice. *)
(***************************************************************************)
EXTENDS Replay, TLAPS, WellFoundedInduction, FiniteSetTheorems

-------------------------------------------------------------------------------
(* Ticks and symbols                                                         *)

LEMMA MinIsLeast ==
  ASSUME NEW S \in SUBSET Nat, S # {}
  PROVE  Min(S) \in S /\ \A y \in S : Min(S) <= y
<1> DEFINE Less == {p \in Nat \X Nat : p[1] < p[2]}
<1>1. IsWellFoundedOn(Less, Nat)
  BY NatLessThanWellFounded, Zenon DEF OpToRel
<1>2. PICK x \in S : \A y \in S : <<y, x>> \notin Less
  <2> HIDE DEF Less
  <2> QED
    BY <1>1, WFMin
<1>3. \A y \in S : x <= y
  <2> TAKE y \in S
  <2>1. x < y \/ x = y \/ (<<y, x>> \in Nat \X Nat /\ <<y, x>>[1] < <<y, x>>[2])
    OBVIOUS
  <2>2. <<y, x>> \in Nat \X Nat /\ <<y, x>>[1] < <<y, x>>[2] => <<y, x>> \in Less
    BY Zenon
  <2> QED
    BY <1>2, <2>1, <2>2
<1> QED
  BY <1>3 DEF Min

LEMMA NextSymbolIsNext ==
  ASSUME ReplayAssumption, NEW s \in Nat, s <= MaxSymbols + 1
  PROVE  /\ NextSymbol(s) \in 1 .. MaxSymbols + 1
         /\ NextSymbol(s) \in Symbols => NextSymbol(s) > s
<1> DEFINE S == {n \in s + 1 .. MaxSymbols : <<job.tick, n>> \in candles} \cup {MaxSymbols + 1}
<1>1. S \in SUBSET Nat /\ S # {} /\ \A n \in S : n \in 1 .. MaxSymbols + 1
  BY DEF ReplayAssumption
<1>2. Min(S) \in S
  BY <1>1, MinIsLeast
<1>3. NextSymbol(s) = Min(S)
  BY DEF NextSymbol
<1> QED
  BY <1>1, <1>2, <1>3 DEF Symbols, ReplayAssumption
-------------------------------------------------------------------------------
(* Types                                                                     *)

\* What goes with the place the orchestrator is at: its tick and its symbol, the trades it has
\* not told the rows of, and the positions it is going to close.
Liquidating ==
  job.pc = "liquidate" \/ (job.pc \in {"traded", "booked"} /\ job.next = "liquidate")

JobOK ==
  /\ job.pc \notin {"idle", "fetch"} => job.tick \in Timeline
  /\ job.pc \in {"traded", "booked", "agents", "charged", "opened", "record"} =>
       job.symbol \in Symbols
  /\ job.pc # "idle" => job.synced <= Len(trades)
  /\ job.pc \in {"traded", "booked", "sync"} => job.synced < Len(trades)
  /\ job.pc = "liquidate" => job.todo # {} \/ job.synced < Len(trades)
  /\ job.pc \in {"traded", "booked"} =>
       /\ job.next \in {"liquidate", "record"} /\ job.symbol \notin job.todo
       /\ positions[job.symbol] # NoPosition
  /\ job.pc = "sync" => job.next = "dispatch" \/ (job.next = "record" /\ job.symbol \in Symbols)
  /\ Liquidating => \A s \in job.todo : positions[s] # NoPosition

TypeInv ==
  /\ ReplayTypeOK /\ JobOK
  /\ checkpoint # NoCheckpoint => checkpoint.tick \in Timeline

LEMMA TypeInitially == Init => TypeInv
<1> SUFFICES ASSUME Init PROVE TypeInv
  OBVIOUS
<1>1. NoJob \in Jobs
  BY ReplayAssumption DEF Jobs, NoJob, ReplayAssumption
<1>2. GivenTypeOK
  BY DEF Init, GivenTypeOK
<1>3. RunTypeOK
  <2>1. rows \in [Executions -> {"none", "RUNNING", "ended"}] /\ crashes \in 0 .. MaxCrashes
    BY ReplayAssumption DEF Init, ReplayAssumption
  <2>2. curve \in Seq(Bars)
    BY DEF Init
  <2> QED
    BY <2>1, <2>2 DEF Init, RunTypeOK
<1>4. BooksTypeOK
  BY DEF Init, BooksTypeOK
<1>5. JobOK
  BY DEF Init, JobOK, NoJob, Liquidating
<1> QED
  BY <1>1, <1>2, <1>3, <1>4, <1>5 DEF TypeInv, ReplayTypeOK, Init

-------------------------------------------------------------------------------
(* What a step may change                                                    *)

LEMMA Frame ==
  ASSUME Next
  PROVE  /\ UNCHANGED givenVars
         /\ Match \/ UNCHANGED matched
         /\ Cancelled \/ CostLimitExceeded \/ Complete \/ UNCHANGED curve
         /\ Raises \/ Execute \/ NoTrade \/ EndExecution \/ UNCHANGED rows
         /\ Sync \/ UNCHANGED outcomes
         /\ OpenPosition \/ RemovePosition \/ UNCHANGED positions
         /\ Liquidate \/ EvaluateBar \/ UNCHANGED trades
         /\ ChargeFee \/ BookResult \/ UNCHANGED cash
         /\ OpenPosition \/ UNCHANGED opened
         /\ Skip \/ SaveDispatched \/ RecordBar \/ ClearCheckpoint \/ UNCHANGED checkpoint
         /\ Crash \/ UNCHANGED <<again, crashes>>
<1> USE DEF givenVars, runVars, rowVars, brokerVars, histVars, At, Closed, Ended, Saved
<1>1. CASE Launch \/ Start \/ Raises \/ Crash \/ CancelRead \/ CancelCommit
  BY <1>1 DEF Launch, Start, Raises, Crash, CancelRead, CancelCommit
<1>2. CASE Replaying
  BY <1>2 DEF Replaying, Fetch, FetchNothing, Cancelled, BeginTick, EndTick, EvaluateBar,
              RecordBar, Complete, ClearCheckpoint, Report
<1>3. CASE Dispatching
  BY <1>3 DEF Dispatching, Resume, Skip, Match, Execute, NoTrade, ChargeFee, OpenPosition,
              EndExecution, CostLimitExceeded, SaveDispatched
<1>4. CASE Closing
  BY <1>4 DEF Closing, Liquidate, Liquidated, BookResult, RemovePosition, Sync
<1> QED
  BY <1>1, <1>2, <1>3, <1>4 DEF Next

-------------------------------------------------------------------------------
(* The orchestrator keeps its type                                           *)

LEMMA InTimeline ==
  ASSUME TypeInv
  PROVE  /\ Timeline \subseteq Ticks /\ Ticks \subseteq Nat /\ Symbols \subseteq Nat
         /\ NoJob \in Jobs /\ job \in Jobs
         /\ Timeline # {} => Min(Timeline) \in Timeline
         /\ Later # {} => Min(Later) \in Timeline
<1>1. Timeline \subseteq Ticks /\ Ticks \subseteq Nat /\ Symbols \subseteq Nat
  BY ReplayAssumption DEF TypeInv, ReplayTypeOK, GivenTypeOK, Timeline, Bars, Ticks, Symbols,
                          ReplayAssumption
<1>2. Timeline # {} => Min(Timeline) \in Timeline
  BY <1>1, MinIsLeast
<1>3. Later # {} => Min(Later) \in Timeline
  BY <1>1, MinIsLeast DEF Later
<1>4. NoJob \in Jobs
  BY ReplayAssumption DEF Jobs, NoJob, ReplayAssumption
<1> QED
  BY <1>1, <1>2, <1>3, <1>4 DEF TypeInv, ReplayTypeOK

LEMMA JobTyped == ASSUME TypeInv, Next PROVE job' \in Jobs
<1> USE DEF At, Stopped, Closed, Ended, Saved, Jobs
<1>a. /\ job \in Jobs /\ NoJob \in Jobs /\ Symbols \subseteq Nat
      /\ Timeline # {} => Min(Timeline) \in 0 .. MaxTicks
      /\ Later # {} => Min(Later) \in 0 .. MaxTicks
  BY InTimeline, ReplayAssumption DEF Ticks, ReplayAssumption
<1>b. \A s \in 0 .. MaxSymbols + 1 : NextSymbol(s) \in 0 .. MaxSymbols + 1
  BY NextSymbolIsNext, ReplayAssumption DEF ReplayAssumption
<1> USE <1>a, <1>b
<1>1. CASE Launch \/ Start \/ Raises \/ Crash \/ CancelRead \/ CancelCommit
  BY <1>1 DEF Launch, Start, Raises, Crash, CancelRead, CancelCommit
<1>2. CASE Replaying
  <2>1. CASE Fetch
    <3>1. checkpoint \in Checkpoints \cup {NoCheckpoint} /\ Len(trades) \in Nat
      BY DEF TypeInv, ReplayTypeOK, RunTypeOK, BooksTypeOK
    <3>2. checkpoint.curve \in Seq(Bars) /\ checkpoint.tick \in 0 .. MaxTicks
      <4>1. CASE checkpoint \in Checkpoints
        BY <4>1, ReplayAssumption DEF Checkpoints, Ticks, ReplayAssumption
      <4>2. CASE checkpoint = NoCheckpoint
        BY <4>2, ReplayAssumption DEF NoCheckpoint, ReplayAssumption
      <4> QED
        BY <3>1, <4>1, <4>2
    <3> QED
      BY <2>1, <3>1, <3>2 DEF Fetch
  <2>2. CASE BeginTick
    <3>1. ToClose \in SUBSET Symbols /\ {inside[job.tick]} \in SUBSET BOOLEAN
      BY <2>2, InTimeline DEF ToClose, BeginTick, JobOK, TypeInv, ReplayTypeOK, GivenTypeOK
    <3> QED
      BY <2>2, <3>1 DEF BeginTick
  <2>3. CASE EndTick
    BY <2>3 DEF EndTick, Ticks
  <2>4. CASE EvaluateBar
    <3>1. CASE job' = [job EXCEPT !.pc = "record"]
      BY <3>1
    <3>2. CASE job' = [job EXCEPT !.pc = "traded", !.symbol = job.symbol,
                                  !.todo = @ \ {job.symbol}, !.next = "record"]
      <4>1. job.symbol \in 0 .. MaxSymbols + 1 /\ job.todo \ {job.symbol} \in SUBSET Symbols
        OBVIOUS
      <4> QED
        BY <3>2, <4>1
    <3> QED
      BY <2>4, <3>1, <3>2 DEF EvaluateBar
  <2>5. CASE RecordBar
    <3>1. Current \in Bars
      BY <2>5, InTimeline DEF RecordBar, TypeInv, JobOK, Current, Bars
    <3>2. Append(job.curve, Current) \in Seq(Bars)
      BY <3>1
    <3> QED
      BY <2>5, <3>2 DEF RecordBar
  <2>6. CASE FetchNothing \/ Cancelled \/ Complete \/ ClearCheckpoint \/ Report
    BY SMTT(30), <2>6 DEF FetchNothing, Cancelled, Complete, ClearCheckpoint, Report
  <2> QED
    BY <1>2, <2>1, <2>2, <2>3, <2>4, <2>5, <2>6 DEF Replaying
<1>3. CASE Dispatching
  <2>1. CASE Resume
    <3>1. job.resumed.symbol \in 0 .. MaxSymbols + 1
      BY SMTT(30), <2>1, ReplayAssumption DEF Resume, Dispatched, Checkpoints, ReplayAssumption
    <3> QED
      BY <2>1, <3>1 DEF Resume
  <2>2. CASE Skip \/ SaveDispatched
    <3>1. job' = [job EXCEPT !.pc = "bars", !.symbol = NextSymbol(0)]
      BY <2>2 DEF Skip, SaveDispatched
    <3>2. NextSymbol(0) \in 0 .. MaxSymbols + 1
      BY ReplayAssumption DEF ReplayAssumption
    <3> QED
      BY <3>1, <3>2
  <2>3. CASE Match
    <3>1. PICK symbols \in SUBSET Symbols : job' = [job EXCEPT !.pc = "execute", !.todo = symbols]
      BY <2>3 DEF Match
    <3> QED
      BY <3>1
  <2>4. CASE Execute
    <3>1. PICK s \in job.todo :
            \/ job' = [job EXCEPT !.todo = @ \ {s}]
            \/ job' = [job EXCEPT !.pc = "agents", !.symbol = s, !.todo = @ \ {s}]
      BY <2>4 DEF Execute
    <3>2. s \in 0 .. MaxSymbols + 1 /\ job.todo \ {s} \in SUBSET Symbols
      BY ReplayAssumption DEF Symbols, ReplayAssumption
    <3>3. CASE job' = [job EXCEPT !.todo = @ \ {s}]
      BY <3>2, <3>3
    <3>4. CASE job' = [job EXCEPT !.pc = "agents", !.symbol = s, !.todo = @ \ {s}]
      BY <3>2, <3>4
    <3> QED
      BY <3>1, <3>3, <3>4
  <2>5. CASE NoTrade \/ ChargeFee \/ OpenPosition \/ EndExecution \/ CostLimitExceeded
    BY SMTT(30), <2>5 DEF NoTrade, ChargeFee, OpenPosition, EndExecution, CostLimitExceeded
  <2> QED
    BY <1>3, <2>1, <2>2, <2>3, <2>4, <2>5 DEF Dispatching
<1>4. CASE Closing
  <2>1. CASE Liquidate
    <3>1. PICK s \in job.todo : job' = [job EXCEPT !.pc = "traded", !.symbol = s,
                                                  !.todo = @ \ {s}, !.next = "liquidate"]
      BY <2>1 DEF Liquidate
    <3>2. s \in 0 .. MaxSymbols + 1 /\ job.todo \ {s} \in SUBSET Symbols
      BY ReplayAssumption DEF Symbols, ReplayAssumption
    <3> QED
      BY <3>1, <3>2
  <2>2. CASE Liquidated
    BY <2>2 DEF Liquidated
  <2>3. CASE BookResult
    BY <2>3 DEF BookResult
  <2>4. CASE RemovePosition
    BY <2>4 DEF RemovePosition
  <2>5. CASE Sync
    <3>1. PICK n \in Nat : n = job.synced + 1
      OBVIOUS
    <3>2. job' = [job EXCEPT !.synced = n, !.pc = "sync"]
          \/ job' = [job EXCEPT !.synced = n, !.pc = job.next]
      BY <2>5, <3>1 DEF Sync
    <3> QED
      BY ZenonT(30), <3>2
  <2> QED
    BY <1>4, <2>1, <2>2, <2>3, <2>4, <2>5 DEF Closing
<1> QED
  BY <1>1, <1>2, <1>3, <1>4 DEF Next

-------------------------------------------------------------------------------
(* The other variables keep theirs                                           *)

LEMMA CurrentIsBar ==
  ASSUME TypeInv, job.pc \in {"agents", "charged", "opened", "record"}
  PROVE  Current \in Bars /\ job.tick \in Ticks /\ job.symbol \in Symbols
BY InTimeline DEF TypeInv, JobOK, Current, Bars

LEMMA GivenTyped == ASSUME TypeInv, Next PROVE GivenTypeOK'
<1>1. GivenTypeOK
  BY DEF TypeInv, ReplayTypeOK
<1>2. UNCHANGED givenVars
  BY Frame
<1>3. matched' \in [Ticks -> SUBSET SUBSET Symbols]
  <2>1. CASE Match
    <3>1. PICK symbols \in SUBSET Symbols : matched' = [matched EXCEPT ![job.tick] = {symbols}]
      BY <2>1 DEF Match
    <3>2. {symbols} \in SUBSET SUBSET Symbols
      OBVIOUS
    <3> QED
      BY <1>1, <3>1, <3>2 DEF GivenTypeOK
  <2>2. CASE UNCHANGED matched
    BY <1>1, <2>2 DEF GivenTypeOK
  <2> QED
    BY <2>1, <2>2, Frame
<1> QED
  BY <1>1, <1>2, <1>3 DEF GivenTypeOK, givenVars

LEMMA CheckpointTyped ==
  ASSUME TypeInv, Next
  PROVE  /\ checkpoint' \in Checkpoints \cup {NoCheckpoint}
         /\ checkpoint' # NoCheckpoint => checkpoint'.tick \in Timeline'
<1>1. checkpoint \in Checkpoints \cup {NoCheckpoint} /\ job.curve \in Seq(Bars)
  BY InTimeline DEF TypeInv, ReplayTypeOK, RunTypeOK, Jobs
<1>2. Timeline' = Timeline
  BY Frame DEF givenVars, Timeline
<1>3. CASE Skip \/ SaveDispatched
  <2>1. job.tick \in Timeline /\ job.tick \in Ticks
    BY <1>3, InTimeline DEF Skip, SaveDispatched, At, TypeInv, JobOK
  <2>2. checkpoint' = [tick |-> job.tick, symbol |-> 0, curve |-> job.curve]
    BY <1>3 DEF Skip, SaveDispatched, Saved
  <2> QED
    BY <1>1, <1>2, <2>1, <2>2, ReplayAssumption DEF Checkpoints, ReplayAssumption
<1>4. CASE RecordBar
  <2>1. job.tick \in Timeline /\ job.tick \in Ticks /\ job.symbol \in 0 .. MaxSymbols
    BY <1>4, InTimeline, ReplayAssumption
       DEF RecordBar, At, TypeInv, JobOK, Symbols, ReplayAssumption
  <2>2. Append(job.curve, Current) \in Seq(Bars)
    BY <1>1, <1>4, CurrentIsBar DEF RecordBar, At
  <2>3. checkpoint' = [tick |-> job.tick, symbol |-> job.symbol,
                       curve |-> Append(job.curve, Current)]
    BY <1>4 DEF RecordBar, Saved
  <2> QED
    BY <1>2, <2>1, <2>2, <2>3 DEF Checkpoints
<1>5. CASE ClearCheckpoint
  BY <1>5 DEF ClearCheckpoint
<1>6. CASE UNCHANGED checkpoint
  BY <1>1, <1>2, <1>6 DEF TypeInv
<1> QED
  BY <1>3, <1>4, <1>5, <1>6, Frame

LEMMA RunTyped == ASSUME TypeInv, Next PROVE RunTypeOK'
<1>1. RunTypeOK /\ job \in Jobs /\ trades \in Seq(Executions)
  BY DEF TypeInv, ReplayTypeOK, BooksTypeOK
<1>2. curve' \in Seq(Bars)
  <2>1. curve \in Seq(Bars) /\ job.curve \in Seq(Bars) /\ checkpoint.curve \in Seq(Bars)
    <3>1. CASE checkpoint \in Checkpoints
      BY <1>1, <3>1 DEF RunTypeOK, Jobs, Checkpoints
    <3>2. CASE checkpoint = NoCheckpoint
      BY <1>1, <3>2 DEF RunTypeOK, Jobs, NoCheckpoint
    <3> QED
      BY <1>1, <3>1, <3>2 DEF RunTypeOK
  <2> QED
    BY <2>1, Frame DEF Cancelled, CostLimitExceeded, Complete
<1>3. rows' \in [Executions -> {"none", "RUNNING", "ended"}]
  BY <1>1, Frame DEF Raises, Execute, NoTrade, EndExecution, Ended, RunTypeOK
<1>4. outcomes' \in SUBSET Executions
  <2>1. CASE Sync
    <3>1. job.synced + 1 \in DOMAIN trades
      BY <1>1, <2>1 DEF Sync, At, TypeInv, JobOK, Jobs
    <3> QED
      BY <1>1, <2>1, <3>1 DEF Sync, RunTypeOK
  <2>2. CASE UNCHANGED outcomes
    BY <1>1, <2>2 DEF RunTypeOK
  <2> QED
    BY <2>1, <2>2, Frame
<1>5. again' \in BOOLEAN /\ crashes' \in 0 .. MaxCrashes
  <2>1. crashes' \in 0 .. MaxCrashes
    BY <1>1, Frame, ReplayAssumption DEF Crash, RunTypeOK, ReplayAssumption
  <2>2. CASE Crash
    BY <2>1, <2>2 DEF Crash
  <2>3. CASE UNCHANGED again
    BY <1>1, <2>1, <2>3 DEF RunTypeOK
  <2> QED
    BY <2>2, <2>3, Frame
<1>6. /\ status' \in {"PENDING", "RUNNING", "COMPLETED", "FAILED", "CANCELLED"}
      /\ queue' \in {"launch", "run", "taken", "none"} /\ cancelling' \in {"no", "stop", "commit"}
  <2> USE <1>1 DEF RunTypeOK, runVars, Stopped, At, Ended
  <2>1. CASE Launch \/ Start \/ Raises \/ Crash \/ CancelRead \/ CancelCommit
    BY <2>1 DEF Launch, Start, Raises, Crash, CancelRead, CancelCommit
  <2>2. CASE Replaying
    BY <2>2 DEF Replaying, Fetch, FetchNothing, Cancelled, BeginTick, EndTick, EvaluateBar,
                RecordBar, Complete, ClearCheckpoint, Report
  <2>3. CASE Dispatching
    BY <2>3 DEF Dispatching, Resume, Skip, Match, Execute, NoTrade, ChargeFee, OpenPosition,
                EndExecution, CostLimitExceeded, SaveDispatched
  <2>4. CASE Closing
    BY <2>4 DEF Closing, Liquidate, Liquidated, BookResult, RemovePosition, Sync
  <2> QED
    BY <2>1, <2>2, <2>3, <2>4 DEF Next
<1> QED
  BY <1>2, <1>3, <1>4, <1>5, <1>6, CheckpointTyped DEF RunTypeOK

\* A trade is appended for a position that there is.
LEMMA ClosesPosition ==
  ASSUME TypeInv, Next
  PROVE  \/ /\ UNCHANGED trades /\ ~Liquidate
            /\ EvaluateBar => job' = [job EXCEPT !.pc = "record"]
         \/ \E s \in Symbols, next \in {"liquidate", "record"} :
              /\ positions[s] \in Position /\ Closed(s, next) /\ UNCHANGED positions
              /\ next = "liquidate" => Liquidate /\ s \in job.todo
              /\ next = "record" => EvaluateBar /\ s = job.symbol
<1>1. /\ positions \in [Symbols -> Position \cup {NoPosition}] /\ job.todo \subseteq Symbols
      /\ job \in Jobs
  BY DEF TypeInv, ReplayTypeOK, BooksTypeOK, Jobs
<1>2. CASE Liquidate
  <2>1. PICK s \in job.todo : Closed(s, "liquidate")
    BY <1>2 DEF Liquidate
  <2>2. positions[s] \in Position
    BY <1>1, <1>2 DEF Liquidate, At, TypeInv, JobOK, Liquidating
  <2> QED
    BY <1>1, <1>2, <2>1, <2>2 DEF Liquidate
<1>3. CASE EvaluateBar /\ positions[job.symbol].exit = job.tick
  <2>1. job.symbol \in Symbols /\ job.tick # 0
    BY <1>3, InTimeline DEF EvaluateBar, At, TypeInv, JobOK, Ticks
  <2>2. positions[job.symbol] \in Position
    BY <1>1, <1>3, <2>1 DEF NoPosition
  <2> QED
    BY <1>3, <2>1, <2>2 DEF EvaluateBar
<1>4. CASE EvaluateBar /\ positions[job.symbol].exit # job.tick
  BY <1>4 DEF EvaluateBar, Liquidate, At
<1> QED
  BY <1>2, <1>3, <1>4, Frame

LEMMA BooksTyped == ASSUME TypeInv, Next PROVE BooksTypeOK'
<1>1. BooksTypeOK
  BY DEF TypeInv, ReplayTypeOK
<1>2. positions' \in [Symbols -> Position \cup {NoPosition}]
  <2>1. CASE OpenPosition
    <3>1. PICK exit \in 0 .. MaxTicks :
            positions' = [positions EXCEPT ![job.symbol] = [of |-> Current, exit |-> exit]]
      BY <2>1 DEF OpenPosition
    <3>2. [of |-> Current, exit |-> exit] \in Position
      BY <2>1, CurrentIsBar DEF OpenPosition, At, Position, Executions
    <3> QED
      BY <1>1, <3>1, <3>2 DEF BooksTypeOK
  <2>2. CASE RemovePosition
    BY <1>1, <2>2 DEF RemovePosition, BooksTypeOK
  <2>3. CASE UNCHANGED positions
    BY <1>1, <2>3 DEF BooksTypeOK
  <2> QED
    BY <2>1, <2>2, <2>3, Frame
<1>3. trades' \in Seq(Executions)
  <2>1. CASE \E s \in Symbols, next \in {"liquidate", "record"} :
              positions[s] \in Position /\ Closed(s, next)
    <3>1. PICK s \in Symbols :
            positions[s].of \in Executions /\ trades' = Append(trades, positions[s].of)
      BY <2>1 DEF Closed, Position
    <3> QED
      BY <1>1, <3>1 DEF BooksTypeOK
  <2>2. CASE UNCHANGED trades
    BY <1>1, <2>2 DEF BooksTypeOK
  <2> QED
    BY <2>1, <2>2, ClosesPosition
<1>4. cash' \in [Executions -> [fees : Nat, results : Nat]]
  <2>1. CASE ChargeFee
    <3>1. cash[Current] \in [fees : Nat, results : Nat]
      BY <1>1, <2>1, CurrentIsBar DEF ChargeFee, At, BooksTypeOK, Executions
    <3>2. [cash[Current] EXCEPT !.fees = @ + 1] \in [fees : Nat, results : Nat]
      BY <3>1
    <3> QED
      BY <1>1, <2>1, <3>2 DEF ChargeFee, BooksTypeOK
  <2>2. CASE BookResult
    <3> DEFINE e == positions[job.symbol].of
    <3>1. cash[e] \in [fees : Nat, results : Nat]
      BY <1>1, <2>2 DEF BookResult, At, TypeInv, JobOK, BooksTypeOK, Position
    <3>2. [cash[e] EXCEPT !.results = @ + 1] \in [fees : Nat, results : Nat]
      BY <3>1
    <3> QED
      BY <1>1, <2>2, <3>2 DEF BookResult, BooksTypeOK
  <2>3. CASE UNCHANGED cash
    BY <1>1, <2>3 DEF BooksTypeOK
  <2> QED
    BY <2>1, <2>2, <2>3, Frame
<1>5. opened' \in [Executions -> Nat]
  <2>1. CASE OpenPosition
    <3>1. opened[Current] + 1 \in Nat
      BY <1>1, <2>1, CurrentIsBar DEF OpenPosition, At, BooksTypeOK, Executions
    <3> QED
      BY <1>1, <2>1, <3>1 DEF OpenPosition, BooksTypeOK
  <2>2. CASE UNCHANGED opened
    BY <1>1, <2>2 DEF BooksTypeOK
  <2> QED
    BY <2>1, <2>2, Frame
<1> QED
  BY <1>2, <1>3, <1>4, <1>5 DEF BooksTypeOK

-------------------------------------------------------------------------------
(* What goes with the orchestrator's place                                   *)

LEMMA PlaceKept == ASSUME TypeInv, Next PROVE JobOK'
<1>1. /\ JobOK /\ job \in Jobs /\ trades \in Seq(Executions) /\ Len(trades) \in Nat
      /\ job.synced \in Nat /\ Timeline' = Timeline
      /\ Timeline # {} => Min(Timeline) \in Timeline
      /\ Later # {} => Min(Later) \in Timeline
  <2>1. JobOK /\ job \in Jobs /\ trades \in Seq(Executions)
    BY DEF TypeInv, ReplayTypeOK, BooksTypeOK
  <2>2. Timeline' = Timeline
    BY Frame DEF givenVars, Timeline
  <2> QED
    BY <2>1, <2>2, InTimeline DEF Jobs
<1> USE <1>1 DEF JobOK, Liquidating, At, Stopped, Ended, brokerVars
<1>2. CASE Launch \/ Start \/ Raises \/ Crash \/ CancelRead \/ CancelCommit
  BY <1>2 DEF Launch, Start, Raises, Crash, CancelRead, CancelCommit, NoJob
<1>3. CASE Replaying
  <2>1. CASE Fetch
    BY <2>1 DEF Fetch, Jobs, TypeInv
  <2>2. CASE FetchNothing \/ Report
    BY <2>2 DEF FetchNothing, Report, NoJob
  <2>3. CASE Cancelled \/ Complete \/ ClearCheckpoint
    BY <2>3 DEF Cancelled, Complete, ClearCheckpoint, Jobs
  <2>4. CASE BeginTick
    BY <2>4 DEF BeginTick, Jobs, ToClose
  <2>5. CASE EndTick
    BY <2>5 DEF EndTick, Jobs
  <2>6. CASE EvaluateBar
    <3>1. CASE positions[job.symbol].exit = job.tick
      <4>1. positions[job.symbol] # NoPosition
        BY <2>6, <3>1, InTimeline DEF EvaluateBar, NoPosition, Ticks
      <4>2. Len(trades') = Len(trades) + 1
        BY <2>6, <3>1, BooksTyped DEF EvaluateBar, Closed, BooksTypeOK
      <4>3. /\ job'.pc = "traded" /\ job'.next = "record" /\ job'.tick = job.tick
            /\ job'.symbol = job.symbol /\ job'.synced = job.synced
            /\ job'.todo = job.todo \ {job.symbol}
        BY <2>6, <3>1 DEF EvaluateBar, Closed, Jobs
      <4> QED
        BY <2>6, <4>1, <4>2, <4>3 DEF EvaluateBar
    <3>2. CASE positions[job.symbol].exit # job.tick
      BY <2>6, <3>2 DEF EvaluateBar, Jobs
    <3> QED
      BY <3>1, <3>2
  <2>7. CASE RecordBar
    BY <2>7 DEF RecordBar, Jobs
  <2> QED
    BY <1>3, <2>1, <2>2, <2>3, <2>4, <2>5, <2>6, <2>7 DEF Replaying
<1>4. CASE Dispatching
  <2>1. CASE Resume \/ Skip \/ SaveDispatched
    BY ZenonT(30), <2>1 DEF Resume, Skip, SaveDispatched, Jobs
  <2>2. CASE Match
    BY <2>2 DEF Match, Jobs
  <2>3. CASE Execute
    BY ZenonT(30), <2>3 DEF Execute, Jobs
  <2>4. CASE NoTrade \/ EndExecution \/ CostLimitExceeded
    BY <2>4 DEF NoTrade, EndExecution, CostLimitExceeded, Jobs
  <2>5. CASE ChargeFee
    BY <2>5 DEF ChargeFee, Jobs
  <2>6. CASE OpenPosition
    BY <2>6 DEF OpenPosition, Jobs
  <2> QED
    BY <1>4, <2>1, <2>2, <2>3, <2>4, <2>5, <2>6 DEF Dispatching
<1>5. CASE Closing
  <2>1. CASE Liquidate
    <3>1. PICK s \in job.todo : Closed(s, "liquidate")
      BY <2>1 DEF Liquidate
    <3>2. Len(trades') = Len(trades) + 1 /\ s \in Symbols /\ positions[s] # NoPosition
      BY <2>1, <3>1, BooksTyped DEF Liquidate, Closed, BooksTypeOK, Jobs
    <3> QED
      BY <2>1, <3>1, <3>2 DEF Liquidate, Closed, Jobs
  <2>2. CASE Liquidated
    BY <2>2 DEF Liquidated, Jobs
  <2>3. CASE BookResult
    BY <2>3 DEF BookResult, Jobs
  <2>4. CASE RemovePosition
    BY <2>4 DEF RemovePosition, Jobs
  <2>5. CASE Sync
    BY <2>5 DEF Sync, Jobs
  <2> QED
    BY <1>5, <2>1, <2>2, <2>3, <2>4, <2>5 DEF Closing
<1> QED
  BY <1>2, <1>3, <1>4, <1>5 DEF Next

LEMMA TypeStep == TypeInv /\ [Next]_vars => TypeInv'
<1>1. ASSUME TypeInv, Next PROVE TypeInv'
  BY <1>1, JobTyped, GivenTyped, CheckpointTyped, RunTyped, BooksTyped, PlaceKept
     DEF TypeInv, ReplayTypeOK
<1>2. ASSUME TypeInv, UNCHANGED vars PROVE TypeInv'
  BY <1>2 DEF TypeInv, ReplayTypeOK, GivenTypeOK, RunTypeOK, BooksTypeOK, JobOK, Liquidating,
              Timeline, vars, givenVars, runVars, rowVars, brokerVars, histVars
<1> QED
  BY <1>1, <1>2

\* The model of a run keeps its types, for any number of ticks, symbols, trades and crashes:
\* the orchestrator is inside the period wherever it goes on, and looks for no trade that there
\* is none of (run_backtest, _sync_closed_trades).
THEOREM ReplayTypes == Spec => []ReplayTypeOK
<1>1. Spec => []TypeInv
  BY TypeInitially, TypeStep, PTL DEF Spec
<1>2. TypeInv => ReplayTypeOK
  BY DEF TypeInv
<1> QED
  BY <1>1, <1>2, PTL

-------------------------------------------------------------------------------
(* The broker's books                                                        *)

Traded(e) == \E i \in DOMAIN trades : trades[i] = e

\* A position that is closed is among the trades before its result is booked, and its result is
\* booked before it is removed; a fee is charged before its position is opened.
BooksInv ==
  /\ \A e \in Executions : cash[e].fees >= opened[e]
  /\ \A i \in DOMAIN trades : opened[trades[i]] > 0
  /\ \A s \in Symbols : positions[s] # NoPosition =>
       positions[s].of[2] = s /\ opened[positions[s].of] > 0
  /\ \A e \in Executions : opened[e] > 0 => Held(e) \/ (cash[e].results > 0 /\ Traded(e))
  /\ job.pc = "charged" =>
       cash[Current].fees >= opened[Current] + 1 /\ positions[job.symbol] = NoPosition
  /\ job.pc \in {"traded", "booked"} => Traded(positions[job.symbol].of)
  /\ job.pc = "booked" => cash[positions[job.symbol].of].results > 0

\* Most steps write none of the books, and do not get the orchestrator between two writes.
LEMMA BooksFrame ==
  ASSUME TypeInv, Next
  PROVE  \/ ChargeFee \/ OpenPosition \/ BookResult \/ RemovePosition
         \/ \E s \in Symbols, next \in {"liquidate", "record"} :
              positions[s] \in Position /\ Closed(s, next) /\ UNCHANGED <<positions, cash, opened>>
         \/ /\ UNCHANGED <<positions, trades, cash, opened>>
            /\ UNCHANGED job \/ job'.pc \notin {"charged", "traded", "booked"}
<1> SUFFICES ASSUME ~(ChargeFee \/ OpenPosition \/ BookResult \/ RemovePosition)
             PROVE  \/ \E s \in Symbols, next \in {"liquidate", "record"} :
                         /\ positions[s] \in Position /\ Closed(s, next)
                         /\ UNCHANGED <<positions, cash, opened>>
                    \/ /\ UNCHANGED <<positions, trades, cash, opened>>
                       /\ UNCHANGED job \/ job'.pc \notin {"charged", "traded", "booked"}
  OBVIOUS
<1>1. UNCHANGED <<positions, cash, opened>>
  BY Frame
<1>2. CASE /\ UNCHANGED trades /\ ~Liquidate
           /\ EvaluateBar => job' = [job EXCEPT !.pc = "record"]
  <2> DEFINE Quiet == UNCHANGED job \/ job'.pc \notin {"charged", "traded", "booked"}
  <2>1. job \in Jobs /\ JobOK
    BY DEF TypeInv, ReplayTypeOK
  <2>2. CASE Launch \/ Start \/ Raises \/ Crash \/ CancelRead \/ CancelCommit
    <3>1. Quiet
      BY <2>2 DEF Launch, Start, Raises, Crash, CancelRead, CancelCommit, Stopped, NoJob
    <3> QED
      BY <1>1, <1>2, <3>1
  <2>3. CASE Replaying
    <3>1. ASSUME EvaluateBar PROVE Quiet
      BY <1>2, <2>1, <3>1 DEF Jobs
    <3>2. ASSUME ~EvaluateBar PROVE Quiet
      <4> USE <2>1 DEF At, Stopped, NoJob, Jobs
      <4>1. ASSUME Fetch PROVE Quiet
        BY <4>1 DEF Fetch
      <4>2. ASSUME BeginTick PROVE Quiet
        BY <4>2 DEF BeginTick
      <4>3. ASSUME EndTick \/ RecordBar PROVE Quiet
        BY <4>3 DEF EndTick, RecordBar
      <4>4. ASSUME FetchNothing \/ Cancelled \/ Complete \/ ClearCheckpoint \/ Report
            PROVE  Quiet
        BY <4>4 DEF FetchNothing, Cancelled, Complete, ClearCheckpoint, Report
      <4> QED
        BY <2>3, <3>2, <4>1, <4>2, <4>3, <4>4 DEF Replaying
    <3>3. Quiet
      BY <3>1, <3>2
    <3> QED
      BY <1>1, <1>2, <3>3
  <2>4. CASE Dispatching
    <3>1. Quiet
      BY <2>1, <2>4 DEF Dispatching, Resume, Skip, Match, Execute, NoTrade, EndExecution,
           CostLimitExceeded, SaveDispatched, At, Ended, Jobs
    <3> QED
      BY <1>1, <1>2, <3>1
  <2>5. CASE Closing
    <3>1. Quiet
      BY <1>2, <2>1, <2>5 DEF Closing, Liquidated, Sync, At, Jobs, JobOK
    <3> QED
      BY <1>1, <1>2, <3>1
  <2> QED
    BY <2>2, <2>3, <2>4, <2>5 DEF Next
<1> QED
  BY <1>1, <1>2, ClosesPosition

LEMMA BooksClosing ==
  ASSUME TypeInv, BooksInv, Next,
         NEW s \in Symbols, NEW next, positions[s] \in Position, Closed(s, next),
         UNCHANGED <<positions, cash, opened>>
  PROVE  BooksInv'
<1> DEFINE x == positions[s].of
<1>1. x \in Executions /\ x[2] = s /\ opened[x] > 0 /\ trades \in Seq(Executions)
  <2>1. x \in Executions /\ x # <<0, 0>>
    BY InTimeline DEF Position, Executions, Bars, Ticks
  <2>2. positions[s] # NoPosition
    BY <2>1 DEF NoPosition
  <2> QED
    BY <2>1, <2>2 DEF BooksInv, TypeInv, ReplayTypeOK, BooksTypeOK
<1>2. /\ DOMAIN trades' = DOMAIN trades \cup {Len(trades) + 1}
      /\ \A i \in DOMAIN trades : trades'[i] = trades[i]
      /\ trades'[Len(trades) + 1] = x
  BY <1>1 DEF Closed
<1>3. job'.pc = "traded" /\ job'.symbol = s
  BY InTimeline DEF Closed, Jobs
<1>4. Traded(x)' /\ \A e \in Executions : Traded(e) => Traded(e)'
  BY <1>2 DEF Traded
<1>5. \A e \in Executions : Held(e)' <=> Held(e)
  BY DEF Held
<1>6. \A i \in DOMAIN trades' : opened[trades'[i]] > 0
  BY <1>1, <1>2 DEF BooksInv
<1> QED
  BY <1>1, <1>3, <1>4, <1>5, <1>6 DEF BooksInv

LEMMA BooksStep == TypeInv /\ BooksInv /\ [Next]_vars => BooksInv'
<1>1. ASSUME TypeInv, BooksInv, Next PROVE BooksInv'
  <2> USE <1>1
  <2>a. BooksTypeOK /\ job \in Jobs
    BY DEF TypeInv, ReplayTypeOK
  <2>1. CASE ChargeFee
    <3>1. /\ Current \in Executions /\ Current' = Current /\ job'.symbol = job.symbol
          /\ job'.pc = "charged" /\ UNCHANGED <<positions, trades, opened>>
      BY <2>1, <2>a, CurrentIsBar, Frame DEF ChargeFee, At, Executions, Current, Jobs
    <3>2. /\ cash'[Current].fees = cash[Current].fees + 1
          /\ \A e \in Executions : cash'[e].results = cash[e].results
          /\ \A e \in Executions \ {Current} : cash'[e] = cash[e]
      BY <2>1, <2>a, <3>1 DEF ChargeFee, BooksTypeOK
    <3>3. \A e \in Executions : Held(e)' = Held(e) /\ Traded(e)' = Traded(e)
      BY <3>1 DEF Held, Traded
    <3>4. \A e \in Executions : cash[e].fees \in Nat /\ opened[e] \in Nat
      BY <2>a DEF BooksTypeOK
    <3> QED
      BY <2>1, <3>1, <3>2, <3>3, <3>4 DEF BooksInv, ChargeFee
  <2>2. CASE OpenPosition
    <3>1. PICK exit \in 0 .. MaxTicks :
            positions' = [positions EXCEPT ![job.symbol] = [of |-> Current, exit |-> exit]]
      BY <2>2 DEF OpenPosition
    <3>2. /\ Current \in Executions /\ Current # <<0, 0>> /\ job.symbol \in Symbols
          /\ Current[2] = job.symbol /\ job'.pc = "opened" /\ UNCHANGED <<trades, cash>>
      BY <2>2, <2>a, CurrentIsBar, Frame, InTimeline
         DEF OpenPosition, At, Executions, Current, Jobs, Ticks
    <3>3. /\ opened'[Current] = opened[Current] + 1
          /\ \A e \in Executions \ {Current} : opened'[e] = opened[e]
      BY <2>2, <2>a, <3>2 DEF OpenPosition, BooksTypeOK
    <3>4. /\ positions'[job.symbol].of = Current /\ positions'[job.symbol] # NoPosition
          /\ \A s \in Symbols \ {job.symbol} : positions'[s] = positions[s]
          /\ positions[job.symbol] = NoPosition
      BY <2>2, <2>a, <3>1, <3>2 DEF NoPosition, BooksTypeOK, BooksInv, OpenPosition, At
    <3>5. \A e \in Executions : opened[e] \in Nat /\ e[2] \in Symbols /\ Traded(e)' = Traded(e)
      BY <2>a, <3>2 DEF BooksTypeOK, Executions, Bars, Traded
    <3>6. \A e \in Executions : opened'[e] > 0 =>
            Held(e)' \/ (cash'[e].results > 0 /\ Traded(e)')
      BY <3>2, <3>3, <3>4, <3>5 DEF BooksInv, Held
    <3>7. \A e \in Executions : cash'[e].fees >= opened'[e]
      BY <2>2, <3>2, <3>3 DEF BooksInv, OpenPosition, At
    <3>a. opened'[Current] > 0 /\ \A e \in Executions : opened[e] > 0 => opened'[e] > 0
      BY <3>2, <3>3, <3>5
    <3>8. ASSUME NEW s \in Symbols, positions'[s] # NoPosition
          PROVE  positions'[s].of[2] = s /\ opened'[positions'[s].of] > 0
      <4>1. CASE s = job.symbol
        BY <3>2, <3>4, <3>a, <4>1
      <4>2. CASE s # job.symbol
        <5>1. positions[s].of \in Executions
          BY <2>a, <3>4, <3>8, <4>2 DEF BooksTypeOK, Position
        <5> QED
          BY <3>4, <3>8, <3>a, <4>2, <5>1 DEF BooksInv
      <4> QED
        BY <4>1, <4>2
    <3>9. ASSUME NEW i \in DOMAIN trades' PROVE opened'[trades'[i]] > 0
      <4>1. trades[i] \in Executions /\ trades'[i] = trades[i] /\ i \in DOMAIN trades
        BY <2>a, <3>2 DEF BooksTypeOK
      <4> QED
        BY <3>a, <4>1 DEF BooksInv
    <3> QED
      BY <3>2, <3>6, <3>7, <3>8, <3>9 DEF BooksInv
  <2>3. CASE BookResult
    <3> DEFINE x == positions[job.symbol].of
    <3>1. /\ x \in Executions /\ job'.pc = "booked" /\ job'.symbol = job.symbol
          /\ job.pc = "traded" /\ UNCHANGED <<positions, trades, opened>>
      BY <2>3, <2>a, Frame DEF BookResult, At, Jobs, TypeInv, JobOK, BooksTypeOK, Position
    <3>2. /\ cash'[x].results > 0
          /\ \A e \in Executions : cash'[e].fees = cash[e].fees
          /\ \A e \in Executions : cash[e].results > 0 => cash'[e].results > 0
      BY <2>3, <2>a, <3>1 DEF BookResult, BooksTypeOK
    <3>3. \A e \in Executions : Held(e)' = Held(e) /\ Traded(e)' = Traded(e)
      BY <3>1 DEF Held, Traded
    <3> QED
      BY <3>1, <3>2, <3>3 DEF BooksInv
  <2>4. CASE RemovePosition
    <3>1. /\ job.pc = "booked" /\ job.symbol \in Symbols /\ job'.pc \in {"liquidate", "sync"}
          /\ UNCHANGED <<trades, cash, opened>>
      BY <2>4, <2>a, Frame DEF RemovePosition, At, Jobs, TypeInv, JobOK
    <3>2. /\ positions'[job.symbol] = NoPosition
          /\ \A s \in Symbols \ {job.symbol} : positions'[s] = positions[s]
      BY <2>4, <2>a, <3>1 DEF RemovePosition, BooksTypeOK
    <3>3. \A e \in Executions : e[2] \in Symbols /\ Traded(e)' = Traded(e)
      BY <3>1 DEF Executions, Bars, Traded
    <3>4. \A e \in Executions : opened'[e] > 0 =>
            Held(e)' \/ (cash'[e].results > 0 /\ Traded(e)')
      BY <3>1, <3>2, <3>3 DEF BooksInv, Held
    <3> QED
      BY <3>1, <3>2, <3>3, <3>4 DEF BooksInv
  <2>5. ASSUME NEW s \in Symbols, NEW next \in {"liquidate", "record"},
               positions[s] \in Position, Closed(s, next), UNCHANGED <<positions, cash, opened>>
        PROVE  BooksInv'
    BY <2>5, BooksClosing
  <2>6. CASE /\ UNCHANGED <<positions, trades, cash, opened>>
             /\ UNCHANGED job \/ job'.pc \notin {"charged", "traded", "booked"}
    BY <2>6 DEF BooksInv, Held, Traded, Current
  <2> QED
    BY <2>1, <2>2, <2>3, <2>4, <2>5, <2>6, BooksFrame
<1>2. ASSUME BooksInv, UNCHANGED vars PROVE BooksInv'
  BY <1>2 DEF BooksInv, Held, Traded, Current, vars, brokerVars, histVars
<1> QED
  BY <1>1, <1>2

\* Whatever write the orchestrator dies after, nothing that an execution has opened is lost
\* from the books, and nothing is among the trades that was not opened; for any number of
\* ticks, symbols, trades and crashes (BacktestBroker.open_position, _close_position).
THEOREM ReplayBooks == Spec => []BooksAreKept
<1>1. Init => BooksInv
  BY DEF Init, BooksInv, NoJob
<1>2. TypeInv /\ BooksInv => BooksAreKept
  BY DEF BooksInv, BooksAreKept, Traded
<1>3. Spec => [](TypeInv /\ BooksInv)
  BY <1>1, TypeInitially, TypeStep, BooksStep, PTL DEF Spec
<1> QED
  BY <1>2, <1>3, PTL

-------------------------------------------------------------------------------
(* The window of the schedule                                                *)

Open == {s \in Symbols : positions[s] # NoPosition}

\* No open position has a tick outside the schedule between its own and n.
Covered(n) ==
  \A s \in Open : \A u \in Timeline : positions[s].of[1] < u /\ u <= n => inside[u]

\* The orchestrator is at work on a tick, whose positions are liquidated if they have to be.
InTick == job.pc \notin {"idle", "fetch", "tick", "clear", "report"}

\* What the orchestrator knows of the window.
PlaceInv ==
  /\ job.pc = "fetch" => job.was = {}
  /\ InTick => job.was = {inside[job.tick]}
  /\ job.pc \in {"execute", "agents", "charged", "opened"} => inside[job.tick]
  /\ job.pc \notin {"idle", "fetch"} => checkpoint.tick <= job.tick

OpenInv == \A s \in Open : positions[s].of[1] \in Timeline /\ inside[positions[s].of[1]]

\* What is open while positions are liquidated is going to be closed.
ClosingInv ==
  Liquidating =>
    \A s \in Open : s \in job.todo \/ (job.pc \in {"traded", "booked"} /\ s = job.symbol)

Follows(t, p) == p < t /\ \A u \in Timeline : p < u => t <= u

CoverInv ==
  liquidates =>
    /\ Covered(checkpoint.tick)
    /\ InTick /\ ~Liquidating => Covered(job.tick)
    /\ job.pc = "tick" =>
         \/ job.was = {} /\ Covered(job.tick)
         \/ \E p \in Timeline : Follows(job.tick, p) /\ job.was = {inside[p]} /\ Covered(p)

WindowInv == PlaceInv /\ OpenInv /\ ClosingInv /\ CoverInv

LEMMA Givens ==
  ASSUME TypeInv, Next
  PROVE  /\ UNCHANGED <<candles, inside, liquidates>> /\ Timeline' = Timeline
         /\ job \in Jobs /\ job.tick \in Nat /\ JobOK
         /\ checkpoint.tick \in Nat
<1>1. checkpoint.tick \in Nat
  <2>1. CASE checkpoint \in Checkpoints
    BY <2>1, InTimeline DEF Checkpoints
  <2>2. CASE checkpoint = NoCheckpoint
    BY <2>2 DEF NoCheckpoint
  <2> QED
    BY <2>1, <2>2 DEF TypeInv, ReplayTypeOK, RunTypeOK
<1> QED
  BY <1>1, InTimeline, Frame DEF givenVars, Timeline, TypeInv, Jobs

LEMMA Goes ==
  ASSUME job \in Jobs, JobOK
  PROVE  /\ Fetch \/ EndTick => job'.pc = "tick"
         /\ FetchNothing \/ Report => job'.pc = "idle"
         /\ Cancelled \/ Complete => job'.pc = "clear"
         /\ ClearCheckpoint => job'.pc = "report"
         /\ RecordBar => job'.pc = "bars"
         /\ Sync => job.pc = "sync" /\ job'.pc \in {"sync", "dispatch", "record"}
<1> USE DEF At, Stopped
<1>1. Fetch => job'.pc = "tick"
  BY DEF Fetch, Jobs
<1>2. EndTick => job'.pc = "tick"
  BY DEF EndTick, Jobs
<1>3. FetchNothing \/ Report => job'.pc = "idle"
  BY DEF FetchNothing, Report, NoJob
<1>4. Cancelled => job'.pc = "clear"
  BY DEF Cancelled, Jobs
<1>5. Complete => job'.pc = "clear"
  BY DEF Complete, Jobs
<1>6. ClearCheckpoint => job'.pc = "report"
  BY DEF ClearCheckpoint, Jobs
<1>7. RecordBar => job'.pc = "bars"
  BY DEF RecordBar, Jobs
<1>8. ASSUME Sync PROVE job.pc = "sync" /\ job'.pc \in {"sync", "dispatch", "record"}
  <2>1. job.pc = "sync" /\ job.next \in {"dispatch", "record"}
    BY <1>8 DEF Sync, JobOK
  <2>2. job'.pc = "sync" \/ job'.pc = job.next
    BY <1>8, <2>1 DEF Sync, Jobs
  <2> QED
    BY <2>1, <2>2
<1> QED
  BY <1>1, <1>2, <1>3, <1>4, <1>5, <1>6, <1>7, <1>8

LEMMA PlaceStep == ASSUME TypeInv, PlaceInv, Next PROVE PlaceInv'
<1>1. /\ UNCHANGED inside /\ job \in Jobs /\ JobOK /\ job.tick \in Nat /\ checkpoint.tick \in Nat
      /\ Timeline # {} => Min(Timeline) \in Nat
      /\ \A t \in Later : t \in Nat /\ t > job.tick
      /\ Later # {} => Min(Later) \in Later
  BY Givens, InTimeline, MinIsLeast DEF Later
<1> USE <1>1 DEF PlaceInv, InTick, At, Stopped, Ended, Saved
<1>2. CASE Launch \/ Start \/ Raises \/ Crash \/ CancelRead \/ CancelCommit
  BY <1>2 DEF Launch, Start, Raises, Crash, CancelRead, CancelCommit, NoJob
<1>3. CASE Replaying
  <2>1. CASE Fetch
    BY <2>1 DEF Fetch, Jobs, NoCheckpoint
  <2>2. CASE FetchNothing \/ Report
    BY <2>2 DEF FetchNothing, Report, NoJob
  <2>3. CASE Cancelled \/ Complete
    BY <2>3 DEF Cancelled, Complete, Jobs
  <2>4. CASE ClearCheckpoint
    BY <2>4 DEF ClearCheckpoint, Jobs, NoCheckpoint
  <2>5. CASE BeginTick
    BY <2>5 DEF BeginTick, Jobs
  <2>6. CASE EndTick
    BY <2>6 DEF EndTick, Jobs
  <2>7. CASE EvaluateBar
    BY ZenonT(30), <2>7 DEF EvaluateBar, Closed, Jobs
  <2>8. CASE RecordBar
    BY <2>8 DEF RecordBar, Jobs
  <2> QED
    BY <1>3, <2>1, <2>2, <2>3, <2>4, <2>5, <2>6, <2>7, <2>8 DEF Replaying
<1>4. CASE Dispatching
  <2>1. CASE Resume
    BY <2>1 DEF Resume, Jobs
  <2>2. CASE Skip
    BY <2>2 DEF Skip, Jobs
  <2>3. CASE Match
    BY <2>3 DEF Match, Jobs
  <2>4. CASE Execute
    BY <2>4 DEF Execute, Jobs
  <2>5. CASE ChargeFee \/ OpenPosition
    BY <2>5 DEF ChargeFee, OpenPosition, Jobs
  <2>6. CASE SaveDispatched
    BY <2>6 DEF SaveDispatched, Jobs
  <2>7. CASE NoTrade
    BY <2>7 DEF NoTrade, Jobs
  <2>8. CASE EndExecution
    BY <2>8 DEF EndExecution, Jobs
  <2>9. CASE CostLimitExceeded
    BY <2>9 DEF CostLimitExceeded, Jobs
  <2> QED
    BY <1>4, <2>1, <2>2, <2>3, <2>4, <2>5, <2>6, <2>7, <2>8, <2>9 DEF Dispatching
<1>5. CASE Closing
  <2>1. CASE Liquidate
    BY <2>1 DEF Liquidate, Closed, Jobs
  <2>2. CASE Liquidated \/ BookResult \/ RemovePosition
    BY <2>2 DEF Liquidated, BookResult, RemovePosition, Jobs
  <2>3. CASE Sync
    BY <2>3 DEF Sync, Jobs
  <2> QED
    BY <1>5, <2>1, <2>2, <2>3 DEF Closing
<1> QED
  BY <1>2, <1>3, <1>4, <1>5 DEF Next

\* A position is opened at the tick, and otherwise they only become fewer.
LEMMA OpenOnly ==
  ASSUME TypeInv, Next
  PROVE  /\ \A s \in Open' : (s \in Open /\ positions'[s] = positions[s])
                             \/ (OpenPosition /\ positions'[s].of = Current)
         /\ ~OpenPosition => Open' \subseteq Open
<1>1. positions \in [Symbols -> Position \cup {NoPosition}]
  BY DEF TypeInv, ReplayTypeOK, BooksTypeOK
<1>2. CASE OpenPosition
  <2>1. PICK exit \in 0 .. MaxTicks :
          positions' = [positions EXCEPT ![job.symbol] = [of |-> Current, exit |-> exit]]
    BY <1>2 DEF OpenPosition
  <2> QED
    BY <1>1, <1>2, <2>1 DEF Open
<1>3. CASE RemovePosition
  <2>1. positions' = [positions EXCEPT ![job.symbol] = NoPosition]
    BY <1>3 DEF RemovePosition
  <2> QED
    BY <1>1, <2>1 DEF Open
<1>4. CASE UNCHANGED positions
  BY <1>4 DEF Open
<1> QED
  BY <1>2, <1>3, <1>4, Frame

LEMMA OpenStep == ASSUME TypeInv, PlaceInv, OpenInv, Next PROVE OpenInv'
<1>1. OpenPosition => Current[1] \in Timeline /\ inside[Current[1]]
  BY Givens DEF OpenPosition, At, Current, JobOK, PlaceInv
<1> QED
  BY <1>1, Givens, OpenOnly DEF OpenInv

\* Covered after the step.
CoveredNext(n) ==
  \A s \in Open' : \A u \in Timeline : positions'[s].of[1] < u /\ u <= n => inside[u]

LEMMA CoveredKept ==
  ASSUME TypeInv, Next, NEW n \in Nat, Covered(n), OpenPosition => n <= job.tick
  PROVE  CoveredNext(n)
<1> SUFFICES ASSUME NEW s \in Open', NEW u \in Timeline, positions'[s].of[1] < u, u <= n
             PROVE  inside[u]
  BY DEF CoveredNext
<1>1. CASE s \in Open /\ positions'[s] = positions[s]
  BY <1>1 DEF Covered
<1>2. CASE OpenPosition /\ positions'[s].of = Current
  BY <1>2, Givens, InTimeline DEF Current
<1> QED
  BY <1>1, <1>2, OpenOnly

LEMMA ClosingStep == ASSUME TypeInv, ClosingInv, Next PROVE ClosingInv'
<1>1. job \in Jobs /\ JobOK
  BY Givens
<1> USE <1>1 DEF Liquidating, At, Stopped, Ended
<1>2. CASE Launch \/ Start \/ Raises \/ Crash \/ CancelRead \/ CancelCommit
  BY <1>2 DEF Launch, Start, Raises, Crash, CancelRead, CancelCommit, NoJob, ClosingInv,
              brokerVars, Open
<1>3. CASE Replaying
  <2>1. CASE BeginTick
    BY <2>1 DEF BeginTick, ToClose, Jobs, ClosingInv, brokerVars, Open
  <2>2. CASE EvaluateBar
    <3>1. ~Liquidating'
      BY <2>2 DEF EvaluateBar, Closed, Jobs
    <3> QED
      BY <3>1 DEF ClosingInv
  <2>3. CASE Fetch \/ FetchNothing \/ Cancelled \/ EndTick
    <3>1. ~Liquidating'
      BY <2>3, Goes
    <3> QED
      BY <3>1 DEF ClosingInv
  <2>4. CASE RecordBar \/ Complete \/ ClearCheckpoint \/ Report
    <3>1. ~Liquidating'
      BY <2>4, Goes
    <3> QED
      BY <3>1 DEF ClosingInv
  <2> QED
    BY <1>3, <2>1, <2>2, <2>3, <2>4 DEF Replaying
<1>4. CASE Dispatching
  <2>1. ~Liquidating'
    BY <1>4 DEF Dispatching, Resume, Skip, Match, Execute, NoTrade, ChargeFee, OpenPosition,
                EndExecution, CostLimitExceeded, SaveDispatched, Jobs
  <2> QED
    BY <2>1 DEF ClosingInv
<1>5. CASE Closing
  <2>1. CASE Liquidate
    <3>1. PICK s \in job.todo : Closed(s, "liquidate")
      BY <2>1 DEF Liquidate
    <3>2. job'.pc = "traded" /\ job'.symbol = s /\ job'.todo = job.todo \ {s}
      BY <3>1 DEF Closed, Jobs
    <3>3. Open' = Open /\ job.pc = "liquidate"
      BY <2>1 DEF Liquidate, Open
    <3> QED
      BY <3>2, <3>3 DEF ClosingInv
  <2>2. CASE Liquidated
    <3>1. ~Liquidating'
      BY <2>2 DEF Liquidated, Jobs
    <3> QED
      BY <3>1 DEF ClosingInv
  <2>3. CASE BookResult
    <3>1. /\ job'.pc = "booked" /\ job'.next = job.next /\ job'.symbol = job.symbol
          /\ job'.todo = job.todo /\ job.pc = "traded" /\ Open' = Open
      BY <2>3 DEF BookResult, Jobs, Open
    <3> QED
      BY <3>1 DEF ClosingInv
  <2>4. CASE RemovePosition
    <3>1. /\ job'.next = job.next /\ job'.todo = job.todo /\ job.pc = "booked"
          /\ job'.pc = IF job.next = "liquidate" THEN "liquidate" ELSE "sync"
      BY <2>4 DEF RemovePosition, Jobs
    <3>2. Open' = Open \ {job.symbol}
      BY <2>4 DEF RemovePosition, Open, TypeInv, ReplayTypeOK, BooksTypeOK
    <3> QED
      BY <3>1, <3>2 DEF ClosingInv
  <2>5. CASE Sync
    <3>1. ~Liquidating'
      BY <2>5, Goes
    <3> QED
      BY <3>1 DEF ClosingInv
  <2> QED
    BY <1>5, <2>1, <2>2, <2>3, <2>4, <2>5 DEF Closing
<1> QED
  BY <1>2, <1>3, <1>4, <1>5 DEF Next

\* Where the orchestrator is in a tick, from the step before.
LEMMA IntoTick ==
  ASSUME TypeInv, Next, (InTick /\ ~Liquidating)'
  PROVE  \/ BeginTick /\ ToClose = {} /\ job'.tick = job.tick
         \/ Liquidated /\ job'.tick = job.tick
         \/ InTick /\ ~Liquidating /\ job'.tick = job.tick
<1>1. job \in Jobs /\ JobOK
  BY Givens
<1> USE <1>1 DEF InTick, Liquidating, At, Stopped, Ended
<1>2. CASE Launch \/ Start \/ Raises \/ Crash \/ CancelRead \/ CancelCommit
  BY <1>2 DEF Launch, Start, Raises, Crash, CancelRead, CancelCommit, NoJob
<1>3. CASE Replaying
  <2>1. CASE BeginTick
    BY <2>1 DEF BeginTick, Jobs
  <2>2. CASE EvaluateBar
    BY <2>2 DEF EvaluateBar, Closed, Jobs
  <2>3. CASE RecordBar
    BY <2>3 DEF RecordBar, Jobs
  <2>4. CASE Fetch \/ FetchNothing \/ Cancelled \/ EndTick
    BY <2>4, Goes
  <2>5. CASE Complete \/ ClearCheckpoint \/ Report
    BY <2>5, Goes
  <2> QED
    BY <1>3, <2>1, <2>2, <2>3, <2>4, <2>5 DEF Replaying
<1>4. CASE Dispatching
  <2>1. /\ job.pc \in {"dispatch", "execute", "agents", "charged", "opened"}
        /\ job'.tick = job.tick
    BY <1>4 DEF Dispatching, Resume, Skip, Match, Execute, NoTrade, ChargeFee, OpenPosition,
                EndExecution, CostLimitExceeded, SaveDispatched, Jobs
  <2> QED
    BY <2>1
<1>5. CASE Closing
  <2>1. CASE Liquidate
    BY <2>1 DEF Liquidate, Closed, Jobs
  <2>2. CASE Liquidated
    BY <2>2 DEF Liquidated, Jobs
  <2>3. CASE BookResult
    BY <2>3 DEF BookResult, Jobs
  <2>4. CASE RemovePosition
    BY <2>4 DEF RemovePosition, Jobs
  <2>5. CASE Sync
    BY <2>5 DEF Sync, Jobs
  <2> QED
    BY <1>5, <2>1, <2>2, <2>3, <2>4, <2>5 DEF Closing
<1> QED
  BY <1>2, <1>3, <1>4, <1>5 DEF Next

\* How the orchestrator gets to the beginning of a tick.
LEMMA ToTick ==
  ASSUME TypeInv, Next, job'.pc = "tick"
  PROVE  Fetch \/ EndTick \/ UNCHANGED <<job, positions>>
<1>1. job \in Jobs /\ JobOK
  BY Givens
<1> USE <1>1 DEF At, Stopped, Ended, Closed, brokerVars
<1>2. CASE Launch \/ Start \/ Raises \/ Crash \/ CancelRead \/ CancelCommit
  BY <1>2 DEF Launch, Start, Raises, Crash, CancelRead, CancelCommit, NoJob
<1>3. CASE Replaying
  <2>1. CASE BeginTick
    BY <2>1 DEF BeginTick, Jobs
  <2>2. CASE EvaluateBar
    BY <2>2 DEF EvaluateBar, Jobs
  <2>3. CASE Cancelled \/ RecordBar \/ Complete \/ ClearCheckpoint
    BY <2>3, Goes
  <2>4. CASE FetchNothing \/ Report
    BY <2>4, Goes
  <2> QED
    BY <1>3, <2>1, <2>2, <2>3, <2>4 DEF Replaying
<1>4. CASE Dispatching
  BY <1>4 DEF Dispatching, Resume, Skip, Match, Execute, NoTrade, ChargeFee, OpenPosition,
              EndExecution, CostLimitExceeded, SaveDispatched, Jobs
<1>5. CASE Closing
  BY <1>5 DEF Closing, Liquidate, Liquidated, BookResult, RemovePosition, Sync, Jobs
<1> QED
  BY <1>2, <1>3, <1>4, <1>5 DEF Next

\* What is saved on the checkpoint is the tick that the orchestrator is in.
LEMMA Saving ==
  ASSUME TypeInv, Next
  PROVE  \/ UNCHANGED checkpoint
         \/ checkpoint'.tick = 0
         \/ checkpoint'.tick = job.tick /\ InTick /\ ~Liquidating /\ UNCHANGED positions
<1>1. CASE Skip \/ SaveDispatched \/ RecordBar
  BY <1>1 DEF Skip, SaveDispatched, RecordBar, At, Saved, InTick, Liquidating, brokerVars
<1>2. CASE ClearCheckpoint
  BY <1>2 DEF ClearCheckpoint, NoCheckpoint
<1> QED
  BY <1>1, <1>2, Frame

\* A tick begins, and what was open before has no tick outside the window up to this one,
\* unless it is liquidated now.
LEMMA CoveredAtTick ==
  ASSUME TypeInv, OpenInv, CoverInv, liquidates, BeginTick, ToClose = {}
  PROVE  Covered(job.tick)
<1>1. /\ job.pc = "tick" /\ job.tick \in Timeline /\ Timeline \subseteq Nat
      /\ inside \in [Ticks -> BOOLEAN] /\ Timeline \subseteq Ticks
  BY InTimeline DEF BeginTick, At, TypeInv, JobOK, ReplayTypeOK, GivenTypeOK
<1>2. CASE Closes
  BY <1>2 DEF ToClose, Covered, Open
<1>3. CASE ~Closes /\ job.was = {} /\ Covered(job.tick)
  BY <1>3
<1>4. ASSUME ~Closes,
             NEW p \in Timeline, Follows(job.tick, p), job.was = {inside[p]}, Covered(p)
      PROVE  Covered(job.tick)
  <2> SUFFICES ASSUME NEW s \in Open, NEW u \in Timeline,
                      positions[s].of[1] < u, u <= job.tick
               PROVE  inside[u]
    BY DEF Covered
  <2>1. CASE u <= p
    BY <1>4, <2>1 DEF Covered
  <2>2. CASE u > p /\ inside[job.tick]
    <3>1. u = job.tick
      BY <1>1, <1>4, <2>2 DEF Follows
    <3> QED
      BY <2>2, <3>1
  <2>3. CASE u > p /\ ~inside[job.tick]
    <3>1. ~inside[p]
      BY <1>1, <1>4, <2>3 DEF Closes
    <3>2. positions[s].of[1] \in Timeline /\ inside[positions[s].of[1]]
      BY DEF OpenInv
    <3>3. positions[s].of[1] <= p
      <4>1. positions[s].of[1] \in Nat /\ p \in Nat /\ u \in Nat /\ job.tick \in Nat
        BY <1>1, <3>2
      <4>2. positions[s].of[1] < job.tick
        BY <4>1
      <4>3. p < positions[s].of[1] => job.tick <= positions[s].of[1]
        BY <1>4, <3>2 DEF Follows
      <4> QED
        BY <4>1, <4>2, <4>3
    <3>4. positions[s].of[1] # p
      BY <3>1, <3>2
    <3>5. inside[p]
      <4>1. positions[s].of[1] < p /\ p <= p
        <5>1. positions[s].of[1] \in Nat /\ p \in Nat
          BY <1>1, <3>2
        <5> QED
          BY <3>3, <3>4, <5>1
      <4> QED
        BY <1>4, <4>1 DEF Covered
    <3> QED
      BY <3>1, <3>5
  <2> QED
    BY <1>1, <2>1, <2>2, <2>3
<1> QED
  BY <1>1, <1>2, <1>3, <1>4 DEF CoverInv

LEMMA CoverStep == ASSUME TypeInv, WindowInv, Next PROVE CoverInv'
<1> SUFFICES ASSUME liquidates
             PROVE  /\ CoveredNext(checkpoint'.tick)
                    /\ InTick' /\ ~Liquidating' => CoveredNext(job'.tick)
                    /\ job'.pc = "tick" =>
                         \/ job'.was = {} /\ CoveredNext(job'.tick)
                         \/ \E p \in Timeline :
                              Follows(job'.tick, p) /\ job'.was = {inside[p]} /\ CoveredNext(p)
  BY Givens, Zenon DEF CoverInv, Covered, CoveredNext, Follows
<1>a. /\ job \in Jobs /\ job.tick \in Nat /\ JobOK /\ checkpoint.tick \in Nat
      /\ Timeline \subseteq Nat
      /\ Covered(checkpoint.tick) /\ (InTick /\ ~Liquidating => Covered(job.tick))
  BY Givens, InTimeline DEF WindowInv, CoverInv
<1>b. \A s \in Open' : positions'[s].of[1] \in Timeline
  BY OpenStep, Givens DEF WindowInv, OpenInv
<1>c. UNCHANGED positions => \A n : Covered(n) => CoveredNext(n)
  BY DEF Covered, CoveredNext, Open
<1>1. CoveredNext(checkpoint'.tick)
  <2>1. CASE UNCHANGED checkpoint
    <3>1. OpenPosition => checkpoint.tick <= job.tick
      BY DEF OpenPosition, At, WindowInv, PlaceInv
    <3>2. CoveredNext(checkpoint.tick)
      BY <1>a, <3>1, CoveredKept
    <3> QED
      BY <2>1, <3>2
  <2>2. CASE checkpoint'.tick = 0
    <3>1. \A s \in Open' : \A u \in Timeline : ~(positions'[s].of[1] < u /\ u <= 0)
      <4> TAKE s \in Open'
      <4> TAKE u \in Timeline
      <4>1. positions'[s].of[1] \in Nat /\ u \in Nat
        BY <1>a, <1>b
      <4> QED
        BY <4>1
    <3> QED
      BY <2>2, <3>1 DEF CoveredNext
  <2>3. CASE checkpoint'.tick = job.tick /\ InTick /\ ~Liquidating /\ UNCHANGED positions
    BY <1>a, <1>c, <2>3
  <2> QED
    BY <2>1, <2>2, <2>3, Saving
<1>2. ASSUME InTick', ~Liquidating' PROVE CoveredNext(job'.tick)
  <2>1. CASE BeginTick /\ ToClose = {} /\ job'.tick = job.tick
    <3>1. Covered(job.tick) /\ UNCHANGED positions
      BY <2>1, CoveredAtTick DEF WindowInv, BeginTick, brokerVars
    <3> QED
      BY <1>c, <2>1, <3>1
  <2>2. CASE Liquidated /\ job'.tick = job.tick
    <3>1. Open = {}
      BY <2>2 DEF Liquidated, At, Liquidating, WindowInv, ClosingInv
    <3>2. Open' = Open
      BY <2>2 DEF Liquidated, brokerVars, Open
    <3> QED
      BY <3>1, <3>2 DEF CoveredNext
  <2>3. CASE InTick /\ ~Liquidating /\ job'.tick = job.tick
    <3>1. CoveredNext(job.tick)
      BY <1>a, <2>3, CoveredKept
    <3> QED
      BY <2>3, <3>1
  <2> QED
    BY <1>2, <2>1, <2>2, <2>3, IntoTick
<1>3. ASSUME job'.pc = "tick"
      PROVE  \/ job'.was = {} /\ CoveredNext(job'.tick)
             \/ \E p \in Timeline :
                  Follows(job'.tick, p) /\ job'.was = {inside[p]} /\ CoveredNext(p)
  <2>1. CASE Fetch
    <3>1. job'.was = {} /\ UNCHANGED positions
      BY <1>a, <2>1 DEF Fetch, At, Jobs, WindowInv, PlaceInv, brokerVars
    <3>2. CASE checkpoint = NoCheckpoint
      <4>1. job'.tick = Min(Timeline) /\ Timeline # {}
        BY <1>a, <2>1, <3>2 DEF Fetch, Jobs
      <4>2. \A t \in Timeline : job'.tick <= t
        BY <1>a, <4>1, MinIsLeast
      <4>3. job'.tick \in Timeline
        BY <4>1, InTimeline
      <4>4. \A s \in Open' : \A u \in Timeline : ~(positions'[s].of[1] < u /\ u <= job'.tick)
        <5> TAKE s \in Open'
        <5> TAKE u \in Timeline
        <5>1. /\ positions'[s].of[1] \in Nat /\ u \in Nat /\ job'.tick \in Nat
              /\ job'.tick <= positions'[s].of[1]
          BY <1>a, <1>b, <4>2, <4>3
        <5> QED
          BY <5>1
      <4> QED
        BY <3>1, <4>4 DEF CoveredNext
    <3>3. CASE checkpoint # NoCheckpoint
      <4>1. job'.tick = checkpoint.tick
        BY <1>a, <2>1, <3>3 DEF Fetch, Jobs
      <4> QED
        BY <1>a, <1>c, <3>1, <4>1
    <3> QED
      BY <3>2, <3>3
  <2>2. CASE EndTick
    <3>1. /\ job.pc = "bars" /\ job.tick \in Timeline /\ Later # {} /\ job'.tick = Min(Later)
          /\ job'.was = job.was /\ UNCHANGED positions
      BY <1>a, <2>2 DEF EndTick, At, Jobs, JobOK, brokerVars
    <3>2. Follows(job'.tick, job.tick)
      <4>1. Min(Later) \in Later /\ \A t \in Later : Min(Later) <= t
        BY <1>a, <3>1, MinIsLeast DEF Later
      <4> QED
        BY <1>a, <3>1, <4>1 DEF Follows, Later
    <3>3. job.was = {inside[job.tick]} /\ Covered(job.tick)
      BY <1>a, <3>1 DEF WindowInv, PlaceInv, InTick, Liquidating
    <3>4. CoveredNext(job.tick)
      BY <1>c, <3>1, <3>3
    <3> QED
      BY <3>1, <3>2, <3>3, <3>4
  <2>3. CASE UNCHANGED <<job, positions>>
    <3>1. CASE job.was = {} /\ Covered(job.tick)
      BY <1>c, <2>3, <3>1
    <3>2. CASE \E p \in Timeline : Follows(job.tick, p) /\ job.was = {inside[p]} /\ Covered(p)
      <4>1. PICK p \in Timeline : Follows(job.tick, p) /\ job.was = {inside[p]} /\ Covered(p)
        BY <3>2
      <4>2. CoveredNext(p)
        BY <1>c, <2>3, <4>1
      <4> QED
        BY <2>3, <4>1, <4>2
    <3> QED
      BY <1>3, <2>3, <3>1, <3>2 DEF WindowInv, CoverInv
  <2> QED
    BY <1>3, <2>1, <2>2, <2>3, ToTick
<1> QED
  BY <1>1, <1>2, <1>3

LEMMA WindowStep == TypeInv /\ WindowInv /\ [Next]_vars => WindowInv'
<1>1. ASSUME TypeInv, WindowInv, Next PROVE WindowInv'
  BY <1>1, PlaceStep, OpenStep, ClosingStep, CoverStep DEF WindowInv
<1>2. ASSUME WindowInv, UNCHANGED vars PROVE WindowInv'
  BY <1>2 DEF WindowInv, PlaceInv, OpenInv, ClosingInv, CoverInv, InTick, Liquidating, Covered,
              Open, Follows, Timeline, vars, givenVars, brokerVars
<1> QED
  BY <1>1, <1>2

\* No position of a pipeline that liquidates outlives the window it was opened in, for any
\* period, schedule and number of crashes, though an orchestrator that goes on from the
\* checkpoint has forgotten whether the tick before was inside (_inside_active_window).
THEOREM ReplayWindow == Spec => []WindowClosesPositions
<1>1. Init => WindowInv
  BY DEF Init, WindowInv, PlaceInv, OpenInv, ClosingInv, CoverInv, InTick, Liquidating, Covered,
         Open, NoJob
<1>2. TypeInv /\ WindowInv => WindowClosesPositions
  BY DEF WindowInv, CoverInv, Covered, Open, WindowClosesPositions
<1>3. Spec => [](TypeInv /\ WindowInv)
  BY <1>1, TypeInitially, TypeStep, WindowStep, PTL DEF Spec
<1> QED
  BY <1>2, <1>3, PTL

-------------------------------------------------------------------------------
(* Where the orchestrator goes on                                            *)

\* The orchestrator is at a tick whose signals are not asked for yet; it executes what they
\* match; it looks at the candles of the tick.
Begun ==
  \/ job.pc \in {"tick", "liquidate", "dispatch"}
  \/ job.pc \in {"traded", "booked", "sync"} /\ job.next # "record"
Executing == job.pc \in {"execute", "agents", "charged", "opened"}
Recording ==
  \/ job.pc \in {"bars", "record"}
  \/ job.pc \in {"traded", "booked", "sync"} /\ job.next = "record"

\* The symbols that the checkpoint's tick still has candles of, and the first of them when that
\* is the orchestrator's tick.
Rest == {n \in Symbols : n > checkpoint.symbol /\ <<checkpoint.tick, n>> \in candles}
NextBar == NextSymbol(checkpoint.symbol)

\* The checkpoint has all of the tick before this one.
Ahead == Rest = {} /\ Follows(job.tick, checkpoint.tick)

ResumeInv ==
  /\ Begun => \/ checkpoint = job.resumed /\ checkpoint.tick = job.tick
              \/ checkpoint.tick < job.tick /\ job.resumed.tick # job.tick
  /\ Executing => checkpoint.tick < job.tick
  /\ Recording => checkpoint.tick = job.tick /\ job.symbol = NextBar
  /\ Begun \/ Executing => (checkpoint.tick < job.tick => Ahead)
  /\ job.pc = "tick" => job.was = {} \/ checkpoint.tick < job.tick
  /\ Begun \/ Executing \/ Recording => job.curve = checkpoint.curve

LEMMA NextSymbolSkips ==
  ASSUME ReplayAssumption, NEW s \in Nat, s <= MaxSymbols + 1
  PROVE  /\ NextSymbol(s) \in Symbols => <<job.tick, NextSymbol(s)>> \in candles
         /\ \A n \in Symbols : s < n /\ n < NextSymbol(s) => <<job.tick, n>> \notin candles
<1> DEFINE S == {n \in s + 1 .. MaxSymbols : <<job.tick, n>> \in candles} \cup {MaxSymbols + 1}
<1>1. S \in SUBSET Nat /\ S # {}
  BY DEF ReplayAssumption
<1>2. NextSymbol(s) \in S /\ \A n \in S : NextSymbol(s) <= n
  BY <1>1, MinIsLeast DEF NextSymbol
<1>3. ASSUME NEW n \in Symbols, s < n, n < NextSymbol(s), <<job.tick, n>> \in candles
      PROVE  FALSE
  <2>1. n \in S
    BY <1>3, ReplayAssumption DEF Symbols, ReplayAssumption
  <2>2. NextSymbol(s) \in Nat /\ n \in Nat
    BY <1>1, <1>2 DEF Symbols
  <2> QED
    BY <1>2, <1>3, <2>1, <2>2
<1>4. NextSymbol(s) \in Symbols => <<job.tick, NextSymbol(s)>> \in candles
  BY <1>2, ReplayAssumption DEF Symbols, ReplayAssumption
<1> QED
  BY <1>3, <1>4

LEMMA CheckpointIs ==
  ASSUME TypeInv
  PROVE  /\ checkpoint.tick \in Nat /\ checkpoint.symbol \in 0 .. MaxSymbols
         /\ checkpoint.curve \in Seq(Bars) /\ checkpoint \in Checkpoints \cup {NoCheckpoint}
         /\ checkpoint = NoCheckpoint <=> checkpoint.tick = 0
         /\ NextBar \in 1 .. MaxSymbols + 1
<1>1. /\ checkpoint \in Checkpoints \cup {NoCheckpoint} /\ 0 \in 0 .. MaxSymbols
      /\ MaxSymbols \in Nat
  BY ReplayAssumption DEF TypeInv, ReplayTypeOK, RunTypeOK, ReplayAssumption
<1>2. CASE checkpoint \in Checkpoints
  BY <1>1, <1>2, NextSymbolIsNext, ReplayAssumption DEF Checkpoints, Ticks, NextBar, NoCheckpoint
<1>3. CASE checkpoint = NoCheckpoint
  BY <1>1, <1>3, NextSymbolIsNext, ReplayAssumption DEF NoCheckpoint, NextBar
<1> QED
  BY <1>1, <1>2, <1>3

\* When the orchestrator is in the checkpoint's tick, the rest of it begins at the next bar.
LEMMA NextBarIsRest ==
  ASSUME TypeInv, checkpoint.tick = job.tick
  PROVE  /\ NextBar \in Symbols => NextBar \in Rest
         /\ NextBar > MaxSymbols => Rest = {}
<1>1. /\ checkpoint.symbol \in Nat /\ checkpoint.symbol <= MaxSymbols + 1 /\ MaxSymbols \in Nat
      /\ NextBar \in 1 .. MaxSymbols + 1 /\ Symbols \subseteq 1 .. MaxSymbols
  BY CheckpointIs, ReplayAssumption DEF ReplayAssumption, Symbols
<1>2. NextBar \in Symbols => NextBar > checkpoint.symbol /\ <<job.tick, NextBar>> \in candles
  BY <1>1, NextSymbolIsNext, NextSymbolSkips, ReplayAssumption DEF NextBar
<1>3. \A n \in Symbols : checkpoint.symbol < n /\ n < NextBar => <<job.tick, n>> \notin candles
  BY <1>1, NextSymbolSkips, ReplayAssumption DEF NextBar
<1>4. ASSUME NextBar > MaxSymbols, NEW n \in Rest PROVE FALSE
  <2>1. n \in 1 .. MaxSymbols /\ n > checkpoint.symbol /\ <<job.tick, n>> \in candles
    BY <1>1 DEF Rest
  <2> QED
    BY <1>1, <1>3, <1>4, <2>1 DEF Symbols
<1> QED
  BY <1>2, <1>4 DEF Rest

LEMMA AheadKept ==
  ASSUME TypeInv, Next
  PROVE  UNCHANGED checkpoint /\ job'.tick = job.tick =>
           Ahead' = Ahead /\ NextBar' = NextBar /\ Rest' = Rest
BY Givens DEF Ahead, NextBar, NextSymbol, Rest, Follows

\* A checkpoint that the orchestrator loaded is the one it finds saved.
LEMMA NotDispatched ==
  ASSUME TypeInv, ResumeInv, job.pc = "dispatch"
  PROVE  /\ Dispatched => checkpoint = job.resumed /\ checkpoint.tick = job.tick
         /\ ~Dispatched => checkpoint.tick < job.tick
<1>1. job.tick \in Nat /\ job.tick # 0
  BY InTimeline DEF TypeInv, JobOK, Ticks
<1> QED
  BY <1>1, CheckpointIs DEF ResumeInv, Begun, Dispatched

LEMMA ResumeStep == ASSUME TypeInv, PlaceInv, ResumeInv, Next PROVE ResumeInv'
<1>1. /\ job \in Jobs /\ JobOK /\ job.tick \in Nat /\ checkpoint.tick \in Nat
      /\ \A t \in Timeline : t \in Nat /\ t > 0
      /\ Timeline # {} => Min(Timeline) \in Timeline /\ \A t \in Timeline : Min(Timeline) <= t
      /\ Later # {} => Min(Later) \in Later /\ \A t \in Later : Min(Later) <= t
  BY Givens, InTimeline, MinIsLeast DEF Later, Ticks
<1>2. UNCHANGED checkpoint /\ job'.tick = job.tick => Ahead' = Ahead /\ NextBar' = NextBar
  BY AheadKept
<1> USE <1>1, <1>2 DEF ResumeInv, Begun, Executing, Recording, At, Stopped
<1>3. CASE Launch \/ Start \/ Raises \/ Crash \/ CancelRead \/ CancelCommit
  BY <1>3 DEF Launch, Start, Raises, Crash, CancelRead, CancelCommit, NoJob
<1>4. CASE Replaying
  <2>1. CASE Fetch
    <3>1. /\ job'.pc = "tick" /\ job'.was = {} /\ job'.curve = checkpoint.curve
          /\ job'.resumed = checkpoint /\ UNCHANGED checkpoint /\ Timeline # {}
          /\ job'.tick = IF checkpoint = NoCheckpoint THEN Min(Timeline) ELSE checkpoint.tick
      BY <2>1 DEF Fetch, Jobs, PlaceInv
    <3>2. CASE checkpoint = NoCheckpoint
      <4>1. checkpoint.tick = 0 /\ job'.tick = Min(Timeline) /\ Min(Timeline) \in Timeline
        BY <3>1, <3>2, CheckpointIs
      <4>2. Rest' = {}
        <5>1. checkpoint'.tick = 0 /\ 0 \notin Ticks /\ candles' \subseteq Ticks \X Symbols
          BY <3>1, <4>1, Givens DEF Ticks, TypeInv, ReplayTypeOK, GivenTypeOK, Bars
        <5> QED
          BY <5>1 DEF Rest
      <4>3. Follows(job.tick, checkpoint.tick)'
        BY <3>1, <4>1, Givens DEF Follows
      <4> QED
        BY <3>1, <4>1, <4>2, <4>3 DEF Ahead
    <3>3. CASE checkpoint # NoCheckpoint
      BY <3>1, <3>3
    <3> QED
      BY <3>2, <3>3
  <2>2. CASE FetchNothing \/ Report \/ Cancelled \/ Complete \/ ClearCheckpoint
    <3>1. job'.pc \in {"idle", "clear", "report"}
      BY <2>2, Goes
    <3> QED
      BY <3>1
  <2>3. CASE BeginTick
    <3>1. /\ job'.pc \in {"liquidate", "dispatch"} /\ job'.tick = job.tick
          /\ job'.resumed = job.resumed /\ job'.curve = job.curve /\ UNCHANGED checkpoint
      BY <2>3 DEF BeginTick, Jobs
    <3> QED
      BY <2>3, <3>1 DEF BeginTick
  <2>4. CASE EndTick
    <3>1. /\ job'.pc = "tick" /\ job'.tick = Min(Later) /\ job'.resumed = NoCheckpoint
          /\ job'.curve = job.curve /\ UNCHANGED checkpoint /\ Later # {}
          /\ job.pc = "bars" /\ job.symbol > MaxSymbols
      BY <2>4 DEF EndTick, Jobs
    <3>2. checkpoint.tick = job.tick /\ Rest = {}
      BY <3>1, NextBarIsRest
    <3>3. Rest' = {}
      BY <3>1, <3>2, Givens DEF Rest
    <3>4. Follows(job.tick, checkpoint.tick)' /\ checkpoint'.tick < job'.tick
      BY <3>1, <3>2, Givens DEF Follows, Later
    <3>5. job'.resumed.tick # job'.tick
      BY <3>1, InTimeline DEF NoCheckpoint, Later
    <3> QED
      BY <3>1, <3>2, <3>3, <3>4, <3>5 DEF Ahead
  <2>5. CASE EvaluateBar
    <3>1. /\ job.pc = "bars" /\ job'.tick = job.tick /\ job'.curve = job.curve
          /\ UNCHANGED checkpoint /\ job'.symbol = job.symbol
          /\ job'.pc = "record" \/ (job'.pc = "traded" /\ job'.next = "record")
      BY <2>5 DEF EvaluateBar, Closed, Jobs
    <3> QED
      BY <3>1
  <2>6. CASE RecordBar
    <3>1. /\ job'.pc = "bars" /\ job'.tick = job.tick /\ job'.symbol = NextSymbol(job.symbol)
          /\ job'.curve = Append(job.curve, Current)
          /\ checkpoint' = [tick |-> job.tick, symbol |-> job.symbol,
                            curve |-> Append(job.curve, Current)]
      BY <2>6 DEF RecordBar, Saved, Jobs
    <3>2. NextBar' = NextSymbol(job.symbol)
      BY <3>1, Givens DEF NextBar, NextSymbol
    <3> QED
      BY <3>1, <3>2
  <2> QED
    BY <1>4, <2>1, <2>2, <2>3, <2>4, <2>5, <2>6 DEF Replaying
<1>5. CASE Dispatching
  <2>1. CASE Resume
    <3>1. /\ job'.pc = "bars" /\ job'.tick = job.tick /\ job'.curve = job.curve
          /\ UNCHANGED checkpoint /\ job'.symbol = NextSymbol(job.resumed.symbol)
          /\ job.pc = "dispatch" /\ Dispatched
      BY <2>1 DEF Resume, Jobs
    <3> QED
      BY <3>1, NotDispatched DEF NextBar
  <2>2. CASE Skip \/ SaveDispatched
    <3>1. /\ job'.pc = "bars" /\ job'.tick = job.tick /\ job'.symbol = NextSymbol(0)
          /\ job'.curve = job.curve
          /\ checkpoint' = [tick |-> job.tick, symbol |-> 0, curve |-> job.curve]
      BY <2>2 DEF Skip, SaveDispatched, Saved, Jobs
    <3>2. NextBar' = NextSymbol(0)
      BY <3>1, Givens DEF NextBar, NextSymbol
    <3> QED
      BY <3>1, <3>2
  <2>3. CASE Match
    <3>1. /\ job'.pc = "execute" /\ job'.tick = job.tick /\ job'.curve = job.curve
          /\ UNCHANGED checkpoint /\ job.pc = "dispatch" /\ ~Dispatched
      BY <2>3 DEF Match, Jobs
    <3> QED
      BY <3>1, NotDispatched
  <2>4. CASE Execute \/ NoTrade \/ ChargeFee \/ OpenPosition \/ EndExecution
    <3>1. CASE Execute
      BY <3>1 DEF Execute, Jobs
    <3>2. CASE NoTrade \/ EndExecution
      BY <3>2 DEF NoTrade, EndExecution, Ended, Jobs
    <3>3. CASE ChargeFee \/ OpenPosition
      BY <3>3 DEF ChargeFee, OpenPosition, Jobs
    <3> QED
      BY <2>4, <3>1, <3>2, <3>3
  <2>5. CASE CostLimitExceeded
    <3>1. job'.pc = "clear"
      BY <2>5 DEF CostLimitExceeded, Jobs
    <3> QED
      BY <3>1
  <2> QED
    BY <1>5, <2>1, <2>2, <2>3, <2>4, <2>5 DEF Dispatching
<1>6. CASE Closing
  <2>1. UNCHANGED checkpoint
    BY <1>6, Frame DEF Closing, Liquidate, Liquidated, BookResult, RemovePosition, Sync, Skip,
                       SaveDispatched, RecordBar, ClearCheckpoint
  <2>2. /\ job'.tick = job.tick /\ job'.curve = job.curve /\ job'.resumed = job.resumed
        /\ \/ Begun /\ Begun' /\ job'.pc # "tick"
           \/ Recording /\ Recording' /\ job'.symbol = job.symbol
    <3>1. CASE Liquidate
      <4>1. PICK s \in job.todo : Closed(s, "liquidate")
        BY <3>1 DEF Liquidate
      <4> QED
        BY <3>1, <4>1 DEF Liquidate, Closed, Jobs
    <3>2. CASE Liquidated
      BY <3>2 DEF Liquidated, Jobs
    <3>3. CASE BookResult
      BY <3>3 DEF BookResult, Jobs
    <3>4. CASE RemovePosition
      <4>1. job.pc = "booked" /\ job.next \in {"liquidate", "record"}
        BY <3>4 DEF RemovePosition, JobOK
      <4> QED
        BY <3>4, <4>1 DEF RemovePosition, Jobs
    <3>5. CASE Sync
      <4>1. job.pc = "sync" /\ job.next \in {"dispatch", "record"}
        BY <3>5 DEF Sync, JobOK
      <4>2. /\ job'.tick = job.tick /\ job'.curve = job.curve /\ job'.resumed = job.resumed
            /\ job'.next = job.next /\ job'.symbol = job.symbol
            /\ job'.pc = "sync" \/ job'.pc = job.next
        BY <3>5, <4>1 DEF Sync, Jobs
      <4> QED
        BY <4>1, <4>2
    <3> QED
      BY <1>6, <3>1, <3>2, <3>3, <3>4, <3>5 DEF Closing
  <2> QED
    BY <2>1, <2>2
<1> QED
  BY <1>3, <1>4, <1>5, <1>6 DEF Next

LEMMA ResumeKept == TypeInv /\ PlaceInv /\ ResumeInv /\ [Next]_vars => ResumeInv'
<1>1. ASSUME ResumeInv, UNCHANGED vars PROVE ResumeInv'
  BY <1>1 DEF ResumeInv, Begun, Executing, Recording, Ahead, Rest, NextBar, NextSymbol, Follows,
              Timeline, vars, givenVars
<1> QED
  BY <1>1, ResumeStep

-------------------------------------------------------------------------------
(* The curve of a run                                                        *)

\* The candles up to a symbol of a tick, in the order they are replayed in.
Before(t, s) == {c \in candles : c[1] < t \/ (c[1] = t /\ c[2] <= s)}
Earlier(c, d) == c[1] < d[1] \/ (c[1] = d[1] /\ c[2] < d[2])

\* A curve that has a point for each candle of S, in order.
Shows(points, S) ==
  /\ {points[i] : i \in DOMAIN points} = S
  /\ \A i, j \in DOMAIN points : i < j => Earlier(points[i], points[j])

CurveInv ==
  /\ Shows(checkpoint.curve, Before(checkpoint.tick, checkpoint.symbol))
  /\ status = "COMPLETED" => Shows(curve, candles)

LEMMA BarIs == ASSUME NEW c \in Bars PROVE c[1] \in Nat /\ c[2] \in Nat
<1>1. PICK t \in Ticks, s \in Symbols : c = <<t, s>>
  BY DEF Bars
<1> QED
  BY <1>1 DEF Ticks, Symbols

LEMMA ShowsMore ==
  ASSUME NEW points \in Seq(Bars), NEW S, Shows(points, S),
         NEW c \in Bars, \A d \in S : Earlier(d, c)
  PROVE  Shows(Append(points, c), S \cup {c})
<1> DEFINE n == Len(points) + 1
           more == Append(points, c)
<1>1. /\ n \in Nat /\ DOMAIN points = 1 .. Len(points) /\ DOMAIN more = 1 .. n
      /\ \A i \in DOMAIN points : more[i] = points[i] /\ i # n
      /\ more[n] = c /\ DOMAIN more = DOMAIN points \cup {n}
  OBVIOUS
<1>2. \A i \in DOMAIN points : points[i] \in S
  BY DEF Shows
<1>3. {more[i] : i \in DOMAIN more} = S \cup {c}
  <2>1. \A i \in DOMAIN more : more[i] \in S \cup {c}
    BY <1>1, <1>2
  <2>2. \A d \in S \cup {c} : \E i \in DOMAIN more : more[i] = d
    BY <1>1 DEF Shows
  <2> HIDE DEF more
  <2> QED
    BY <2>1, <2>2
<1>4. ASSUME NEW i \in DOMAIN more, NEW j \in DOMAIN more, i < j
      PROVE  Earlier(more[i], more[j])
  <2>1. i \in DOMAIN points
    BY <1>1, <1>4
  <2>2. CASE j = n
    BY <1>1, <1>2, <2>1, <2>2
  <2>3. CASE j \in DOMAIN points
    BY <1>1, <1>4, <2>1, <2>3 DEF Shows
  <2> QED
    BY <1>1, <2>2, <2>3
<1> QED
  BY <1>3, <1>4 DEF Shows

LEMMA ShownIsCounted ==
  ASSUME NEW points \in Seq(Bars), NEW S, Shows(points, S)
  PROVE  Len(points) = Cardinality(S)
<1>1. Len(points) \in Nat /\ DOMAIN points = 1 .. Len(points) /\ points \in [1 .. Len(points) -> S]
  <2>1. Len(points) \in Nat /\ DOMAIN points = 1 .. Len(points)
    OBVIOUS
  <2>2. \A i \in DOMAIN points : points[i] \in S
    BY DEF Shows
  <2>3. points = [i \in 1 .. Len(points) |-> points[i]]
    OBVIOUS
  <2> QED
    BY <2>1, <2>2, <2>3
<1>2. ASSUME NEW i \in DOMAIN points, NEW j \in DOMAIN points, points[i] = points[j]
      PROVE  i = j
  <2>1. i \in Nat /\ j \in Nat /\ points[i] \in Bars
    BY <1>1
  <2>2. ~Earlier(points[i], points[i])
    BY <2>1, BarIs DEF Earlier
  <2>3. ~(i < j) /\ ~(j < i)
    BY <1>2, <2>2, Zenon DEF Shows
  <2> QED
    BY <2>1, <2>3
<1>3. points \in Bijection(1 .. Len(points), S)
  <2>1. \A d \in S : \E i \in 1 .. Len(points) : points[i] = d
    BY <1>1 DEF Shows
  <2> QED
    BY <1>1, <1>2, <2>1 DEF Bijection, Injection, Surjection, IsInjective
<1> QED
  BY <1>1, <1>3, FS_CountingElements DEF ExistsBijection

\* At a new tick the checkpoint has everything before it; a candle is the next one after it.
LEMMA BeforeTick ==
  ASSUME TypeInv, job.tick \in Timeline, Ahead
  PROVE  Before(job.tick, 0) = Before(checkpoint.tick, checkpoint.symbol)
<1>1. ASSUME NEW c \in candles
      PROVE  /\ c[1] \in Nat /\ c[1] \in Timeline /\ c[2] \in Symbols /\ c = <<c[1], c[2]>>
             /\ c[2] \in Nat /\ c[2] > 0
  BY InTimeline DEF TypeInv, ReplayTypeOK, GivenTypeOK, Bars, Timeline, Symbols
<1>2. checkpoint.tick \in Nat /\ job.tick \in Nat /\ checkpoint.symbol \in Nat
  BY CheckpointIs, InTimeline
<1>3. ASSUME NEW c \in candles
      PROVE  c[1] < job.tick \/ (c[1] = job.tick /\ c[2] <= 0)
             <=> c[1] < checkpoint.tick \/ (c[1] = checkpoint.tick /\ c[2] <= checkpoint.symbol)
  <2>1. c[1] = checkpoint.tick => c[2] <= checkpoint.symbol
    BY <1>1, <1>2 DEF Ahead, Rest
  <2>2. checkpoint.tick < job.tick /\ (checkpoint.tick < c[1] => job.tick <= c[1])
    BY <1>1 DEF Ahead, Follows
  <2> QED
    BY <1>1, <1>2, <2>1, <2>2
<1> QED
  BY <1>3 DEF Before

LEMMA BeforeBar ==
  ASSUME TypeInv, job.tick \in Timeline, checkpoint.tick = job.tick,
         job.symbol = NextBar, job.symbol \in Symbols
  PROVE  /\ Before(job.tick, job.symbol)
              = Before(checkpoint.tick, checkpoint.symbol) \cup {Current}
         /\ \A d \in Before(checkpoint.tick, checkpoint.symbol) : Earlier(d, Current)
<1>1. ASSUME NEW c \in candles
      PROVE  c[1] \in Nat /\ c[2] \in Symbols /\ c = <<c[1], c[2]>> /\ c[2] \in Nat
  BY InTimeline DEF TypeInv, ReplayTypeOK, GivenTypeOK, Bars
<1>2. /\ job.tick \in Nat /\ checkpoint.symbol \in Nat /\ checkpoint.symbol <= MaxSymbols + 1
      /\ job.symbol \in Nat
  BY CheckpointIs, InTimeline, ReplayAssumption DEF ReplayAssumption
<1>3. Current \in candles /\ job.symbol > checkpoint.symbol
  BY NextBarIsRest DEF Rest, Current
<1>4. \A n \in Symbols : checkpoint.symbol < n /\ n < job.symbol => <<job.tick, n>> \notin candles
  BY <1>2, NextSymbolSkips, ReplayAssumption DEF NextBar
<1>5. ASSUME NEW c \in candles
      PROVE  c[1] < job.tick \/ (c[1] = job.tick /\ c[2] <= job.symbol)
             <=> c[1] < checkpoint.tick \/ (c[1] = checkpoint.tick /\ c[2] <= checkpoint.symbol)
                 \/ c = Current
  BY <1>1, <1>2, <1>3, <1>4 DEF Current
<1>6. \A d \in Before(checkpoint.tick, checkpoint.symbol) : Earlier(d, Current)
  BY <1>1, <1>2, <1>3 DEF Before, Earlier, Current
<1> QED
  BY <1>3, <1>5, <1>6 DEF Before

LEMMA CurveStep == ASSUME TypeInv, ResumeInv, CurveInv, Next PROVE CurveInv'
<1>1. /\ job \in Jobs /\ JobOK /\ candles' = candles /\ job.tick \in Nat
      /\ checkpoint.curve \in Seq(Bars)
      /\ \A t, s : Before(t, s)' = Before(t, s)
  BY Givens, CheckpointIs DEF Before
<1>2. Shows(checkpoint.curve, Before(checkpoint.tick, checkpoint.symbol))'
  <2>1. CASE Skip \/ SaveDispatched
    <3>1. /\ checkpoint' = [tick |-> job.tick, symbol |-> 0, curve |-> job.curve]
          /\ Begun \/ Executing
          /\ job.tick \in Timeline /\ checkpoint.tick < job.tick
      BY <1>1, <2>1, NotDispatched
         DEF Skip, SaveDispatched, Saved, At, JobOK, Begun, Executing, ResumeInv
    <3>2. job.curve = checkpoint.curve /\ Ahead
      BY <3>1 DEF ResumeInv
    <3>3. Before(job.tick, 0) = Before(checkpoint.tick, checkpoint.symbol)
      BY <3>1, <3>2, BeforeTick
    <3> QED
      BY <1>1, <3>1, <3>2, <3>3 DEF CurveInv, Shows
  <2>2. CASE RecordBar
    <3>1. /\ checkpoint' = [tick |-> job.tick, symbol |-> job.symbol,
                            curve |-> Append(job.curve, Current)]
          /\ job.tick \in Timeline /\ job.symbol \in Symbols /\ Current \in Bars
          /\ job.symbol = NextBar /\ checkpoint.tick = job.tick /\ job.curve = checkpoint.curve
      BY <1>1, <2>2, CurrentIsBar DEF RecordBar, Saved, At, JobOK, Recording, ResumeInv
    <3>2. Shows(Append(checkpoint.curve, Current),
                Before(checkpoint.tick, checkpoint.symbol) \cup {Current})
      BY <1>1, <3>1, BeforeBar, ShowsMore DEF CurveInv
    <3> QED
      BY <1>1, <3>1, <3>2, BeforeBar DEF Shows
  <2>3. CASE ClearCheckpoint
    <3>1. Before(0, 0)' = {}
      BY <1>1, InTimeline DEF Before, TypeInv, ReplayTypeOK, GivenTypeOK, Bars, Ticks
    <3> QED
      BY <2>3, <3>1 DEF ClearCheckpoint, NoCheckpoint, Shows
  <2>4. CASE UNCHANGED checkpoint
    BY <1>1, <2>4 DEF CurveInv, Shows
  <2> QED
    BY <2>1, <2>2, <2>3, <2>4, Frame
<1>3. ASSUME status' = "COMPLETED" PROVE Shows(curve, candles)'
  <2>1. CASE Complete
    <3>1. /\ checkpoint.tick = job.tick /\ job.symbol = NextBar /\ job.curve = checkpoint.curve
          /\ curve' = job.curve /\ job.symbol > MaxSymbols /\ Later = {}
          /\ job.tick \in Timeline
      BY <1>1, <2>1 DEF Complete, At, ResumeInv, Recording, JobOK
    <3>2. Rest = {}
      BY <3>1, NextBarIsRest
    <3>3. Before(checkpoint.tick, checkpoint.symbol) = candles
      <4>1. ASSUME NEW c \in candles
            PROVE  c[1] < checkpoint.tick \/ (c[1] = checkpoint.tick /\ c[2] <= checkpoint.symbol)
        <5>1. c[1] \in Nat /\ c[1] \in Timeline /\ c[2] \in Symbols /\ c = <<c[1], c[2]>>
              /\ c[2] \in Nat
          BY InTimeline DEF TypeInv, ReplayTypeOK, GivenTypeOK, Bars, Timeline
        <5>2. c[1] <= job.tick
          BY <1>1, <3>1, <5>1 DEF Later
        <5>3. c[1] = checkpoint.tick => c[2] <= checkpoint.symbol
          BY <3>2, <5>1, CheckpointIs DEF Rest
        <5> QED
          BY <1>1, <3>1, <5>1, <5>2, <5>3
      <4> QED
        BY <4>1 DEF Before
    <3> QED
      BY <1>1, <3>1, <3>3 DEF CurveInv, Shows
  <2>2. CASE ~Complete
    <3>1. status = "COMPLETED" /\ UNCHANGED curve
      <4> USE <1>3, <2>2 DEF runVars, At, Stopped, Ended
      <4>1. CASE Launch \/ Start \/ Raises \/ Crash \/ CancelRead \/ CancelCommit
        BY <4>1 DEF Launch, Start, Raises, Crash, CancelRead, CancelCommit
      <4>2. CASE Replaying
        BY <4>2 DEF Replaying, Fetch, FetchNothing, Cancelled, BeginTick, EndTick, EvaluateBar,
                    RecordBar, ClearCheckpoint, Report
      <4>3. CASE Dispatching
        <5>1. CASE CostLimitExceeded
          BY <5>1 DEF CostLimitExceeded
        <5>2. CASE Resume \/ Skip \/ Match \/ SaveDispatched
          <6>1. UNCHANGED runVars
            BY <5>2, Zenon DEF Resume, Skip, Match, SaveDispatched
          <6> QED
            BY <6>1
        <5>3. CASE Execute
          BY <5>3 DEF Execute
        <5>4. CASE NoTrade \/ ChargeFee \/ OpenPosition \/ EndExecution
          BY <5>4 DEF NoTrade, ChargeFee, OpenPosition, EndExecution
        <5> QED
          BY <4>3, <5>1, <5>2, <5>3, <5>4 DEF Dispatching
      <4>4. CASE Closing
        BY <4>4 DEF Closing, Liquidate, Liquidated, BookResult, RemovePosition, Sync
      <4> QED
        BY <4>1, <4>2, <4>3, <4>4 DEF Next
    <3> QED
      BY <1>1, <3>1 DEF CurveInv, Shows
  <2> QED
    BY <2>1, <2>2
<1> QED
  BY <1>2, <1>3 DEF CurveInv

LEMMA CurveKept == TypeInv /\ ResumeInv /\ CurveInv /\ [Next]_vars => CurveInv'
<1>1. ASSUME CurveInv, UNCHANGED vars PROVE CurveInv'
  BY <1>1 DEF CurveInv, Shows, Before, vars, givenVars, runVars
<1> QED
  BY <1>1, CurveStep

LEMMA ReplayInitially == Init => TypeInv /\ WindowInv /\ ResumeInv /\ CurveInv
<1> SUFFICES ASSUME Init PROVE TypeInv /\ WindowInv /\ ResumeInv /\ CurveInv
  OBVIOUS
<1>1. TypeInv
  BY TypeInitially
<1>2. WindowInv
  BY DEF Init, WindowInv, PlaceInv, OpenInv, ClosingInv, CoverInv, InTick, Liquidating, Covered,
         Open, NoJob
<1>3. ResumeInv
  BY DEF Init, NoJob, ResumeInv, Begun, Executing, Recording
<1>4. CurveInv
  <2>1. Before(0, 0) = {}
    BY <1>1, InTimeline DEF Before, TypeInv, ReplayTypeOK, GivenTypeOK, Bars, Ticks
  <2> QED
    BY <2>1 DEF Init, CurveInv, Shows, NoCheckpoint
<1> QED
  BY <1>1, <1>2, <1>3, <1>4

\* What a run that is COMPLETED shows is the whole period, every candle once and in order, for
\* any period and symbols, whatever writes the orchestrator died between and however often it
\* went on from the checkpoint (run_backtest, _save_checkpoint).
THEOREM ReplayCurve == Spec => []ReplayIsComplete
<1>1. Spec => [](TypeInv /\ WindowInv /\ ResumeInv /\ CurveInv)
  <2>1. WindowInv => PlaceInv
    BY DEF WindowInv
  <2> QED
    BY <2>1, ReplayInitially, TypeStep, WindowStep, ResumeKept, CurveKept, PTL DEF Spec
<1>2. TypeInv /\ CurveInv => ReplayIsComplete
  <2> SUFFICES ASSUME TypeInv, CurveInv, status = "COMPLETED"
               PROVE  /\ Len(curve) = Cardinality(candles)
                      /\ {curve[i] : i \in DOMAIN curve} = candles
                      /\ \A i, j \in DOMAIN curve : i < j => Earlier(curve[i], curve[j])
    BY Zenon DEF ReplayIsComplete, Earlier
  <2>1. curve \in Seq(Bars) /\ Shows(curve, candles)
    BY DEF CurveInv, TypeInv, ReplayTypeOK, RunTypeOK
  <2> QED
    BY <2>1, ShownIsCounted DEF Shows
<1> QED
  BY <1>1, <1>2, PTL

-------------------------------------------------------------------------------
(* No execution opens a second position                                      *)

\* The run is over: it goes on only if it is delivered again, without its checkpoint.
Over == job.pc = "report" \/ queue = "none"
Lives == ~again /\ ~Over

QueueInv == job.pc # "idle" <=> queue = "taken"

\* The position was open when the checkpoint's tick was dispatched.
Passed(s) == positions[s].of[1] <= checkpoint.tick

\* What was opened and is not on the checkpoint is open.
KeptInv == \A e \in Executions : opened[e] > 0 => Held(e) \/ e[1] <= checkpoint.tick

\* What the checkpoint does not know was opened in the tick after it, and then there is nothing
\* left of its own tick.
NearInv ==
  \A s \in Open : ~Passed(s) =>
    Rest = {} /\ \A u \in Timeline : checkpoint.tick < u => positions[s].of[1] <= u

\* What is closed is on the checkpoint.
PassedInv ==
  /\ Liquidating => \A s \in job.todo : Passed(s)
  /\ job.pc \in {"traded", "booked"} => Passed(job.symbol)

OnceInv ==
  /\ ~again => \A e \in Executions : opened[e] <= 1
  /\ Lives => KeptInv /\ NearInv /\ PassedInv

LEMMA AtWork ==
  /\ Dispatching => At("dispatch") \/ At("execute") \/ At("agents") \/ At("charged") \/ At("opened")
  /\ Closing => At("liquidate") \/ At("traded") \/ At("booked") \/ At("sync")
<1>1. Closing => At("liquidate") \/ At("traded") \/ At("booked") \/ At("sync")
  BY Zenon DEF Closing, Liquidate, Liquidated, BookResult, RemovePosition, Sync
<1>2. Resume \/ Skip \/ Match => At("dispatch")
  BY Zenon DEF Resume, Skip, Match
<1>3. Execute \/ CostLimitExceeded \/ SaveDispatched => At("execute")
  BY Zenon DEF Execute, CostLimitExceeded, SaveDispatched
<1>4. NoTrade \/ ChargeFee => At("agents")
  BY Zenon DEF NoTrade, ChargeFee
<1>5. (OpenPosition => At("charged")) /\ (EndExecution => At("opened"))
  BY Zenon DEF OpenPosition, EndExecution
<1> QED
  BY <1>1, <1>2, <1>3, <1>4, <1>5, Zenon DEF Dispatching

LEMMA QueueStep == ASSUME TypeInv, QueueInv, Next PROVE QueueInv'
<1>1. job \in Jobs /\ JobOK
  BY Givens
<1> USE <1>1 DEF QueueInv, At, Stopped, Ended, Closed
<1>2. CASE Launch \/ Start \/ Raises \/ Crash \/ CancelRead \/ CancelCommit
  BY <1>2 DEF Launch, Start, Raises, Crash, CancelRead, CancelCommit, NoJob
<1>3. CASE Replaying
  <2>1. CASE EvaluateBar
    BY <2>1 DEF EvaluateBar, Jobs
  <2>2. CASE FetchNothing \/ Report
    BY <2>2 DEF FetchNothing, Report, NoJob
  <2>3. CASE BeginTick
    BY <2>3 DEF BeginTick, Jobs
  <2>4. CASE Fetch \/ Cancelled \/ EndTick \/ RecordBar \/ Complete \/ ClearCheckpoint
    <3>1. job.pc # "idle" /\ UNCHANGED queue
      BY <2>4 DEF Fetch, Cancelled, EndTick, RecordBar, Complete, ClearCheckpoint
    <3>2. job'.pc # "idle"
      BY <2>4, Goes
    <3> QED
      BY <3>1, <3>2
  <2> QED
    BY <1>3, <2>1, <2>2, <2>3, <2>4 DEF Replaying
<1>4. CASE Dispatching
  <2>1. job.pc # "idle" /\ UNCHANGED queue
    BY <1>4, AtWork
  <2>2. job'.pc # "idle"
    <3>1. CASE Execute
      BY <3>1 DEF Execute, Jobs
    <3>2. CASE Match
      BY <3>2 DEF Match, Jobs
    <3>3. CASE Resume \/ Skip \/ SaveDispatched
      BY <3>3 DEF Resume, Skip, SaveDispatched, Jobs
    <3>4. CASE NoTrade \/ EndExecution \/ ChargeFee \/ OpenPosition \/ CostLimitExceeded
      BY <3>4 DEF NoTrade, EndExecution, ChargeFee, OpenPosition, CostLimitExceeded, Jobs
    <3> QED
      BY <1>4, <3>1, <3>2, <3>3, <3>4 DEF Dispatching
  <2> QED
    BY <2>1, <2>2
<1>5. CASE Closing
  <2>1. job.pc # "idle" /\ UNCHANGED queue
    BY <1>5, AtWork
  <2>2. job'.pc # "idle"
    <3>1. CASE Liquidate
      BY <3>1 DEF Liquidate, Jobs
    <3>2. CASE Liquidated \/ BookResult \/ RemovePosition
      BY <3>2 DEF Liquidated, BookResult, RemovePosition, Jobs
    <3>3. CASE Sync
      BY <3>3, Goes
    <3> QED
      BY <1>5, <3>1, <3>2, <3>3 DEF Closing
  <2> QED
    BY <2>1, <2>2
<1> QED
  BY <1>2, <1>3, <1>4, <1>5 DEF Next

\* A run that is over stays over, unless it is delivered again.
LEMMA LivesBefore == ASSUME TypeInv, QueueInv, Next, Lives' PROVE Lives
<1>1. job \in Jobs /\ JobOK /\ again \in BOOLEAN
  BY Givens DEF TypeInv, ReplayTypeOK, RunTypeOK
<1>2. ~again
  BY <1>1, Frame DEF Lives, Crash
<1>3. CASE Launch \/ Start \/ Raises \/ Crash \/ CancelRead \/ CancelCommit
  BY <1>1, <1>2, <1>3 DEF Launch, Start, Raises, Crash, CancelRead, CancelCommit, QueueInv, Lives,
                          Over, Stopped
<1>4. CASE Dispatching \/ Closing
  BY <1>2, <1>4, AtWork DEF At, Lives, Over
<1>5. CASE Replaying
  BY <1>2, <1>5 DEF Replaying, Fetch, FetchNothing, Cancelled, BeginTick, EndTick, EvaluateBar,
                    RecordBar, Complete, ClearCheckpoint, Report, At, Lives, Over, Stopped
<1> QED
  BY <1>3, <1>4, <1>5 DEF Next

\* An execution that opens a position has not opened one before.
LEMMA OpensFirst ==
  ASSUME TypeInv, BooksInv, ResumeInv, KeptInv, OpenPosition
  PROVE  opened[Current] = 0
<1>1. /\ job.pc = "charged" /\ Current \in Executions /\ Current[1] = job.tick
      /\ Current[2] = job.symbol /\ Current # <<0, 0>> /\ opened[Current] \in Nat
  BY CurrentIsBar, InTimeline
     DEF OpenPosition, At, Executions, Current, Ticks, TypeInv, ReplayTypeOK, BooksTypeOK
<1>2. ~Held(Current)
  BY <1>1 DEF BooksInv, Held, NoPosition
<1>3. checkpoint.tick < job.tick /\ checkpoint.tick \in Nat /\ job.tick \in Nat
  BY <1>1, CheckpointIs, InTimeline, CurrentIsBar DEF ResumeInv, Executing
<1> QED
  BY <1>1, <1>2, <1>3 DEF KeptInv

LEMMA KeptStep ==
  ASSUME TypeInv, BooksInv, ResumeInv, KeptInv, PassedInv, Next, ~Over'
  PROVE  KeptInv'
<1>1. BooksTypeOK /\ job \in Jobs /\ JobOK /\ checkpoint.tick \in Nat /\ job.tick \in Nat
  BY Givens, CheckpointIs DEF TypeInv, ReplayTypeOK
<1>2. \A e \in Executions : e[1] \in Nat /\ e[2] \in Symbols
  BY InTimeline DEF Executions, Bars
<1>3. CASE OpenPosition
  <2>1. PICK exit \in 0 .. MaxTicks :
          positions' = [positions EXCEPT ![job.symbol] = [of |-> Current, exit |-> exit]]
    BY <1>3 DEF OpenPosition
  <2>2. /\ Current \in Executions /\ Current # <<0, 0>> /\ job.symbol \in Symbols
        /\ Current[2] = job.symbol /\ UNCHANGED checkpoint /\ positions[job.symbol] = NoPosition
    BY <1>3, CurrentIsBar, InTimeline
       DEF OpenPosition, At, Executions, Current, Ticks, BooksInv
  <2>3. \A e \in Executions \ {Current} : opened'[e] = opened[e]
    BY <1>1, <1>3, <2>2 DEF OpenPosition, BooksTypeOK
  <2>4. \A e \in Executions : Held(e) => Held(e)'
    BY <1>1, <1>2, <2>1, <2>2 DEF Held, BooksTypeOK
  <2>5. \A e \in Executions : opened'[e] > 0 =>
          \/ positions'[e[2]] # NoPosition /\ positions'[e[2]].of = e
          \/ e[1] <= checkpoint'.tick
    <3>1. positions'[Current[2]] # NoPosition /\ positions'[Current[2]].of = Current
      BY <1>1, <2>1, <2>2 DEF BooksTypeOK, NoPosition
    <3> QED
      BY <2>2, <2>3, <2>4, <3>1 DEF KeptInv, Held
  <2> QED
    BY <2>5 DEF KeptInv, Held
<1>4. CASE RemovePosition
  <2>1. /\ job.pc = "booked" /\ job.symbol \in Symbols /\ UNCHANGED <<opened, checkpoint>>
        /\ positions' = [positions EXCEPT ![job.symbol] = NoPosition]
    BY <1>1, <1>4 DEF RemovePosition, At, JobOK
  <2>2. positions[job.symbol].of[1] <= checkpoint.tick
    BY <2>1 DEF PassedInv, Passed
  <2> QED
    BY <1>1, <1>2, <2>1, <2>2 DEF KeptInv, Held, BooksTypeOK
<1>5. CASE Skip \/ SaveDispatched \/ RecordBar
  <2>1. /\ UNCHANGED <<positions, opened>> /\ checkpoint'.tick = job.tick
        /\ checkpoint.tick <= job.tick
    BY <1>1, <1>5, NotDispatched
       DEF Skip, SaveDispatched, RecordBar, Saved, brokerVars, At, ResumeInv, Executing, Recording
  <2> QED
    BY <1>1, <1>2, <2>1 DEF KeptInv, Held
<1>6. CASE ClearCheckpoint
  BY <1>1, <1>6, Goes DEF Over
<1>7. CASE UNCHANGED <<positions, opened, checkpoint>>
  BY <1>7 DEF KeptInv, Held
<1> QED
  BY <1>3, <1>4, <1>5, <1>6, <1>7, Frame

LEMMA NearStep ==
  ASSUME TypeInv, ResumeInv, OpenInv, NearInv, Next, ~Over'
  PROVE  NearInv'
<1>1. /\ positions \in [Symbols -> Position \cup {NoPosition}] /\ Timeline' = Timeline
      /\ job \in Jobs /\ JobOK /\ checkpoint.tick \in Nat /\ job.tick \in Nat
      /\ Timeline \subseteq Nat /\ candles' = candles
  BY Givens, CheckpointIs, InTimeline DEF TypeInv, ReplayTypeOK, BooksTypeOK
<1>2. ASSUME NEW s \in Open', ~Passed(s)'
      PROVE  Rest' = {} /\ \A u \in Timeline : checkpoint'.tick < u => positions'[s].of[1] <= u
  <2>1. CASE OpenPosition /\ positions'[s].of = Current
    <3>1. UNCHANGED checkpoint /\ Rest' = Rest
      BY <1>1, <2>1 DEF OpenPosition, Rest
    <3>2. Ahead
      BY <2>1 DEF OpenPosition, At, ResumeInv, Executing
    <3>3. positions'[s].of[1] = job.tick
      BY <2>1 DEF Current
    <3> QED
      BY <3>1, <3>2, <3>3 DEF Ahead, Follows
  <2>2. CASE UNCHANGED checkpoint /\ s \in Open /\ positions'[s] = positions[s]
    BY <1>1, <1>2, <2>2 DEF NearInv, Passed, Rest
  <2>3. CASE (Skip \/ SaveDispatched) /\ s \in Open /\ positions'[s] = positions[s]
    <3>1. checkpoint'.tick = job.tick /\ checkpoint.tick < job.tick /\ job.tick \in Timeline
      BY <1>1, <2>3, NotDispatched DEF Skip, SaveDispatched, Saved, At, ResumeInv, Executing, JobOK
    <3>2. positions[s].of[1] \in Nat
      BY <1>1, <2>3 DEF OpenInv
    <3> QED
      BY <1>1, <1>2, <2>3, <3>1, <3>2 DEF NearInv, Passed
  <2>4. CASE RecordBar /\ s \in Open /\ positions'[s] = positions[s]
    <3>1. checkpoint'.tick = job.tick /\ checkpoint.tick = job.tick
      BY <2>4 DEF RecordBar, Saved, At, ResumeInv, Recording
    <3>2. Rest # {}
      BY <1>1, <2>4, <3>1, NextBarIsRest DEF RecordBar, At, ResumeInv, Recording, JobOK
    <3> QED
      BY <1>2, <2>4, <3>1, <3>2 DEF NearInv, Passed
  <2>5. ~ClearCheckpoint
    BY <1>1, Goes DEF Over
  <2> QED
    BY <1>2, <2>1, <2>2, <2>3, <2>4, <2>5, OpenOnly, Frame
<1> QED
  BY <1>1, <1>2 DEF NearInv

\* Nothing that a tick liquidates was opened in that tick, which is outside the window.
LEMMA ToClosePassed ==
  ASSUME TypeInv, ResumeInv, OpenInv, NearInv, BeginTick
  PROVE  \A s \in ToClose : Passed(s)
<1> SUFFICES ASSUME NEW s \in ToClose, ~Passed(s) PROVE FALSE
  OBVIOUS
<1>1. /\ job.pc = "tick" /\ job.tick \in Timeline /\ Timeline \subseteq Nat
      /\ checkpoint.tick \in Nat /\ ~inside[job.tick] /\ job.was # {} /\ s \in Open
  BY InTimeline, CheckpointIs DEF BeginTick, At, TypeInv, JobOK, ToClose, Closes, Open
<1>2. Follows(job.tick, checkpoint.tick)
  BY <1>1 DEF ResumeInv, Begun, Ahead
<1>3. positions[s].of[1] \in Timeline /\ inside[positions[s].of[1]]
  BY <1>1 DEF OpenInv
<1>4. positions[s].of[1] \in Nat /\ job.tick \in Nat
  BY <1>1, <1>3
<1>5. checkpoint.tick < positions[s].of[1]
  BY <1>1, <1>4 DEF Passed
<1>6. positions[s].of[1] <= job.tick
  BY <1>1, <1>2 DEF NearInv, Follows
<1>7. job.tick <= positions[s].of[1]
  BY <1>2, <1>3, <1>5 DEF Follows
<1>8. job.tick = positions[s].of[1]
  BY <1>4, <1>6, <1>7
<1> QED
  BY <1>1, <1>3, <1>8

\* The position of a candle that the checkpoint does not have yet was opened before.
LEMMA BarPassed ==
  ASSUME TypeInv, ResumeInv, NearInv, EvaluateBar, positions[job.symbol] # NoPosition
  PROVE  Passed(job.symbol)
<1>1. /\ job.pc = "bars" /\ job.symbol \in Symbols /\ job.symbol = NextBar
      /\ checkpoint.tick = job.tick
  BY DEF EvaluateBar, At, ResumeInv, Recording
<1>2. Rest # {}
  BY <1>1, NextBarIsRest
<1> QED
  BY <1>1, <1>2 DEF NearInv, Open

LEMMA PassedStep ==
  ASSUME TypeInv, ResumeInv, OpenInv, NearInv, PassedInv, Next
  PROVE  PassedInv'
<1>1. job \in Jobs /\ JobOK /\ positions \in [Symbols -> Position \cup {NoPosition}]
  BY Givens DEF TypeInv, ReplayTypeOK, BooksTypeOK
<1> USE <1>1 DEF Liquidating, At, Stopped, Ended
<1>2. CASE Launch \/ Start \/ Raises \/ Crash \/ CancelRead \/ CancelCommit
  BY <1>2 DEF Launch, Start, Raises, Crash, CancelRead, CancelCommit, NoJob, PassedInv, Passed,
              brokerVars
<1>3. CASE Replaying
  <2>1. CASE BeginTick
    <3>1. /\ job'.todo = ToClose /\ job'.pc \in {"liquidate", "dispatch"}
          /\ UNCHANGED <<positions, checkpoint>>
      BY <2>1 DEF BeginTick, Jobs, brokerVars
    <3>2. \A s \in ToClose : Passed(s)
      BY <2>1, ToClosePassed
    <3> QED
      BY <3>1, <3>2 DEF PassedInv, Passed
  <2>2. CASE EvaluateBar
    <3>1. /\ ~Liquidating' /\ job'.symbol = job.symbol /\ UNCHANGED <<positions, checkpoint>>
          /\ job'.pc # "booked"
      BY <2>2 DEF EvaluateBar, Closed, Jobs
    <3>2. job'.pc = "traded" => positions[job.symbol] # NoPosition
      BY <2>2, PlaceKept, <3>1 DEF JobOK
    <3> QED
      BY <2>2, <3>1, <3>2, BarPassed DEF PassedInv, Passed
  <2>3. CASE Fetch \/ FetchNothing \/ Cancelled \/ EndTick \/ RecordBar \/ Complete
             \/ ClearCheckpoint \/ Report
    <3>1. job'.pc \in {"tick", "idle", "clear", "report", "bars"}
      BY <2>3, Goes
    <3> QED
      BY <3>1 DEF PassedInv
  <2> QED
    BY <1>3, <2>1, <2>2, <2>3 DEF Replaying
<1>4. CASE Dispatching
  <2>1. ~Liquidating' /\ job'.pc \notin {"traded", "booked"}
    <3>1. CASE Execute
      BY <3>1 DEF Execute, Jobs
    <3>2. CASE Match
      BY <3>2 DEF Match, Jobs
    <3>3. CASE Resume \/ Skip \/ SaveDispatched
      BY <3>3 DEF Resume, Skip, SaveDispatched, Jobs
    <3>4. CASE NoTrade \/ EndExecution \/ ChargeFee \/ OpenPosition \/ CostLimitExceeded
      BY <3>4 DEF NoTrade, EndExecution, ChargeFee, OpenPosition, CostLimitExceeded, Jobs
    <3> QED
      BY <1>4, <3>1, <3>2, <3>3, <3>4 DEF Dispatching
  <2> QED
    BY <2>1 DEF PassedInv
<1>5. CASE Closing
  <2>1. CASE Liquidate
    <3>1. PICK s \in job.todo : Closed(s, "liquidate")
      BY <2>1 DEF Liquidate
    <3>2. /\ job'.pc = "traded" /\ job'.symbol = s /\ job'.todo = job.todo \ {s}
          /\ UNCHANGED <<positions, checkpoint>> /\ job.pc = "liquidate"
      BY <2>1, <3>1 DEF Liquidate, Closed, Jobs
    <3> QED
      BY <3>2 DEF PassedInv, Passed
  <2>2. CASE Liquidated \/ Sync
    <3>1. job'.pc \in {"sync", "dispatch", "record"}
      BY <2>2, Goes DEF Liquidated, Jobs
    <3> QED
      BY <3>1 DEF PassedInv
  <2>3. CASE BookResult
    <3>1. /\ job'.pc = "booked" /\ job'.next = job.next /\ job'.symbol = job.symbol
          /\ job'.todo = job.todo /\ job.pc = "traded" /\ UNCHANGED <<positions, checkpoint>>
      BY <2>3 DEF BookResult, Jobs
    <3> QED
      BY <3>1 DEF PassedInv, Passed
  <2>4. CASE RemovePosition
    <3>1. /\ job'.next = job.next /\ job'.todo = job.todo /\ job.pc = "booked"
          /\ job'.pc = IF job.next = "liquidate" THEN "liquidate" ELSE "sync"
          /\ job.symbol \notin job.todo /\ UNCHANGED checkpoint
          /\ positions' = [positions EXCEPT ![job.symbol] = NoPosition]
      BY <2>4 DEF RemovePosition, Jobs, JobOK
    <3>2. \A s \in job.todo : positions'[s] = positions[s]
      BY <3>1 DEF Jobs
    <3> QED
      BY <3>1, <3>2 DEF PassedInv, Passed
  <2> QED
    BY <1>5, <2>1, <2>2, <2>3, <2>4 DEF Closing
<1> QED
  BY <1>2, <1>3, <1>4, <1>5 DEF Next

LEMMA OnceStep ==
  ASSUME TypeInv, BooksInv, ResumeInv, OpenInv, QueueInv, OnceInv, Next
  PROVE  OnceInv'
<1>1. Lives' => Lives
  BY LivesBefore
<1>2. Lives' => KeptInv' /\ NearInv' /\ PassedInv'
  BY <1>1, KeptStep, NearStep, PassedStep DEF OnceInv, Lives
<1>3. ASSUME ~again' PROVE \A e \in Executions : opened'[e] <= 1
  <2>1. ~again /\ opened \in [Executions -> Nat]
    BY <1>3, Frame DEF Crash, TypeInv, ReplayTypeOK, RunTypeOK, BooksTypeOK
  <2>2. CASE OpenPosition
    <3>1. Lives
      BY <2>1, <2>2 DEF Lives, Over, OpenPosition, At, QueueInv
    <3>2. opened[Current] = 0 /\ opened' = [opened EXCEPT ![Current] = @ + 1]
      BY <2>2, <3>1, OpensFirst DEF OnceInv, OpenPosition
    <3> QED
      BY <2>1, <3>2 DEF OnceInv
  <2>3. CASE UNCHANGED opened
    BY <2>1, <2>3 DEF OnceInv
  <2> QED
    BY <2>2, <2>3, Frame
<1> QED
  BY <1>2, <1>3 DEF OnceInv

-------------------------------------------------------------------------------
(* A run without a crash                                                     *)

\* A run that has not begun has nothing in its books and no checkpoint.
FreshInv ==
  /\ ~again
  /\ queue \in {"launch", "run"} \/ job.pc = "fetch" =>
       trades = <<>> /\ checkpoint = NoCheckpoint /\ \A e \in Executions : cash[e].fees = 0
  /\ job.pc # "idle" => job.resumed = NoCheckpoint

\* An execution that will not be run any more; who has paid a fee is one of them.
Past(e) ==
  /\ e[1] <= job.tick
  /\ Begun => e[1] < job.tick
  /\ Executing /\ e[1] = job.tick => e[2] \notin job.todo
  /\ job.pc = "agents" => e # Current
Taken == job.pc \in {"agents", "charged", "opened"} => job.symbol \notin job.todo

FeesInv ==
  /\ \A e \in Executions : cash[e].fees <= 1
  /\ job.pc # "idle" => \A e \in Executions : cash[e].fees > 0 => Past(e)
  /\ Taken

\* A position that is among the trades is being closed.
TradesInv ==
  /\ \A i, j \in DOMAIN trades : trades[i] = trades[j] => i = j
  /\ \A e \in Executions : cash[e].results <= 1 /\ (cash[e].results > 0 => Traded(e))
  /\ job.pc # "idle" =>
       \A e \in Executions : Held(e) /\ Traded(e) =>
         job.pc \in {"traded", "booked"} /\ job.symbol = e[2]
  /\ job.pc = "traded" => cash[positions[job.symbol].of].results = 0

SyncInv ==
  job.pc # "idle" =>
    /\ \A i \in 1 .. job.synced : trades[i] \in outcomes
    /\ job.pc \notin {"liquidate", "traded", "booked", "sync"} => job.synced = Len(trades)

SmoothInv == crashes = 0 => FreshInv /\ FeesInv /\ TradesInv /\ SyncInv

\* What a step of the orchestrator leaves as it is.
LEMMA Carries ==
  ASSUME TypeInv, Next
  PROVE  \/ job' = NoJob \/ Start \/ Fetch \/ EndTick \/ UNCHANGED job
         \/ /\ job.pc \notin {"idle", "fetch"} /\ job'.pc \notin {"idle", "fetch"}
            /\ job'.tick = job.tick /\ job'.resumed = job.resumed
            /\ Sync \/ job'.synced = job.synced
            /\ UNCHANGED queue
<1>1. job \in Jobs /\ JobOK
  BY Givens
<1> USE <1>1 DEF At, Stopped, Ended, Closed
<1>2. CASE Launch \/ Start \/ Raises \/ Crash \/ CancelRead \/ CancelCommit
  BY <1>2 DEF Launch, Start, Raises, Crash, CancelRead, CancelCommit, NoJob
<1>3. CASE Replaying
  <2>1. CASE FetchNothing \/ Report
    BY <2>1 DEF FetchNothing, Report
  <2>2. CASE BeginTick
    BY <2>2 DEF BeginTick, Jobs
  <2>3. CASE EvaluateBar
    BY <2>3 DEF EvaluateBar, Jobs
  <2>4. CASE RecordBar
    BY <2>4 DEF RecordBar, Jobs
  <2>5. CASE Cancelled \/ Complete \/ ClearCheckpoint
    BY <2>5 DEF Cancelled, Complete, ClearCheckpoint, Jobs
  <2> QED
    BY <1>3, <2>1, <2>2, <2>3, <2>4, <2>5 DEF Replaying
<1>4. CASE Dispatching
  <2>1. CASE Execute
    BY <2>1 DEF Execute, Jobs
  <2>2. CASE Match
    BY <2>2 DEF Match, Jobs
  <2>3. CASE Resume \/ Skip \/ SaveDispatched
    BY <2>3 DEF Resume, Skip, SaveDispatched, Jobs
  <2>4. CASE NoTrade \/ EndExecution \/ ChargeFee \/ OpenPosition \/ CostLimitExceeded
    BY <2>4 DEF NoTrade, EndExecution, ChargeFee, OpenPosition, CostLimitExceeded, Jobs
  <2> QED
    BY <1>4, <2>1, <2>2, <2>3, <2>4 DEF Dispatching
<1>5. CASE Closing
  <2>1. CASE Liquidate
    BY <2>1 DEF Liquidate, Jobs
  <2>2. CASE Liquidated
    BY <2>2 DEF Liquidated, Jobs
  <2>3. CASE BookResult
    BY <2>3 DEF BookResult, Jobs
  <2>4. CASE RemovePosition
    BY <2>4 DEF RemovePosition, Jobs
  <2>5. CASE Sync
    <3>1. /\ job'.tick = job.tick /\ job'.resumed = job.resumed /\ UNCHANGED queue
      BY <2>5 DEF Sync, Jobs
    <3> QED
      BY <2>5, <3>1, Goes
  <2> QED
    BY <1>5, <2>1, <2>2, <2>3, <2>4, <2>5 DEF Closing
<1> QED
  BY <1>2, <1>3, <1>4, <1>5 DEF Next

LEMMA FreshStep == ASSUME TypeInv, QueueInv, FreshInv, Next, ~Crash PROVE FreshInv'
<1>1. job \in Jobs /\ JobOK
  BY Givens
<1>2. ~again'
  BY Frame DEF FreshInv
<1>3. ASSUME queue' \in {"launch", "run"} \/ job'.pc = "fetch"
      PROVE  trades' = <<>> /\ checkpoint' = NoCheckpoint /\ \A e \in Executions : cash'[e].fees = 0
  <2>1. queue \in {"launch", "run"} \/ job.pc = "fetch"
    <3>1. CASE Start \/ UNCHANGED <<job, queue>>
      BY <1>3, <3>1 DEF Start
    <3>2. CASE Launch \/ Raises \/ CancelRead \/ CancelCommit
      BY <1>3, <3>2 DEF Launch, Raises, CancelRead, CancelCommit, Stopped, NoJob
    <3>3. CASE Fetch \/ EndTick
      BY <1>1, <1>3, <3>3, Goes DEF Fetch, EndTick, At, QueueInv
    <3>4. CASE FetchNothing \/ Report
      BY <1>3, <3>4 DEF FetchNothing, Report, Stopped, NoJob
    <3>5. ASSUME At("tick") \/ At("bars") \/ At("record") \/ At("clear") \/ Dispatching \/ Closing
          PROVE  queue' = "taken" /\ job.pc # "idle"
      BY <3>5, AtWork DEF At, QueueInv
    <3>6. Cancelled \/ BeginTick \/ EvaluateBar \/ RecordBar \/ Complete \/ ClearCheckpoint =>
            At("tick") \/ At("bars") \/ At("record") \/ At("clear")
      BY Zenon DEF Cancelled, BeginTick, EvaluateBar, RecordBar, Complete, ClearCheckpoint
    <3> QED
      BY <1>3, <3>1, <3>2, <3>3, <3>4, <3>5, <3>6, Carries DEF Next, Replaying, NoJob
  <2>2. job.pc \in {"idle", "fetch"}
    BY <2>1 DEF QueueInv
  <2>3. UNCHANGED <<trades, checkpoint, cash>>
    BY <2>2, Frame
       DEF Liquidate, EvaluateBar, ChargeFee, BookResult, Skip, SaveDispatched, RecordBar,
           ClearCheckpoint, At
  <2> QED
    BY <2>1, <2>3 DEF FreshInv
<1>4. ASSUME job'.pc # "idle" PROVE job'.resumed = NoCheckpoint
  <2>1. CASE Start
    BY <2>1 DEF Start, NoJob
  <2>2. CASE Fetch
    BY <1>1, <2>2 DEF Fetch, At, Jobs, FreshInv
  <2>3. CASE EndTick
    BY <1>1, <2>3 DEF EndTick, Jobs
  <2> QED
    BY <1>4, <2>1, <2>2, <2>3, Carries DEF FreshInv, NoJob
<1> QED
  BY <1>2, <1>3, <1>4 DEF FreshInv

LEMMA FeesKept ==
  ASSUME TypeInv, Next
  PROVE  /\ ~ChargeFee => \A e \in Executions : cash'[e].fees = cash[e].fees
         /\ ~BookResult => \A e \in Executions : cash'[e].results = cash[e].results
<1>1. cash \in [Executions -> [fees : Nat, results : Nat]]
  BY DEF TypeInv, ReplayTypeOK, BooksTypeOK
<1>2. CASE ChargeFee
  <2>1. cash' = [cash EXCEPT ![Current].fees = @ + 1] /\ ~BookResult
    BY <1>2 DEF ChargeFee, BookResult, At
  <2> QED
    BY <1>1, <1>2, <2>1
<1>3. CASE BookResult
  <2>1. cash' = [cash EXCEPT ![positions[job.symbol].of].results = @ + 1]
    BY <1>3 DEF BookResult
  <2> QED
    BY <1>1, <1>3, <2>1
<1> QED
  BY <1>2, <1>3, Frame

LEMMA ChargeStep == ASSUME TypeInv, FeesInv, ChargeFee PROVE FeesInv'
<1>1. /\ job \in Jobs /\ cash \in [Executions -> [fees : Nat, results : Nat]]
      /\ job.pc = "agents" /\ Current \in Executions /\ Current[1] = job.tick
      /\ Current[2] = job.symbol /\ job.tick \in Nat
      /\ \A e \in Executions : e[1] \in Nat /\ e[2] \in Symbols
  BY CurrentIsBar, InTimeline
     DEF ChargeFee, At, Executions, Current, TypeInv, ReplayTypeOK, BooksTypeOK, Bars
<1>2. /\ job'.pc = "charged" /\ job'.tick = job.tick /\ job'.todo = job.todo
      /\ job'.symbol = job.symbol
  BY <1>1 DEF ChargeFee, Jobs
<1>3. cash[Current].fees = 0 /\ job.symbol \notin job.todo
  <2>1. ~(cash[Current].fees > 0) /\ cash[Current].fees \in Nat
    BY <1>1 DEF FeesInv, Past
  <2> QED
    BY <1>1, <2>1 DEF FeesInv, Taken
<1>4. \A e \in Executions : cash'[e].fees = IF e = Current THEN 1 ELSE cash[e].fees
  BY <1>1, <1>3 DEF ChargeFee
<1>5. \A e \in Executions : cash[e].fees > 0 \/ e = Current => Past(e)'
  BY <1>1, <1>2, <1>3 DEF FeesInv, Past, Begun, Executing
<1> QED
  BY <1>2, <1>3, <1>4, <1>5 DEF FeesInv, Taken

LEMMA PastStep ==
  ASSUME TypeInv, FreshInv, FeesInv, Next, ~Crash, ~ChargeFee, job'.pc # "idle"
  PROVE  Taken' /\ \A e \in Executions : cash[e].fees > 0 => Past(e)'
<1> DEFINE Paid == {e \in Executions : cash[e].fees > 0}
           Goal == Taken' /\ \A e \in Paid : Past(e)'
<1> SUFFICES Goal
  OBVIOUS
<1>1. /\ job \in Jobs /\ JobOK /\ job.tick \in Nat /\ \A e \in Paid : e[1] \in Nat
      /\ job.pc # "idle" => \A e \in Paid : Past(e)
      /\ Taken
  BY Givens, InTimeline DEF Executions, Bars, FeesInv
<1> USE <1>1 DEF At
<1>2. CASE UNCHANGED job
  BY <1>2 DEF Past, Begun, Executing, Current, Taken
<1>3. CASE Start
  <2>1. Paid = {} /\ job'.pc = "fetch"
    BY <1>3 DEF Start, FreshInv, NoJob
  <2> QED
    BY <2>1 DEF Taken
<1>4. CASE Fetch
  <2>1. Paid = {} /\ job'.pc = "tick"
    BY <1>4, Goes DEF Fetch, FreshInv
  <2> QED
    BY <2>1 DEF Taken
<1>5. CASE EndTick
  <2>1. job'.pc = "tick" /\ job'.tick = Min(Later) /\ Min(Later) \in Later /\ job.pc = "bars"
    BY <1>5, InTimeline, MinIsLeast DEF EndTick, Jobs, Later
  <2>2. job'.tick > job.tick /\ job'.tick \in Nat
    BY <2>1, InTimeline DEF Later
  <2>3. ASSUME NEW e \in Paid PROVE Past(e)'
    BY <2>1, <2>2 DEF Past, Begun, Executing
  <2> QED
    BY <2>1, <2>3 DEF Taken
<1>6. CASE Execute
  <2>1. PICK s \in job.todo :
          \/ job' = [job EXCEPT !.todo = @ \ {s}]
          \/ job' = [job EXCEPT !.pc = "agents", !.symbol = s, !.todo = @ \ {s}]
    BY <1>6, Zenon DEF Execute
  <2>2. /\ job'.tick = job.tick /\ job'.todo = job.todo \ {s} /\ job.pc = "execute"
        /\ job'.pc = "execute" \/ (job'.pc = "agents" /\ job'.symbol = s)
    BY <1>6, <2>1 DEF Execute, Jobs
  <2>3. ASSUME NEW e \in Paid PROVE Past(e)'
    BY <2>2 DEF Past, Begun, Executing, Current
  <2> QED
    BY <2>2, <2>3 DEF Taken
<1>7. CASE NoTrade \/ OpenPosition \/ EndExecution
  <2>1. /\ job'.tick = job.tick /\ job'.todo = job.todo /\ job'.symbol = job.symbol
        /\ job.pc \in {"agents", "charged", "opened"} /\ job'.pc \in {"execute", "opened"}
    BY <1>7 DEF NoTrade, OpenPosition, EndExecution, Ended, Jobs
  <2>2. ASSUME NEW e \in Paid PROVE Past(e)'
    BY <2>1 DEF Past, Begun, Executing
  <2> QED
    BY <2>1, <2>2 DEF Taken
<1>8. CASE Match
  <2>1. job'.tick = job.tick /\ job.pc = "dispatch" /\ job'.pc = "execute"
    BY <1>8 DEF Match, Jobs
  <2>2. ASSUME NEW e \in Paid PROVE Past(e)'
    BY <2>1 DEF Past, Begun, Executing
  <2> QED
    BY <2>1, <2>2 DEF Taken
<1>9. ASSUME job'.tick = job.tick, job.pc # "idle", Begun' => Begun, ~Executing' PROVE Goal
  <2>1. ASSUME NEW e \in Paid PROVE Past(e)'
    BY <1>9 DEF Past, Executing
  <2> QED
    BY <1>9, <2>1 DEF Taken, Executing
<1>10. ASSUME Cancelled \/ BeginTick \/ EvaluateBar \/ RecordBar \/ Complete \/ ClearCheckpoint
       PROVE  (Begun' => Begun) /\ ~Executing' /\ job'.tick = job.tick /\ job.pc # "idle"
  <2> USE DEF Begun, Executing
  <2>1. CASE BeginTick
    BY <2>1 DEF BeginTick, Jobs
  <2>2. CASE EvaluateBar
    BY <2>2 DEF EvaluateBar, Closed, Jobs
  <2>3. CASE RecordBar
    BY <2>3 DEF RecordBar, Jobs
  <2>4. CASE Cancelled \/ Complete \/ ClearCheckpoint
    BY <2>4 DEF Cancelled, Complete, ClearCheckpoint, Jobs
  <2> QED
    BY <1>10, <2>1, <2>2, <2>3, <2>4
<1>11. ASSUME Resume \/ Skip \/ CostLimitExceeded \/ SaveDispatched
       PROVE  (Begun' => Begun) /\ ~Executing' /\ job'.tick = job.tick /\ job.pc # "idle"
  BY <1>11 DEF Resume, Skip, CostLimitExceeded, SaveDispatched, Begun, Executing, Jobs
<1>12. ASSUME Closing
       PROVE  (Begun' => Begun) /\ ~Executing' /\ job'.tick = job.tick /\ job.pc # "idle"
  <2> USE DEF Begun, Executing
  <2>1. CASE Liquidate
    BY <2>1 DEF Liquidate, Closed, Jobs
  <2>2. CASE Liquidated
    BY <2>2 DEF Liquidated, Jobs
  <2>3. CASE BookResult
    BY <2>3 DEF BookResult, Jobs
  <2>4. CASE RemovePosition
    BY <2>4 DEF RemovePosition, Jobs, JobOK
  <2>5. CASE Sync
    <3>1. job'.pc = "sync" \/ job'.pc = job.next
      BY <2>5 DEF Sync, Jobs, JobOK
    <3> QED
      BY <2>5, <3>1 DEF Sync, Jobs, JobOK
  <2> QED
    BY <1>12, <2>1, <2>2, <2>3, <2>4, <2>5 DEF Closing
<1> HIDE DEF Goal
<1>13. ~(Launch \/ Raises \/ CancelRead \/ CancelCommit \/ FetchNothing \/ Report) \/ UNCHANGED job
  BY DEF Launch, Raises, CancelRead, CancelCommit, FetchNothing, Report, Stopped, NoJob
<1> QED
  BY <1>2, <1>3, <1>4, <1>5, <1>6, <1>7, <1>8, <1>9, <1>10, <1>11, <1>12, <1>13
     DEF Next, Replaying, Dispatching

LEMMA FeesStep == ASSUME TypeInv, FreshInv, FeesInv, Next, ~Crash PROVE FeesInv'
<1>1. CASE ChargeFee
  BY <1>1, ChargeStep
<1>2. CASE ~ChargeFee /\ job'.pc = "idle"
  BY <1>2, FeesKept DEF FeesInv, Taken
<1>3. CASE ~ChargeFee /\ job'.pc # "idle"
  <2>1. Taken' /\ \A e \in Executions : cash[e].fees > 0 => Past(e)'
    BY <1>3, PastStep
  <2>2. \A e \in Executions : cash'[e].fees = cash[e].fees
    BY <1>3, FeesKept
  <2> QED
    BY <2>1, <2>2 DEF FeesInv
<1> QED
  BY <1>1, <1>2, <1>3

\* A position that is being closed is closed, unless the orchestrator stops.
LEMMA FromClosing ==
  ASSUME QueueInv, Next, job.pc \in {"liquidate", "traded", "booked", "sync"}
  PROVE  Closing \/ UNCHANGED job \/ job' = NoJob
<1>1. CASE Launch \/ Start \/ Raises \/ Crash \/ CancelRead \/ CancelCommit
  BY <1>1 DEF Launch, Start, Raises, Crash, CancelRead, CancelCommit, Stopped, QueueInv
<1>2. CASE Replaying
  BY <1>2 DEF Replaying, Fetch, FetchNothing, Cancelled, BeginTick, EndTick, EvaluateBar,
              RecordBar, Complete, ClearCheckpoint, Report, At
<1>3. ~Dispatching
  BY AtWork DEF At
<1> QED
  BY <1>1, <1>2, <1>3 DEF Next

LEMMA TradesClosing ==
  ASSUME TypeInv, BooksInv, TradesInv, Next,
         NEW s \in Symbols, NEW next, positions[s] \in Position, Closed(s, next),
         UNCHANGED <<positions, cash, opened>>
  PROVE  TradesInv'
<1> DEFINE x == positions[s].of
<1>1. /\ x \in Executions /\ x[2] = s /\ trades \in Seq(Executions) /\ Held(x)
      /\ positions[s] # NoPosition
  <2>1. x \in Executions /\ x # <<0, 0>>
    BY InTimeline DEF Position, Executions, Bars, Ticks
  <2>2. positions[s] # NoPosition
    BY <2>1 DEF NoPosition
  <2> QED
    BY <2>1, <2>2 DEF BooksInv, TypeInv, ReplayTypeOK, BooksTypeOK, Held
<1>2. /\ DOMAIN trades' = DOMAIN trades \cup {Len(trades) + 1}
      /\ \A i \in DOMAIN trades : trades'[i] = trades[i]
      /\ trades'[Len(trades) + 1] = x /\ trades' # trades
  BY <1>1 DEF Closed
<1>3. job'.pc = "traded" /\ job'.symbol = s
  BY InTimeline DEF Closed, Jobs
<1>4. job.pc \in {"liquidate", "bars"}
  BY <1>2, Frame DEF Liquidate, EvaluateBar, At
<1>5. ~Traded(x)
  BY <1>1, <1>4 DEF TradesInv
<1>6. \A e \in Executions : Traded(e)' <=> Traded(e) \/ e = x
  BY <1>2 DEF Traded
<1>7. \A i, j \in DOMAIN trades' : trades'[i] = trades'[j] => i = j
  BY <1>2, <1>5 DEF TradesInv, Traded
<1>8. \A e \in Executions : cash'[e].results <= 1 /\ (cash'[e].results > 0 => Traded(e)')
  BY <1>6 DEF TradesInv
<1>9. cash'[positions'[s].of].results = 0
  <2>1. cash[x].results \in Nat
    BY <1>1 DEF TypeInv, ReplayTypeOK, BooksTypeOK
  <2>2. ~(cash[x].results > 0)
    BY <1>1, <1>5 DEF TradesInv
  <2> QED
    BY <2>1, <2>2
<1>10. ASSUME NEW e \in Executions, Held(e)', Traded(e)' PROVE job'.symbol = e[2]
  <2>1. Held(e)
    BY <1>10 DEF Held
  <2>2. ~Traded(e)
    BY <1>4, <2>1 DEF TradesInv
  <2> QED
    BY <1>1, <1>3, <1>6, <1>10, <2>2
<1> QED
  BY <1>3, <1>7, <1>8, <1>9, <1>10 DEF TradesInv

LEMMA TradesStep ==
  ASSUME TypeInv, BooksInv, ResumeInv, QueueInv, OnceInv, FreshInv, TradesInv, Next, ~Crash
  PROVE  TradesInv'
<1>1. BooksTypeOK /\ job \in Jobs /\ JobOK
  BY Givens DEF TypeInv, ReplayTypeOK
<1>2. CASE ChargeFee
  <2>1. job.pc = "agents" /\ job'.pc = "charged" /\ UNCHANGED <<positions, trades>> /\ ~BookResult
    BY <1>1, <1>2 DEF ChargeFee, At, Jobs, BookResult
  <2> QED
    BY <2>1, FeesKept DEF TradesInv, Held, Traded
<1>3. CASE OpenPosition
  <2>1. PICK exit \in 0 .. MaxTicks :
          positions' = [positions EXCEPT ![job.symbol] = [of |-> Current, exit |-> exit]]
    BY <1>3 DEF OpenPosition
  <2>2. /\ job.pc = "charged" /\ job'.pc = "opened" /\ UNCHANGED <<trades, cash>>
        /\ job.symbol \in Symbols
    BY <1>1, <1>3 DEF OpenPosition, At, Jobs, JobOK
  <2>3. opened[Current] = 0
    BY <1>3, <2>2, OpensFirst DEF OnceInv, Lives, Over, FreshInv, QueueInv
  <2>4. ~Traded(Current)
    BY <2>3 DEF BooksInv, Traded
  <2>5. ASSUME NEW e \in Executions, Held(e)', Traded(e) PROVE FALSE
    <3>1. ~Held(e)
      BY <2>2, <2>5 DEF TradesInv
    <3>2. e[2] \in Symbols
      BY DEF Executions, Bars
    <3>3. positions'[e[2]] # positions[e[2]] /\ positions'[e[2]].of = e
      BY <2>5, <3>1 DEF Held
    <3>4. e = Current
      BY <1>1, <2>1, <2>2, <3>2, <3>3 DEF BooksTypeOK
    <3> QED
      BY <2>4, <2>5, <3>4
  <2> QED
    BY <2>2, <2>5 DEF TradesInv, Traded
<1>4. CASE BookResult
  <2> DEFINE x == positions[job.symbol].of
  <2>1. /\ x \in Executions /\ job'.pc = "booked" /\ job'.symbol = job.symbol
        /\ job.pc = "traded" /\ UNCHANGED <<positions, trades>>
    BY <1>1, <1>4 DEF BookResult, At, Jobs, JobOK, BooksTypeOK, Position
  <2>2. cash[x].results = 0 /\ Traded(x)
    BY <2>1 DEF TradesInv, BooksInv
  <2>3. \A e \in Executions : cash'[e].results = IF e = x THEN 1 ELSE cash[e].results
    BY <1>1, <1>4, <2>1, <2>2 DEF BookResult, BooksTypeOK
  <2> QED
    BY <2>1, <2>2, <2>3 DEF TradesInv, Held, Traded
<1>5. CASE RemovePosition
  <2>1. /\ job.pc = "booked" /\ job.symbol \in Symbols /\ job'.pc \in {"liquidate", "sync"}
        /\ UNCHANGED <<trades, cash>>
        /\ positions' = [positions EXCEPT ![job.symbol] = NoPosition]
    BY <1>1, <1>5 DEF RemovePosition, At, Jobs, JobOK
  <2>2. ASSUME NEW e \in Executions, Held(e)', Traded(e) PROVE FALSE
    <3>1. e[2] \in Symbols /\ e[2] # job.symbol
      BY <1>1, <2>1, <2>2 DEF Held, BooksTypeOK, Executions, Bars
    <3>2. Held(e)
      BY <1>1, <2>1, <2>2, <3>1 DEF Held, BooksTypeOK
    <3> QED
      BY <2>1, <2>2, <3>1, <3>2 DEF TradesInv
  <2> QED
    BY <2>1, <2>2 DEF TradesInv, Traded
<1>6. ASSUME NEW s \in Symbols, NEW next \in {"liquidate", "record"},
             positions[s] \in Position, Closed(s, next), UNCHANGED <<positions, cash, opened>>
      PROVE  TradesInv'
  BY <1>6, TradesClosing
<1>7. CASE /\ UNCHANGED <<positions, trades, cash, opened>>
           /\ UNCHANGED job \/ job'.pc \notin {"charged", "traded", "booked"}
           /\ ~BookResult /\ ~RemovePosition
  <2>1. ASSUME job'.pc # "idle", NEW e \in Executions, Held(e), Traded(e), ~UNCHANGED job
        PROVE  FALSE
    <3>1. CASE job.pc = "idle"
      <4>1. Start
        BY <1>1, <2>1, <3>1, Carries DEF Fetch, EndTick, At, NoJob
      <4> QED
        BY <2>1, <4>1 DEF FreshInv, Start, Traded
    <3>2. CASE job.pc # "idle"
      <4>1. job.pc \in {"traded", "booked"}
        BY <2>1, <3>2 DEF TradesInv
      <4>2. Closing
        BY <2>1, <4>1, FromClosing DEF NoJob
      <4> QED
        BY <1>7, <4>1, <4>2 DEF Closing, Liquidate, Liquidated, Sync, At
    <3> QED
      BY <3>1, <3>2
  <2> QED
    BY <1>7, <2>1 DEF TradesInv, Held, Traded
<1> QED
  BY <1>2, <1>3, <1>4, <1>5, <1>6, <1>7, BooksFrame

LEMMA SyncStep == ASSUME TypeInv, QueueInv, FreshInv, SyncInv, Next, ~Crash PROVE SyncInv'
<1>1. /\ job \in Jobs /\ JobOK /\ trades \in Seq(Executions) /\ Len(trades) \in Nat
      /\ job.synced \in Nat
  BY Givens DEF TypeInv, ReplayTypeOK, BooksTypeOK, Jobs
<1>2. CASE job' = NoJob
  BY <1>2 DEF SyncInv, NoJob
<1>3. CASE Start
  BY <1>3 DEF Start, NoJob, FreshInv, SyncInv, brokerVars
<1>4. CASE Fetch
  <2>1. job'.synced = 0 /\ trades' = <<>> /\ job'.pc = "tick"
    BY <1>1, <1>4, Goes DEF Fetch, At, Jobs, FreshInv, brokerVars
  <2> QED
    BY <2>1 DEF SyncInv
<1>5. CASE EndTick
  <2>1. job'.synced = job.synced /\ job.pc = "bars" /\ UNCHANGED <<trades, outcomes>>
    BY <1>1, <1>5 DEF EndTick, At, Jobs, brokerVars, rowVars
  <2> QED
    BY <2>1 DEF SyncInv
<1>6. ASSUME job.pc # "idle", ~Sync, job'.synced = job.synced, ~EndTick,
             UNCHANGED job \/ job'.pc # "idle"
      PROVE  SyncInv'
  <2>1. UNCHANGED outcomes
    BY <1>6, Frame
  <2>2. \A i \in 1 .. job.synced : trades'[i] = trades[i]
    <3>1. CASE \E s \in Symbols, next \in {"liquidate", "record"} :
                 positions[s] \in Position /\ Closed(s, next)
      <4>1. PICK s \in Symbols :
              positions[s].of \in Executions /\ trades' = Append(trades, positions[s].of)
        BY <3>1 DEF Closed, Position
      <4> QED
        BY <1>1, <1>6, <4>1 DEF JobOK
    <3> QED
      BY <3>1, ClosesPosition
  <2>3. ASSUME job'.pc \notin {"liquidate", "traded", "booked", "sync"}
        PROVE  /\ UNCHANGED trades
               /\ UNCHANGED job \/ job.pc \notin {"liquidate", "traded", "booked", "sync"}
    <3>1. UNCHANGED trades
      <4>1. \A s, next : Closed(s, next) => job'.pc = "traded"
        BY <1>1 DEF Closed, Jobs
      <4> QED
        BY <2>3, <4>1, ClosesPosition
    <3>2. ASSUME Closing PROVE FALSE
      <4>1. CASE Liquidate
        BY <1>1, <2>3, <4>1 DEF Liquidate, Closed, Jobs
      <4>2. CASE Liquidated
        BY <1>1, <2>3, <4>2 DEF Liquidated, Jobs
      <4>3. CASE BookResult
        BY <1>1, <2>3, <4>3 DEF BookResult, Jobs
      <4>4. CASE RemovePosition
        BY <1>1, <2>3, <4>4 DEF RemovePosition, Jobs
      <4> QED
        BY <1>6, <3>2, <4>1, <4>2, <4>3, <4>4 DEF Closing
    <3> QED
      BY <1>6, <3>1, <3>2, FromClosing DEF NoJob
  <2> QED
    BY <1>6, <2>1, <2>2, <2>3 DEF SyncInv
<1>7. CASE Sync
  <2>1. /\ job.pc = "sync" /\ job'.synced = job.synced + 1 /\ UNCHANGED trades
        /\ job'.pc = IF job.synced + 1 = Len(trades) THEN job.next ELSE job.pc
        /\ outcomes' = outcomes \cup {trades[job.synced + 1]}
    BY <1>1, <1>7 DEF Sync, At, Jobs, brokerVars
  <2> QED
    BY <1>1, <2>1 DEF SyncInv
<1>8. CASE job.pc = "idle"
  <2>1. CASE UNCHANGED job
    BY <1>8, <2>1 DEF SyncInv
  <2> QED
    BY <1>2, <1>3, <1>8, <2>1, Carries DEF Fetch, EndTick, At
<1> QED
  BY <1>2, <1>3, <1>4, <1>5, <1>6, <1>7, <1>8, Carries

LEMMA SmoothStep ==
  ASSUME TypeInv, BooksInv, ResumeInv, QueueInv, OnceInv, SmoothInv, Next
  PROVE  SmoothInv'
<1> SUFFICES ASSUME crashes' = 0 PROVE (FreshInv /\ FeesInv /\ TradesInv /\ SyncInv)'
  BY DEF SmoothInv
<1>1. ~Crash /\ crashes = 0
  BY Frame DEF Crash, TypeInv, ReplayTypeOK, RunTypeOK
<1> QED
  BY <1>1, FreshStep, FeesStep, TradesStep, SyncStep DEF SmoothInv

BooksOnceInv == BooksInv /\ QueueInv /\ OnceInv /\ SmoothInv

LEMMA BooksOnceStep ==
  TypeInv /\ WindowInv /\ ResumeInv /\ BooksOnceInv /\ [Next]_vars => BooksOnceInv'
<1>1. ASSUME TypeInv, WindowInv, ResumeInv, BooksOnceInv, Next PROVE BooksOnceInv'
  BY <1>1, BooksStep, QueueStep, OnceStep, SmoothStep DEF BooksOnceInv, WindowInv
<1>2. ASSUME BooksOnceInv, UNCHANGED vars PROVE BooksOnceInv'
  <2> USE <1>2 DEF BooksOnceInv, vars, givenVars, runVars, rowVars, brokerVars, histVars
  <2>1. BooksInv'
    BY DEF BooksInv, Held, Traded, Current
  <2>2. QueueInv' /\ OnceInv'
    BY DEF QueueInv, OnceInv, Lives, Over, KeptInv, NearInv, PassedInv, Passed, Held, Open, Rest,
           Liquidating, Timeline
  <2>3. SmoothInv'
    BY DEF SmoothInv, FreshInv, FeesInv, TradesInv, SyncInv, Past, Taken, Begun, Executing,
           Current, Held, Traded
  <2> QED
    BY <2>1, <2>2, <2>3
<1> QED
  BY <1>1, <1>2

LEMMA OnceInitially == Init => BooksOnceInv
<1> SUFFICES ASSUME Init PROVE BooksOnceInv
  OBVIOUS
<1>1. BooksInv
  BY DEF Init, BooksInv, NoJob
<1>2. QueueInv
  BY DEF Init, QueueInv, NoJob
<1>3. OnceInv
  BY DEF Init, NoJob, OnceInv, KeptInv, NearInv, PassedInv, Liquidating, Open
<1>4. SmoothInv
  BY DEF Init, NoJob, SmoothInv, FreshInv, FeesInv, TradesInv, SyncInv, Taken, Held
<1> QED
  BY <1>1, <1>2, <1>3, <1>4 DEF BooksOnceInv

\* The trades of an execution are counted.
LEMMA TimesCounts ==
  ASSUME NEW e, \A i, j \in DOMAIN trades : trades[i] = trades[j] => i = j
  PROVE  Times(e) <= 1 /\ (Times(e) = 1 => Traded(e))
<1> DEFINE S == {i \in DOMAIN trades : trades[i] = e}
<1>1. CASE S = {}
  BY <1>1, FS_EmptySet DEF Times
<1>2. ASSUME NEW i \in S PROVE Times(e) = 1 /\ Traded(e)
  <2>1. S = {i}
    BY <1>2
  <2>2. Times(e) = 1
    BY <2>1, FS_Singleton DEF Times
  <2> QED
    BY <1>2, <2>2 DEF Traded
<1> QED
  BY <1>1, <1>2

\* The positions of a run are accounted for: nothing of the broker's books is lost, and as long
\* as a run that is over is not delivered again no execution opens a second position; and
\* without a crash a fee, a result and a trade are booked once, and the row has the result of
\* its trade; for any period, symbols, schedule and number of crashes (open_position,
\* _close_position, _sync_closed_trades, _save_checkpoint).
THEOREM ReplayAccounts == Spec => []PositionsAreAccounted
<1>1. Spec => [](TypeInv /\ BooksOnceInv)
  <2>1. WindowInv => PlaceInv
    BY DEF WindowInv
  <2> QED
    BY <2>1, ReplayInitially, OnceInitially, TypeStep, WindowStep, ResumeKept, BooksOnceStep, PTL
       DEF Spec
<1>2. TypeInv /\ BooksOnceInv => (~again => TradedOnce)
  <2> SUFFICES ASSUME TypeInv, BooksOnceInv, ~again PROVE TradedOnce
    OBVIOUS
  <2>1. \A e \in Executions : opened[e] <= 1
    BY DEF BooksOnceInv, OnceInv
  <2>2. ASSUME crashes = 0, NEW e \in Executions
        PROVE  /\ cash[e].fees <= 1 /\ cash[e].results <= 1 /\ Times(e) <= 1
               /\ job.pc \in {"tick", "bars", "clear"} /\ Times(e) = 1 => e \in outcomes
    <3>1. FeesInv /\ TradesInv /\ SyncInv
      BY <2>2 DEF BooksOnceInv, SmoothInv
    <3>2. Times(e) <= 1 /\ (Times(e) = 1 => Traded(e))
      BY <3>1, TimesCounts DEF TradesInv
    <3>3. ASSUME job.pc \in {"tick", "bars", "clear"}, Traded(e) PROVE e \in outcomes
      <4>1. trades \in Seq(Executions)
        BY DEF TypeInv, ReplayTypeOK, BooksTypeOK
      <4>2. \A i \in 1 .. Len(trades) : trades[i] \in outcomes
        BY <3>1, <3>3 DEF SyncInv
      <4> QED
        BY <3>3, <4>1, <4>2 DEF Traded
    <3> QED
      BY <3>1, <3>2, <3>3 DEF FeesInv, TradesInv
  <2> QED
    BY <2>1, <2>2, Zenon DEF TradedOnce
<1>3. BooksAreKept /\ (~again => TradedOnce) => PositionsAreAccounted
  BY DEF PositionsAreAccounted
<1> QED
  BY <1>1, <1>2, <1>3, ReplayBooks, PTL
===============================================================================
