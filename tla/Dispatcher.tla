------------------------------ MODULE Dispatcher ------------------------------
(***************************************************************************)
(* The trigger dispatcher: it polls signals from Kafka, matches a batch of *)
(* them to pipelines, asks the executions table which pipelines are busy,  *)
(* enqueues execute_pipeline for the others and then commits its Kafka     *)
(* offset.  Beside it the life of the rows it reads: the preflight checks  *)
(* and the insert of execute_pipeline, the wait for an approval, the trade.*)
(*                                                                         *)
(* One partition, one user, one ticker: what differs between pipelines is  *)
(* which signals they match, and that is left open.  The instances of the  *)
(* dispatcher are one consumer group, which gives the partition to one of  *)
(* them; each rejoins the group in poll, and only there.                   *)
(***************************************************************************)
EXTENDS Naturals

CONSTANTS
  Instances,   \* dispatchers of the consumer group
  Pipelines,   \* pipelines with signal subscriptions
  Rows,        \* executions rows that can come to exist (a bound)
  MaxSignals,  \* bound on published signals
  MaxQueued,   \* bound on equal execute_pipeline messages that are told apart
  MaxFaults,   \* bound on crashes, restarts, rebalances and errors
  NoOffset,    \* the consumer group has not committed an offset yet
  Nobody       \* the group is rebalancing

ASSUME DispatcherAssumption ==
  /\ MaxSignals \in Nat /\ MaxQueued \in Nat \ {0} /\ MaxFaults \in Nat
  /\ NoOffset \notin Nat /\ Nobody \notin Instances

VARIABLES
  \* Kafka
  topic,     \* signals published so far
  offset,    \* committed by the group
  owner,     \* the instance whose commits the group takes
  \* each dispatcher
  fetching,  \* those that take the partition for theirs
  position,  \* signals it has polled
  buffer,    \* signal_buffer, or the batch that is being processed
  pc,
  todo,      \* pipelines of the batch that are matched and not yet enqueued
  \* Celery and the database
  queue,     \* execute_pipeline messages of a pipeline
  row,       \* the executions table
  \* history
  times,     \* how often a dispatcher processed a signal to the end
  given,     \* how often it was given the partition
  dropped,   \* signals whose batch raised or was interrupted
  missed,    \* signals before the end of the topic when a first offset was sought
  faults

kafkaVars == <<topic, offset, owner, fetching>>
batchVars == <<position, buffer, pc, todo>>
tableVars == <<queue, row>>
histVars == <<times, given, dropped, missed>>
vars == <<topic, offset, owner, fetching, position, buffer, pc, todo, queue, row, times,
          given, dropped, missed, faults>>

Signals == 1 .. MaxSignals

\* task: the worker that runs the row, its first one or that of an approval.  A
\* "checked" row is not inserted yet: its task has passed the preflight checks.
\* trade: the task has found no position or order of the symbol at the broker, or its
\* order is there.  MONITORING stands for COMMUNICATION_ERROR too, RUNNING for PENDING.
Absent == [status |-> "absent"]
Executions ==
  [status : {"checked", "RUNNING", "AWAITING_APPROVAL", "MONITORING",
             "NEEDS_RECONCILIATION", "COMPLETED", "FAILED"},
   of : Pipelines, task : {"none", "first", "resumed"}, old : BOOLEAN,
   trade : {"none", "clear", "placed"}]

TypeOK ==
  /\ topic \in 0 .. MaxSignals
  /\ offset \in {NoOffset} \cup 0 .. MaxSignals
  /\ owner \in Instances \cup {Nobody} /\ fetching \subseteq Instances
  /\ position \in [Instances -> 0 .. MaxSignals]
  /\ buffer \in [Instances -> SUBSET Signals]
  /\ pc \in [Instances -> {"poll", "match", "check", "stale", "enqueue", "commit"}]
  /\ todo \in [Instances -> SUBSET Pipelines]
  /\ queue \in [Pipelines -> 0 .. MaxQueued]
  /\ row \in [Rows -> {Absent} \cup Executions]
  /\ times \in [Instances -> [Signals -> Nat]]
  /\ given \in [Instances -> Nat]
  /\ dropped \subseteq Signals /\ missed \subseteq Signals
  /\ faults \in 0 .. MaxFaults

Init ==
  /\ topic = 0 /\ offset = NoOffset
  /\ owner = Nobody /\ fetching = {}
  /\ position = [i \in Instances |-> 0]
  /\ buffer = [i \in Instances |-> {}]
  /\ pc = [i \in Instances |-> "poll"]
  /\ todo = [i \in Instances |-> {}]
  /\ queue = [p \in Pipelines |-> 0]
  /\ row = [r \in Rows |-> Absent]
  /\ times = [i \in Instances |-> [s \in Signals |-> 0]]
  /\ given = [i \in Instances |-> 0]
  /\ dropped = {} /\ missed = {}
  /\ faults = 0

Processed == {s \in Signals : \E i \in Instances : times[i][s] > 0}
Fault == faults < MaxFaults /\ faults' = faults + 1

-------------------------------------------------------------------------------
(* The consumer group                                                      *)

\* A member joins, leaves or is not heard of in time: from now on the group takes no
\* commit, until the partition is given again.
Rebalance ==
  /\ owner # Nobody /\ Fault
  /\ owner' = Nobody
  /\ UNCHANGED <<topic, offset, fetching, batchVars, tableVars, histVars>>

\* The poll that gets the partition starts at the committed offset, or without one at
\* the end (auto_offset_reset latest).  signal_buffer keeps what was polled before.
Assign(i) ==
  /\ owner = Nobody /\ pc[i] = "poll"
  /\ owner' = i /\ fetching' = fetching \cup {i}
  /\ given' = [given EXCEPT ![i] = @ + 1]
  /\ IF offset = NoOffset
       THEN /\ position' = [position EXCEPT ![i] = topic]
            /\ missed' = missed \cup (1 .. topic \ (Processed \cup dropped))
       ELSE position' = [position EXCEPT ![i] = offset] /\ UNCHANGED missed
  /\ UNCHANGED <<topic, offset, buffer, pc, todo, tableVars, times, dropped, faults>>

\* A poll learns that the partition is somebody else's.
Revoke(i) ==
  /\ i \in fetching /\ i # owner /\ pc[i] = "poll"
  /\ fetching' = fetching \ {i}
  /\ UNCHANGED <<topic, offset, owner, batchVars, tableVars, histVars, faults>>

-------------------------------------------------------------------------------
(* The consumer loop                                                       *)

Publish ==
  /\ topic < MaxSignals /\ topic' = topic + 1
  /\ UNCHANGED <<offset, owner, fetching, batchVars, tableVars, histVars, faults>>

PollUpTo(i, n) ==
  /\ position' = [position EXCEPT ![i] = n]
  /\ buffer' = [buffer EXCEPT ![i] = @ \cup (position[i] + 1 .. n)]
  /\ UNCHANGED <<topic, owner, fetching, pc, todo, tableVars, histVars, faults>>

\* Mutant: the consumer commits what it polls (enable_auto_commit).
PollAutoCommit(i) ==
  /\ pc[i] = "poll" /\ i \in fetching /\ position[i] < topic
  /\ offset' = topic
  /\ PollUpTo(i, topic)

\* Mutant: one signal too far.
PollPastEnd(i) ==
  /\ pc[i] = "poll" /\ i \in fetching
  /\ \E n \in position[i] + 1 .. topic + 1 : PollUpTo(i, n)
  /\ UNCHANGED offset

Poll(i) ==
  /\ pc[i] = "poll" /\ i \in fetching
  /\ \E n \in position[i] + 1 .. topic : PollUpTo(i, n)
  /\ UNCHANGED offset

\* Mutant: a batch waits until it is full.
BatchFull(i) == buffer[i] = Signals

\* Full, or older than half a second.
BatchReady(i) == buffer[i] # {}

StartBatch(i) ==
  /\ pc[i] = "poll" /\ BatchReady(i)
  /\ pc' = [pc EXCEPT ![i] = "match"]
  /\ UNCHANGED <<kafkaVars, position, buffer, todo, tableVars, histVars, faults>>

\* match_signals_to_pipelines, on a cache that may be 30 seconds old.
Match(i) ==
  /\ pc[i] = "match"
  /\ \E matched \in SUBSET Pipelines :
       /\ todo' = [todo EXCEPT ![i] = matched]
       /\ pc' = [pc EXCEPT ![i] = IF matched = {} THEN "enqueue" ELSE "check"]
  /\ UNCHANGED <<kafkaVars, position, buffer, tableVars, histVars, faults>>

-------------------------------------------------------------------------------
(* enqueue_pipeline_executions                                             *)

Stale(r) == row[r] # Absent /\ row[r].status = "RUNNING" /\ row[r].old

Busy(p) ==
  \E r \in Rows :
    /\ row[r] # Absent /\ row[r].of = p
    /\ row[r].status \in {"RUNNING", "MONITORING", "NEEDS_RECONCILIATION"}
    /\ ~Stale(r)

\* check_running_pipeline_tickers reads the rows of the matched pipelines; an error
\* reads as "nothing runs".
CheckRunning(i) ==
  /\ pc[i] = "check"
  /\ \/ /\ todo' = [todo EXCEPT ![i] = {p \in @ : ~Busy(p)}]
        /\ pc' = [pc EXCEPT ![i] = IF \E r \in Rows : Stale(r) /\ row[r].of \in todo[i]
                                     THEN "stale" ELSE "enqueue"]
        /\ UNCHANGED faults
     \/ Fault /\ pc' = [pc EXCEPT ![i] = "enqueue"] /\ UNCHANGED todo
  /\ UNCHANGED <<kafkaVars, position, buffer, tableVars, histVars>>

\* Its update of the stale rows binds a text to the enum column status: PostgreSQL
\* refuses it, the error is logged, and the rows stay as they are.
FailStale(i) ==
  /\ pc[i] = "stale" /\ pc' = [pc EXCEPT ![i] = "enqueue"]
  /\ UNCHANGED <<kafkaVars, position, buffer, todo, tableVars, histVars, faults>>

Enqueued(p) == [queue EXCEPT ![p] = IF @ < MaxQueued THEN @ + 1 ELSE @]

\* send_task; not when the market is closed, and an error is only logged.
Enqueue(i) ==
  /\ pc[i] = "enqueue"
  /\ \E p \in todo[i] :
       /\ todo' = [todo EXCEPT ![i] = @ \ {p}]
       /\ queue' \in {queue, Enqueued(p)}
  /\ UNCHANGED <<kafkaVars, position, buffer, pc, row, histVars, faults>>

BatchProcessed(i) ==
  /\ pc[i] = "enqueue" /\ todo[i] = {}
  /\ times' = [times EXCEPT ![i] =
                 [s \in Signals |-> IF s \in buffer[i] THEN @[s] + 1 ELSE @[s]]]
  /\ pc' = [pc EXCEPT ![i] = "commit"]
  /\ UNCHANGED <<kafkaVars, position, todo, tableVars, given, dropped, missed, faults>>

\* Mutant: the batch stays in the buffer.
BatchKept(i) == BatchProcessed(i) /\ UNCHANGED buffer

BatchDone(i) == BatchProcessed(i) /\ buffer' = [buffer EXCEPT ![i] = {}]

\* commit() commits the position.  It raises when the group has moved on
\* (CommitFailedError), or for another error; either is only logged.
Commit(i) ==
  /\ pc[i] = "commit" /\ pc' = [pc EXCEPT ![i] = "poll"]
  /\ \/ i = owner /\ offset' = position[i] /\ UNCHANGED <<fetching, faults>>
     \/ i # owner /\ fetching' = fetching \ {i} /\ UNCHANGED <<offset, faults>>
     \/ i = owner /\ Fault /\ UNCHANGED <<offset, fetching>>
  /\ UNCHANGED <<topic, owner, position, buffer, todo, tableVars, histVars>>

\* process_signal_batch has taken the signals out of the buffer before it raises; the
\* loop goes on without a commit.
BatchRaises(i) ==
  /\ pc[i] \in {"match", "enqueue"} /\ Fault
  /\ dropped' = dropped \cup buffer[i]
  /\ buffer' = [buffer EXCEPT ![i] = {}]
  /\ todo' = [todo EXCEPT ![i] = {}]
  /\ pc' = [pc EXCEPT ![i] = "poll"]
  /\ UNCHANGED <<kafkaVars, position, tableVars, times, given, missed>>

-------------------------------------------------------------------------------
(* Restarts                                                                *)

\* The instance is gone, and another one takes its place: the group rebalances.
Reset(i) ==
  /\ buffer' = [buffer EXCEPT ![i] = {}]
  /\ todo' = [todo EXCEPT ![i] = {}]
  /\ pc' = [pc EXCEPT ![i] = "poll"]
  /\ fetching' = fetching \ {i} /\ owner' = Nobody
  /\ UNCHANGED <<topic, position, tableVars, times, given, missed>>

Crash(i) == Fault /\ Reset(i) /\ UNCHANGED <<offset, dropped>>

\* An interrupt from the keyboard: the loop is cancelled where it waits, and shutdown
\* commits the position, a batch that was being processed included.
Stop(i) ==
  /\ buffer[i] = {} \/ pc[i] \in {"check", "stale"}
  /\ pc[i] \in {"poll", "check", "stale"}
  /\ Fault
  /\ dropped' = dropped \cup buffer[i]
  /\ offset' = IF i = owner THEN position[i] ELSE offset
  /\ Reset(i)

-------------------------------------------------------------------------------
(* The rows                                                                *)

Active(p) ==
  \E r \in Rows :
    /\ row[r] # Absent
    /\ \/ row[r].of = p /\ row[r].status \in {"RUNNING", "MONITORING"}
       \/ row[r].status = "MONITORING"

\* execute_pipeline takes a message: no active row of the pipeline and no monitored
\* row of the symbol; the broker, or the budget, may have it skipped as well.
Preflight ==
  /\ \E p \in Pipelines, r \in Rows :
       /\ queue[p] > 0 /\ row[r] = Absent
       /\ queue' = [queue EXCEPT ![p] = @ - 1]
       /\ \/ UNCHANGED row
          \/ /\ ~Active(p)
             /\ row' = [row EXCEPT ![r] =
                  [status |-> "checked", of |-> p, task |-> "first", old |-> FALSE,
                   trade |-> "none"]]
  /\ UNCHANGED <<kafkaVars, batchVars, histVars, faults>>

Insert(r) ==
  /\ row[r] # Absent /\ row[r].status = "checked"
  /\ row' = [row EXCEPT ![r].status = "RUNNING"]
  /\ UNCHANGED <<queue, kafkaVars, batchVars, histVars, faults>>

\* initiate_approval, then an answer: resumed, or refused.
Await(r) ==
  /\ row[r] # Absent /\ row[r].status # "checked" /\ row[r].task = "first"
  /\ row[r].trade = "none"
  /\ row' = [row EXCEPT ![r].status = "AWAITING_APPROVAL", ![r].task = "none"]
  /\ UNCHANGED <<queue, kafkaVars, batchVars, histVars, faults>>

Answer(r) ==
  /\ row[r] # Absent /\ row[r].status = "AWAITING_APPROVAL"
  /\ \/ row' = [row EXCEPT ![r].status = "RUNNING", ![r].task = "resumed"]
     \/ row' = [row EXCEPT ![r].status = "COMPLETED"]
  /\ UNCHANGED <<queue, kafkaVars, batchVars, histVars, faults>>

\* The trade manager asks the broker for a position and for orders of the symbol; an
\* error is taken for one.  Then it places its own order.
DuplicateCheck(r) ==
  /\ row[r] # Absent /\ row[r].status = "RUNNING" /\ row[r].task # "none"
  /\ row[r].trade = "none"
  /\ \A other \in Rows : row[other] # Absent => row[other].trade # "placed"
  /\ row' = [row EXCEPT ![r].trade = "clear"]
  /\ UNCHANGED <<queue, kafkaVars, batchVars, histVars, faults>>

PlaceOrder(r) ==
  /\ row[r] # Absent /\ row[r].task # "none" /\ row[r].trade = "clear"
  /\ row' = [row EXCEPT ![r].trade = "placed"]
  /\ UNCHANGED <<queue, kafkaVars, batchVars, histVars, faults>>

\* The last commit of the task.
Finish(r) ==
  /\ row[r] # Absent /\ row[r].status # "checked" /\ row[r].task # "none"
  /\ \E status \in {IF row[r].trade = "placed" THEN "MONITORING" ELSE "COMPLETED", "FAILED"} :
       row' = [row EXCEPT ![r].status = status, ![r].task = "none"]
  /\ UNCHANGED <<queue, kafkaVars, batchVars, histVars, faults>>

\* Its worker is lost, and the message of execute_pipeline is delivered again; or it is
\* killed by its time limit.  A resume task is not run twice: it finds the row RUNNING.
TaskDies(r) ==
  /\ row[r] # Absent /\ row[r].task # "none" /\ Fault
  /\ row' = [row EXCEPT ![r] =
               IF @.status = "checked" THEN Absent ELSE [@ EXCEPT !.task = "none"]]
  /\ queue' \in IF row[r].task = "first" THEN {queue, Enqueued(row[r].of)} ELSE {queue}
  /\ UNCHANGED <<kafkaVars, batchVars, histVars>>

\* Monitoring, reconciliation, the user.
Monitor(r) ==
  /\ row[r] # Absent /\ row[r].status \in {"MONITORING", "NEEDS_RECONCILIATION"}
  /\ \E status \in {"MONITORING", "NEEDS_RECONCILIATION", "COMPLETED"} \ {row[r].status} :
       row' = [row EXCEPT ![r].status = status]
  /\ UNCHANGED <<queue, kafkaVars, batchVars, histVars, faults>>

\* The order or position is gone at the broker.
EndAtBroker(r) ==
  /\ row[r] # Absent /\ row[r].trade = "placed" /\ row[r].task = "none"
  /\ row' = [row EXCEPT ![r].trade = "none"]
  /\ UNCHANGED <<queue, kafkaVars, batchVars, histVars, faults>>

\* started_at is twelve minutes ago.  The first task of a row is killed after ten.
Age(r) ==
  /\ row[r] # Absent /\ ~row[r].old /\ row[r].task # "first"
  /\ row' = [row EXCEPT ![r].old = TRUE]
  /\ UNCHANGED <<queue, kafkaVars, batchVars, histVars, faults>>

-------------------------------------------------------------------------------
LoopStep(i) ==
  \/ Poll(i) \/ StartBatch(i) \/ Match(i) \/ CheckRunning(i) \/ FailStale(i) \/ Enqueue(i)
  \/ BatchDone(i) \/ Commit(i)

RowStep(r) ==
  \/ Insert(r) \/ Await(r) \/ Answer(r) \/ DuplicateCheck(r) \/ PlaceOrder(r) \/ Finish(r)
  \/ Monitor(r) \/ EndAtBroker(r) \/ Age(r)

Next ==
  \/ Publish \/ Rebalance
  \/ \E i \in Instances :
       \/ Assign(i) \/ Revoke(i) \/ LoopStep(i)
       \/ BatchRaises(i) \/ Crash(i) \/ Stop(i)
  \/ Preflight
  \/ \E r \in Rows : RowStep(r) \/ TaskDies(r)

Spec == Init /\ [][Next]_vars

\* The loops run and the group gives the partition to one of them; nothing is owed by
\* the signal generator, the workers or the users.
Fairness ==
  /\ \A i \in Instances : WF_vars(LoopStep(i))
  /\ WF_vars(\E i \in Instances : Assign(i))

FairSpec == Spec /\ Fairness
===============================================================================
