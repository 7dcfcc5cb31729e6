--------------------------- MODULE DispatcherProofs ---------------------------
(***************************************************************************)
(* TLAPS proofs about the dispatcher, for any instances, pipelines, rows   *)
(* and number of signals and faults: its types, that neither a crash, a    *)
(* rebalance nor a failed commit loses a signal below the offset, and that *)
(* no instance processes a signal twice for one time it got the partition. *)
(***************************************************************************)
EXTENDS DispatcherProps, TLAPS

\* Every signal that the owner of the partition has polled is in its buffer or accounted
\* for, nothing below the offset is not, and a batch is out of the buffer when its commit
\* is due.
DeliveryInv ==
  /\ \A i \in Instances : position[i] <= topic
  /\ \A i \in Instances : i = owner =>
       \A s \in 1 .. position[i] : s \in buffer[i] \cup Accounted
  /\ offset # NoOffset => offset <= topic /\ 1 .. offset \subseteq Accounted
  /\ \A i \in Instances : pc[i] = "commit" => buffer[i] = {}

\* How often an instance may still process a signal without being given the partition
\* again: once for its copy in the buffer, and once if it has yet to poll it.
Pending(i, s) ==
  (IF s \in buffer[i] THEN 1 ELSE 0) + (IF i \in fetching /\ s > position[i] THEN 1 ELSE 0)

RepeatInv ==
  \A i \in Instances, s \in Signals : times[i][s] + Pending(i, s) <= given[i]

-------------------------------------------------------------------------------
(* Type correctness                                                          *)

\* What a step of a task does to its row.
LEMMA RowStepType ==
  ASSUME TypeOK, NEW r \in Rows, RowStep(r)
  PROVE  /\ row' \in [Rows -> {Absent} \cup Executions]
         /\ UNCHANGED <<queue, kafkaVars, batchVars, histVars, faults>>
<1> USE DEF TypeOK
<1>1. row[r] \in Executions
  BY DEF RowStep, Insert, Await, Answer, DuplicateCheck, PlaceOrder, Finish, Monitor,
     EndAtBroker, Age
<1>2. UNCHANGED <<queue, kafkaVars, batchVars, histVars, faults>>
  BY DEF RowStep, Insert, Await, Answer, DuplicateCheck, PlaceOrder, Finish, Monitor,
     EndAtBroker, Age
<1>3. \E x \in Executions : row' = [row EXCEPT ![r] = x]
  <2>1. CASE Insert(r)
    BY <1>1, <2>1 DEF Insert, Executions
  <2>2. CASE Await(r)
    BY <1>1, <2>2 DEF Await, Executions
  <2>3. CASE Answer(r)
    BY <1>1, <2>3 DEF Answer, Executions
  <2>4. CASE DuplicateCheck(r) \/ PlaceOrder(r) \/ EndAtBroker(r)
    <3>1. PICK t \in {"none", "clear", "placed"} :
            row' = [row EXCEPT ![r] = [row[r] EXCEPT !.trade = t]]
      BY <2>4 DEF DuplicateCheck, PlaceOrder, EndAtBroker
    <3>2. [row[r] EXCEPT !.trade = t] \in Executions
      BY <1>1 DEF Executions
    <3> QED
      BY <3>1, <3>2
  <2>5. CASE Finish(r)
    <3>1. PICK status \in {"MONITORING", "COMPLETED", "FAILED"} :
            row' = [row EXCEPT ![r] = [row[r] EXCEPT !.status = status, !.task = "none"]]
      BY <2>5 DEF Finish
    <3>2. [row[r] EXCEPT !.status = status, !.task = "none"] \in Executions
      BY <1>1 DEF Executions
    <3> QED
      BY <3>1, <3>2
  <2>6. CASE Monitor(r)
    <3>1. PICK status \in {"COMPLETED", "MONITORING", "NEEDS_RECONCILIATION"} :
            row' = [row EXCEPT ![r] = [row[r] EXCEPT !.status = status]]
      BY <2>6 DEF Monitor
    <3>2. [row[r] EXCEPT !.status = status] \in Executions
      BY <1>1 DEF Executions
    <3> QED
      BY <3>1, <3>2
  <2>7. CASE Age(r)
    BY <1>1, <2>7 DEF Age, Executions
  <2> QED
    BY <2>1, <2>2, <2>3, <2>4, <2>5, <2>6, <2>7 DEF RowStep
<1> QED
  BY <1>2, <1>3

LEMMA TypeStep ==
  ASSUME TypeOK, [Next]_vars
  PROVE  TypeOK'
<1> USE DispatcherAssumption
    DEF TypeOK, kafkaVars, batchVars, tableVars, histVars, Fault
<1>a. \A r \in Rows : row[r] # Absent => row[r] \in Executions
  OBVIOUS
<1>b. \A p \in Pipelines : Enqueued(p) \in [Pipelines -> 0 .. MaxQueued]
  BY DEF Enqueued
<1>1. ASSUME Publish \/ Rebalance PROVE TypeOK'
  BY <1>1 DEF Publish, Rebalance
<1>2. ASSUME NEW i \in Instances, Assign(i) \/ Revoke(i) PROVE TypeOK'
  <2>1. CASE Revoke(i)
    BY <2>1 DEF Revoke
  <2>2. CASE Assign(i)
    <3>1. 1 .. topic \subseteq Signals
      BY DEF Signals
    <3>2. missed' \subseteq Signals
      BY <2>2, <3>1 DEF Assign
    <3>3. position' \in [Instances -> 0 .. MaxSignals]
      <4>1. \E n \in 0 .. MaxSignals : position' = [position EXCEPT ![i] = n]
        BY <2>2 DEF Assign
      <4> QED
        BY <4>1
    <3>4. owner' \in Instances /\ fetching' \subseteq Instances
      BY <2>2 DEF Assign
    <3>5. given' \in [Instances -> Nat]
      BY <2>2 DEF Assign
    <3> QED
      BY <2>2, <3>2, <3>3, <3>4, <3>5 DEF Assign
  <2> QED
    BY <1>2, <2>1, <2>2
<1>3. ASSUME NEW i \in Instances, Poll(i) PROVE TypeOK'
  <2>1. PICK n \in position[i] + 1 .. topic : PollUpTo(i, n)
    BY <1>3 DEF Poll
  <2>2. (position[i] + 1 .. n) \subseteq Signals /\ n \in 0 .. MaxSignals
    BY DEF Signals
  <2> QED
    BY <1>3, <2>1, <2>2 DEF Poll, PollUpTo
<1>4. ASSUME NEW i \in Instances, StartBatch(i) \/ Match(i) \/ FailStale(i) PROVE TypeOK'
  <2>1. CASE StartBatch(i) \/ FailStale(i)
    BY <2>1 DEF StartBatch, FailStale
  <2>2. CASE Match(i)
    <3>1. \E matched \in SUBSET Pipelines, x \in {"enqueue", "check"} :
            todo' = [todo EXCEPT ![i] = matched] /\ pc' = [pc EXCEPT ![i] = x]
      BY <2>2 DEF Match
    <3> QED
      BY <2>2, <3>1 DEF Match
  <2> QED
    BY <1>4, <2>1, <2>2
<1>5. ASSUME NEW i \in Instances, CheckRunning(i) PROVE TypeOK'
  <2>1. todo' \in [Instances -> SUBSET Pipelines]
    BY <1>5 DEF CheckRunning
  <2>2. \E x \in {"stale", "enqueue"} : pc' = [pc EXCEPT ![i] = x]
    BY <1>5 DEF CheckRunning
  <2>3. faults' \in 0 .. MaxFaults
    BY <1>5 DEF CheckRunning
  <2> QED
    BY <1>5, <2>1, <2>2, <2>3 DEF CheckRunning
<1>6. ASSUME NEW i \in Instances, Enqueue(i) PROVE TypeOK'
  BY <1>6, <1>b DEF Enqueue
<1>7. ASSUME NEW i \in Instances, BatchDone(i) PROVE TypeOK'
  <2>1. times' \in [Instances -> [Signals -> Nat]]
    BY <1>7 DEF BatchDone, BatchProcessed
  <2> QED
    BY <1>7, <2>1 DEF BatchDone, BatchProcessed
<1>8. ASSUME NEW i \in Instances, Commit(i) PROVE TypeOK'
  BY <1>8 DEF Commit
<1>9. ASSUME NEW i \in Instances, BatchRaises(i) PROVE TypeOK'
  BY <1>9 DEF BatchRaises
<1>10. ASSUME NEW i \in Instances, Crash(i) \/ Stop(i) PROVE TypeOK'
  <2>1. dropped' \subseteq Signals
    BY <1>10 DEF Crash, Stop
  <2>2. offset' \in {NoOffset} \cup 0 .. MaxSignals
    BY <1>10 DEF Crash, Stop
  <2>3. faults' \in 0 .. MaxFaults /\ Reset(i)
    BY <1>10 DEF Crash, Stop
  <2> HIDE <1>10
  <2> QED
    BY <2>1, <2>2, <2>3 DEF Reset
<1>11. ASSUME Preflight PROVE TypeOK'
  <2> DEFINE x(p) == [status |-> "checked", of |-> p, task |-> "first", old |-> FALSE,
                      trade |-> "none"]
  <2>1. PICK p \in Pipelines, r \in Rows :
          /\ queue[p] > 0 /\ row[r] = Absent
          /\ queue' = [queue EXCEPT ![p] = @ - 1]
          /\ UNCHANGED row \/ row' = [row EXCEPT ![r] = x(p)]
    BY <1>11 DEF Preflight
  <2>2. queue' \in [Pipelines -> 0 .. MaxQueued]
    BY <2>1
  <2>3. x(p) \in Executions
    BY DEF Executions
  <2>4. row' \in [Rows -> {Absent} \cup Executions]
    BY <2>1, <2>3
  <2> QED
    BY <1>11, <2>2, <2>4 DEF Preflight
<1>12. ASSUME NEW r \in Rows, RowStep(r) PROVE TypeOK'
  BY <1>12, RowStepType
<1>13. ASSUME NEW r \in Rows, TaskDies(r) PROVE TypeOK'
  <2>1. row[r] \in Executions
    BY <1>13, <1>a DEF TaskDies
  <2>2. queue' \in [Pipelines -> 0 .. MaxQueued]
    BY <1>13, <1>b, <2>1 DEF TaskDies, Executions
  <2>3. [row[r] EXCEPT !.task = "none"] \in Executions
    BY <2>1 DEF Executions
  <2>4. row' \in [Rows -> {Absent} \cup Executions]
    BY <1>13, <2>3 DEF TaskDies
  <2> QED
    BY <1>13, <2>2, <2>4 DEF TaskDies
<1>14. CASE UNCHANGED vars
  BY <1>14 DEF vars
<1> QED
  BY <1>1, <1>2, <1>3, <1>4, <1>5, <1>6, <1>7, <1>8, <1>9, <1>10, <1>11, <1>12, <1>13,
     <1>14
  DEF Next, LoopStep

\* Whatever the loops, the group, restarts and the tasks do, the state keeps its types.
THEOREM TypeCorrect == Spec => []TypeOK
<1>1. Init => TypeOK
  BY DispatcherAssumption DEF Init, TypeOK, Signals
<1>2. TypeOK /\ [Next]_vars => TypeOK'
  BY TypeStep
<1> QED
  BY <1>1, <1>2, PTL DEF Spec

-------------------------------------------------------------------------------
(* No signal below the offset is lost                                        *)

\* What was accounted for stays so.
LEMMA AccountedGrows ==
  ASSUME TypeOK, [Next]_vars
  PROVE  Accounted \subseteq Accounted'
<1> USE DEF TypeOK, kafkaVars, batchVars, tableVars, histVars
<1>1. dropped \subseteq dropped' /\ missed \subseteq missed'
  <2>1. ASSUME NEW i \in Instances, LoopStep(i) PROVE UNCHANGED <<dropped, missed>>
    BY <2>1 DEF LoopStep, Poll, PollUpTo, StartBatch, Match, CheckRunning, FailStale, Enqueue,
       BatchDone, BatchProcessed, Commit
  <2>2. ASSUME NEW i \in Instances,
               Assign(i) \/ Revoke(i) \/ BatchRaises(i) \/ Crash(i) \/ Stop(i)
        PROVE  dropped \subseteq dropped' /\ missed \subseteq missed'
    BY <2>2 DEF Assign, Revoke, BatchRaises, Crash, Stop, Reset
  <2>3. ASSUME NEW r \in Rows, RowStep(r) \/ TaskDies(r) PROVE UNCHANGED <<dropped, missed>>
    BY <2>3, RowStepType DEF TaskDies
  <2> QED
    BY <2>1, <2>2, <2>3 DEF Next, Publish, Rebalance, Preflight, vars
<1>2. \A i \in Instances, s \in Signals : times[i][s] > 0 => times'[i][s] > 0
  <2>1. ASSUME NEW i \in Instances, BatchDone(i)
        PROVE  \A j \in Instances, s \in Signals : times[j][s] > 0 => times'[j][s] > 0
    <3>1. \A s \in Signals :
            times'[i][s] = IF s \in buffer[i] THEN times[i][s] + 1 ELSE times[i][s]
      BY <2>1 DEF BatchDone, BatchProcessed
    <3>2. \A j \in Instances : j # i => times'[j] = times[j]
      BY <2>1 DEF BatchDone, BatchProcessed
    <3>3. \A j \in Instances, s \in Signals : times[j][s] \in Nat
      OBVIOUS
    <3> QED
      BY <3>1, <3>2, <3>3
  <2>2. ASSUME NEW i \in Instances, LoopStep(i), ~BatchDone(i) PROVE UNCHANGED times
    BY <2>2 DEF LoopStep, Poll, PollUpTo, StartBatch, Match, CheckRunning, FailStale, Enqueue,
       Commit
  <2>3. ASSUME NEW i \in Instances,
               Assign(i) \/ Revoke(i) \/ BatchRaises(i) \/ Crash(i) \/ Stop(i)
        PROVE  UNCHANGED times
    BY <2>3 DEF Assign, Revoke, BatchRaises, Crash, Stop, Reset
  <2>4. ASSUME NEW r \in Rows, RowStep(r) \/ TaskDies(r) PROVE UNCHANGED times
    BY <2>4, RowStepType DEF TaskDies
  <2> QED
    BY <2>1, <2>2, <2>3, <2>4 DEF Next, Publish, Rebalance, Preflight, vars
<1> QED
  BY <1>1, <1>2 DEF Accounted, Processed

LEMMA DeliveryStep ==
  ASSUME TypeOK, TypeOK', DeliveryInv, [Next]_vars
  PROVE  DeliveryInv'
<1> USE DispatcherAssumption
    DEF TypeOK, Signals, kafkaVars, batchVars, tableVars, histVars, DeliveryInv
<1>0. Accounted \subseteq Accounted'
  BY AccountedGrows
<1>1. ASSUME Publish \/ Rebalance PROVE DeliveryInv'
  BY <1>0, <1>1 DEF Publish, Rebalance
<1>2. ASSUME NEW i \in Instances, Assign(i) PROVE DeliveryInv'
  <2>1. owner' = i /\ UNCHANGED <<topic, offset, buffer, pc, times, dropped>>
    BY <1>2 DEF Assign
  <2>2. CASE offset = NoOffset
    <3>1. /\ position' = [position EXCEPT ![i] = topic]
          /\ missed' = missed \cup (1 .. topic \ (Processed \cup dropped))
      BY <1>2, <2>2 DEF Assign
    <3>2. \A s \in 1 .. topic : s \in Accounted'
      BY <2>1, <3>1 DEF Accounted, Processed
    <3> QED
      BY <1>0, <2>1, <2>2, <3>1, <3>2
  <2>3. CASE offset # NoOffset
    <3>1. position' = [position EXCEPT ![i] = offset]
      BY <1>2, <2>3 DEF Assign
    <3> QED
      BY <1>0, <2>1, <2>3, <3>1
  <2> QED
    BY <2>2, <2>3
<1>3. ASSUME NEW i \in Instances, Revoke(i) PROVE DeliveryInv'
  BY <1>0, <1>3 DEF Revoke
<1>4. ASSUME NEW i \in Instances, Poll(i) PROVE DeliveryInv'
  <2>1. PICK n \in position[i] + 1 .. topic : PollUpTo(i, n) /\ UNCHANGED offset
    BY <1>4 DEF Poll
  <2>2. UNCHANGED <<topic, offset, owner, pc>> /\ pc[i] = "poll"
    BY <1>4, <2>1 DEF Poll, PollUpTo
  <2>3. /\ position'[i] = n /\ buffer'[i] = buffer[i] \cup (position[i] + 1 .. n)
        /\ \A j \in Instances : j # i => position'[j] = position[j] /\ buffer'[j] = buffer[j]
    BY <2>1 DEF PollUpTo
  <2>4. n <= topic /\ position[i] \in Nat /\ n \in Nat
    OBVIOUS
  <2>5. \A s \in 1 .. n : s \in 1 .. position[i] \/ s \in position[i] + 1 .. n
    BY <2>4
  <2> HIDE DEF TypeOK
  <2>6. \A j \in Instances : position'[j] <= topic'
    BY <2>2, <2>3, <2>4
  <2>7. ASSUME NEW j \in Instances, j = owner', NEW s \in 1 .. position'[j]
        PROVE  s \in buffer'[j] \cup Accounted'
    <3>1. CASE j = i
      BY <1>0, <2>2, <2>3, <2>5, <2>7, <3>1
    <3>2. CASE j # i
      BY <1>0, <2>2, <2>3, <2>7, <3>2
    <3> QED
      BY <3>1, <3>2
  <2>8. offset' # NoOffset => offset' <= topic' /\ 1 .. offset' \subseteq Accounted'
    BY <1>0, <2>2
  <2>9. \A j \in Instances : pc'[j] = "commit" => buffer'[j] = {}
    BY <2>2, <2>3
  <2> QED
    BY <2>6, <2>7, <2>8, <2>9
<1>5. ASSUME NEW i \in Instances,
             StartBatch(i) \/ Match(i) \/ CheckRunning(i) \/ FailStale(i) \/ Enqueue(i)
      PROVE  DeliveryInv'
  <2>1. UNCHANGED <<topic, offset, owner, position, buffer>>
    BY <1>5 DEF StartBatch, Match, CheckRunning, FailStale, Enqueue
  <2>2. \A j \in Instances : pc'[j] = "commit" => pc[j] = "commit"
    BY <1>5 DEF StartBatch, Match, CheckRunning, FailStale, Enqueue
  <2> QED
    BY <1>0, <2>1, <2>2
<1>6. ASSUME NEW i \in Instances, BatchDone(i) PROVE DeliveryInv'
  <2>1. /\ times' = [times EXCEPT ![i] =
                       [s \in Signals |-> IF s \in buffer[i] THEN @[s] + 1 ELSE @[s]]]
        /\ buffer' = [buffer EXCEPT ![i] = {}]
        /\ UNCHANGED <<kafkaVars, position, dropped, missed>>
    BY <1>6 DEF BatchDone, BatchProcessed
  <2>2. \A s \in buffer[i] : times'[i][s] > 0
    BY <2>1
  <2>3. buffer[i] \subseteq Accounted'
    BY <2>2 DEF Accounted, Processed
  <2>4. \A j \in Instances : (pc'[j] = "commit" => pc[j] = "commit" \/ j = i)
    BY <1>6 DEF BatchDone, BatchProcessed
  <2> QED
    BY <1>0, <2>1, <2>3, <2>4
<1>7. ASSUME NEW i \in Instances, Commit(i) PROVE DeliveryInv'
  BY <1>0, <1>7 DEF Commit
<1>8. ASSUME NEW i \in Instances, BatchRaises(i) PROVE DeliveryInv'
  <2>1. buffer[i] \subseteq Accounted'
    BY <1>8 DEF BatchRaises, Accounted
  <2> QED
    BY <1>0, <1>8, <2>1 DEF BatchRaises
<1>9. ASSUME NEW i \in Instances, Crash(i) \/ Stop(i) PROVE DeliveryInv'
  <2>1. /\ owner' = Nobody /\ UNCHANGED <<topic, position>>
        /\ buffer' = [buffer EXCEPT ![i] = {}] /\ pc' = [pc EXCEPT ![i] = "poll"]
    BY <1>9 DEF Crash, Stop, Reset
  <2>2. offset' = offset \/ (Stop(i) /\ i = owner /\ offset' = position[i])
    BY <1>9 DEF Crash, Stop
  <2>3. Stop(i) => buffer[i] \subseteq Accounted'
    BY DEF Stop, Accounted
  <2> QED
    BY <1>0, <2>1, <2>2, <2>3
<1>10. ASSUME \/ Preflight
              \/ \E r \in Rows : RowStep(r) \/ TaskDies(r)
              \/ UNCHANGED vars
       PROVE  DeliveryInv'
  <2>1. UNCHANGED <<topic, offset, owner, position, buffer, pc>>
    BY <1>10, RowStepType DEF Preflight, TaskDies, vars
  <2> QED
    BY <1>0, <2>1
<1> QED
  BY <1>1, <1>2, <1>3, <1>4, <1>5, <1>6, <1>7, <1>8, <1>9, <1>10 DEF Next, LoopStep

\* consume_signals commits only what is behind it: below the offset there is no signal
\* that was neither processed nor lost with its batch or before the first commit.
THEOREM Delivered == Spec => []CommittedIsAccounted
<1>1. Init => DeliveryInv
  BY DispatcherAssumption DEF Init, DeliveryInv
<1>2. TypeOK /\ TypeOK' /\ DeliveryInv /\ [Next]_vars => DeliveryInv'
  BY DeliveryStep
<1>3. DeliveryInv => CommittedIsAccounted
  BY DEF DeliveryInv, CommittedIsAccounted
<1> QED
  BY <1>1, <1>2, <1>3, TypeCorrect, PTL DEF Spec

-------------------------------------------------------------------------------
(* No signal is repeated unless the partition is given again                 *)

LEMMA RepeatStep ==
  ASSUME TypeOK, TypeOK', RepeatInv, [Next]_vars
  PROVE  RepeatInv'
<1> USE DispatcherAssumption
    DEF TypeOK, Signals, kafkaVars, batchVars, tableVars, histVars, RepeatInv, Pending
<1>1. ASSUME NEW i \in Instances, Assign(i) PROVE RepeatInv'
  <2>1. /\ UNCHANGED <<buffer, times>> /\ fetching' = fetching \cup {i}
        /\ given' = [given EXCEPT ![i] = @ + 1]
        /\ \A j \in Instances \ {i} : position'[j] = position[j]
    BY <1>1 DEF Assign
  <2>2. /\ given'[i] = given[i] + 1
        /\ \A j \in Instances \ {i} : given'[j] = given[j] /\ (j \in fetching' <=> j \in fetching)
    BY <2>1
  <2>3. ASSUME NEW j \in Instances, NEW s \in Signals
        PROVE  times'[j][s] + Pending(j, s)' <= given'[j]
    <3>1. times[j][s] \in Nat /\ given[j] \in Nat
      OBVIOUS
    <3>2. times[j][s] + Pending(j, s) <= given[j]
      OBVIOUS
    <3>3. CASE j # i
      BY <2>1, <2>2, <3>2, <3>3
    <3>4. CASE j = i
      <4>1. Pending(j, s) \in {0, 1, 2} /\ Pending(j, s)' \in {0, 1, 2}
        <5> HIDE DEF TypeOK, RepeatInv, Signals
        <5> QED
          OBVIOUS
      <4>2. Pending(j, s)' <= Pending(j, s) + 1
        <5> HIDE DEF TypeOK, RepeatInv, Signals
        <5> QED
          BY <2>1
      <4>3. times'[j][s] = times[j][s] /\ given'[j] = given[j] + 1
        BY <2>1, <2>2, <3>4
      <4> HIDE DEF TypeOK, Pending
      <4> QED
        BY <3>1, <3>2, <4>1, <4>2, <4>3
    <3> QED
      BY <3>3, <3>4
  <2> QED
    BY <2>3
<1>2. ASSUME NEW i \in Instances, Poll(i) PROVE RepeatInv'
  <2>1. PICK n \in position[i] + 1 .. topic : PollUpTo(i, n)
    BY <1>2 DEF Poll
  <2>2. UNCHANGED <<fetching, times, given>> /\ i \in fetching
    BY <1>2, <2>1 DEF Poll, PollUpTo
  <2>3. /\ position'[i] = n /\ buffer'[i] = buffer[i] \cup (position[i] + 1 .. n)
        /\ \A j \in Instances : j # i => position'[j] = position[j] /\ buffer'[j] = buffer[j]
    BY <2>1 DEF PollUpTo
  <2>4. \A j \in Instances, s \in Signals :
          times[j][s] \in Nat /\ given[j] \in Nat /\ times[j][s] + Pending(j, s) <= given[j]
    <3>1. \A j \in Instances, s \in Signals : times[j][s] \in Nat /\ given[j] \in Nat
      OBVIOUS
    <3> HIDE DEF TypeOK, Pending, Signals
    <3> QED
      BY <3>1
  <2>5. n \in Nat /\ position[i] \in Nat /\ Signals \subseteq Nat
    OBVIOUS
  <2>6. \A s \in Signals : Pending(i, s)' <= Pending(i, s)
    <3> HIDE DEF TypeOK, Signals, RepeatInv
    <3> SUFFICES ASSUME NEW s \in Signals PROVE Pending(i, s)' <= Pending(i, s)
      OBVIOUS
    <3>1. s \in buffer'[i] <=> s \in buffer[i] \/ (s > position[i] /\ s <= n)
      BY <2>3, <2>5
    <3> QED
      BY <2>2, <2>3, <2>5, <3>1
  <2>7. \A j \in Instances, s \in Signals : j # i => Pending(j, s)' = Pending(j, s)
    BY <2>2, <2>3
  <2>8. \A j \in Instances, s \in Signals : Pending(j, s) \in Nat /\ Pending(j, s)' \in Nat
    <3> HIDE DEF TypeOK, RepeatInv, Signals
    <3> QED
      OBVIOUS
  <2> HIDE DEF TypeOK, Signals, Pending
  <2>9. ASSUME NEW j \in Instances, NEW s \in Signals
        PROVE  times'[j][s] + Pending(j, s)' <= given'[j]
    BY <2>2, <2>4, <2>6, <2>7, <2>8
  <2> QED
    BY <2>9
<1>3. ASSUME NEW i \in Instances, BatchDone(i) PROVE RepeatInv'
  <2>1. /\ times' = [times EXCEPT ![i] =
                       [s \in Signals |-> IF s \in buffer[i] THEN @[s] + 1 ELSE @[s]]]
        /\ buffer' = [buffer EXCEPT ![i] = {}] /\ UNCHANGED <<fetching, position, given>>
    BY <1>3 DEF BatchDone, BatchProcessed
  <2>2. /\ \A s \in Signals :
             times'[i][s] = IF s \in buffer[i] THEN times[i][s] + 1 ELSE times[i][s]
        /\ \A j \in Instances \ {i} : times'[j] = times[j] /\ buffer'[j] = buffer[j]
        /\ buffer'[i] = {}
    BY <2>1
  <2>3. \A j \in Instances, s \in Signals :
          times[j][s] \in Nat /\ given[j] \in Nat /\ times[j][s] + Pending(j, s) <= given[j]
    OBVIOUS
  <2>4. ASSUME NEW j \in Instances, NEW s \in Signals
        PROVE  times'[j][s] + Pending(j, s)' <= given'[j]
    <3> HIDE DEF TypeOK, Signals, RepeatInv
    <3>1. CASE j # i
      BY <2>1, <2>2, <2>3, <3>1
    <3>2. CASE j = i
      BY <2>1, <2>2, <2>3, <3>2
    <3> QED
      BY <3>1, <3>2
  <2> QED
    BY <2>4
<1>4. ASSUME NEW i \in Instances,
             Revoke(i) \/ Commit(i) \/ BatchRaises(i) \/ Crash(i) \/ Stop(i)
      PROVE  RepeatInv'
  <2>1. UNCHANGED <<times, given, position>> /\ fetching' \subseteq fetching
    BY <1>4 DEF Revoke, Commit, BatchRaises, Crash, Stop, Reset
  <2>2. buffer' = buffer \/ buffer' = [buffer EXCEPT ![i] = {}]
    BY <1>4 DEF Revoke, Commit, BatchRaises, Crash, Stop, Reset
  <2>3. \A j \in Instances : buffer'[j] \subseteq buffer[j]
    BY <2>2
  <2>4. \A j \in Instances, s \in Signals :
          times[j][s] \in Nat /\ given[j] \in Nat /\ times[j][s] + Pending(j, s) <= given[j]
    OBVIOUS
  <2>5. ASSUME NEW j \in Instances, NEW s \in Signals
        PROVE  times'[j][s] + Pending(j, s)' <= given'[j]
    <3> HIDE DEF TypeOK, Signals, RepeatInv
    <3> QED
      BY <2>1, <2>3, <2>4
  <2> QED
    BY <2>5
<1>5. ASSUME NEW i \in Instances,
             StartBatch(i) \/ Match(i) \/ CheckRunning(i) \/ FailStale(i) \/ Enqueue(i)
      PROVE  RepeatInv'
  BY <1>5 DEF StartBatch, Match, CheckRunning, FailStale, Enqueue
<1>6. ASSUME \/ Publish \/ Rebalance \/ Preflight
             \/ \E r \in Rows : RowStep(r) \/ TaskDies(r)
             \/ UNCHANGED vars
      PROVE  RepeatInv'
  <2>1. UNCHANGED <<times, given, fetching, position, buffer>>
    BY <1>6, RowStepType DEF Publish, Rebalance, Preflight, TaskDies, vars
  <2> QED
    BY <2>1
<1> QED
  BY <1>1, <1>2, <1>3, <1>4, <1>5, <1>6 DEF Next, LoopStep

\* Failed commits, batches that raise and dispatchers that go on with a partition that is
\* no longer theirs never bring a signal back into the loop of consume_signals: each
\* further processing of it needs the partition to be given to that dispatcher again.
THEOREM Repeated == Spec => []RepeatedByAssignment
<1>1. Init => RepeatInv
  BY DispatcherAssumption DEF Init, RepeatInv, Pending, Signals
<1>2. TypeOK /\ TypeOK' /\ RepeatInv /\ [Next]_vars => RepeatInv'
  BY RepeatStep
<1>3. TypeOK /\ RepeatInv => RepeatedByAssignment
  BY DEF TypeOK, RepeatInv, Pending, RepeatedByAssignment
<1> QED
  BY <1>1, <1>2, <1>3, TypeCorrect, PTL DEF Spec
===============================================================================
