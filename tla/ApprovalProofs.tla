----------------------------- MODULE ApprovalProofs -----------------------------
(***************************************************************************)
(* TLAPS proofs about Approval, for any rows, requests, workers and number *)
(* of crashes: the type invariant, OneOrderPerGrant, and that the workflow *)
(* implements TradePermission.                                             *)
(***************************************************************************)
EXTENDS ApprovalProps, TLAPS

Busy(w) == worker[w].pc # "idle"

\* One task per grant, and one executor per row.
UniqueTasks ==
  \A v, w \in Workers :
    Busy(v) /\ Busy(w) /\ worker[v].ex = worker[w].ex /\ worker[v].by = worker[w].by
      => v = w

\* The executor takes the gate, the resume task starts at "checked".
TaskShape ==
  \A w \in Workers : Busy(w) =>
    /\ worker[w].by = NoOne => worker[w].pc # "checked"
    /\ worker[w].by # NoOne => worker[w].pc \notin {"gate", "schedule"}

\* A row starts once, and its gate is before every answer.
RowStart ==
  /\ \A e \in Execs : status[e] = "absent" =>
       /\ approval[e] = "none"
       /\ orders[<<e, NoOne>>] = 0
       /\ \A w \in Workers : Busy(w) => worker[w].ex # e
  /\ \A w \in Workers : worker[w].pc = "gate" => approval[worker[w].ex] = "none"
  /\ \A r \in Responders :
       req[r].op \in {"approve", "reject"} => approval[req[r].ex] # "none"
  /\ \A e \in Execs : timer[e] = "checked" => approval[e] # "none"
  /\ \A g \in granted : approval[g[1]] \notin {"none", "pending"}

\* A grant is in one place: being sent, queued, held by a task, or spent.
GrantFlow ==
  /\ \A r \in Responders :
       /\ req[r].op = "approve" => <<req[r].ex, r>> \notin granted
       /\ req[r].op = "send" =>
            /\ <<req[r].ex, r>> \in granted
            /\ <<req[r].ex, r>> \notin resumeQ
            /\ orders[<<req[r].ex, r>>] = 0
            /\ \A w \in Workers :
                 Busy(w) => ~(worker[w].ex = req[r].ex /\ worker[w].by = r)
  /\ \A g \in resumeQ :
       /\ g \in granted
       /\ \A w \in Workers : Busy(w) => ~(worker[w].ex = g[1] /\ worker[w].by = g[2])
  /\ \A w \in Workers :
       Busy(w) /\ worker[w].by # NoOne => <<worker[w].ex, worker[w].by>> \in granted

\* What has been ordered: a task that may still order has not, and a row that has
\* traded on a grant, or that a validated resume task runs, no longer waits.
Spending ==
  /\ \A e \in Execs, r \in Responders :
       orders[<<e, r>>] > 0 => <<e, r>> \in granted /\ status[e] # "AWAITING_APPROVAL"
  /\ \A w \in Workers : worker[w].pc \in {"gate", "checked", "check", "clear"} =>
       orders[<<worker[w].ex, worker[w].by>>] = 0
  /\ \A w \in Workers :
       Busy(w) /\ worker[w].by # NoOne /\ worker[w].pc \notin {"checked", "failing"} =>
         status[worker[w].ex] # "AWAITING_APPROVAL"
  /\ \A w \in Workers : worker[w].by = NoOne /\ worker[w].pc \in {"check", "clear"} =>
       ~Gated(worker[w].ex)
  /\ \A e \in Execs : orders[<<e, NoOne>>] > 0 => ~Gated(e)
  /\ \A a \in Asked : orders[a] <= 1

GrantInv == TypeOK /\ UniqueTasks /\ TaskShape /\ RowStart /\ GrantFlow /\ Spending

-------------------------------------------------------------------------------
(* Type correctness                                                          *)

\* Every step keeps the types.
LEMMA TypeStep == TypeOK /\ [Next]_vars => TypeOK'
<1> USE ApprovalAssumption DEF TypeOK, ExecutionStatus, ApprovalStatus, Grants, Asked,
        TaskPC, Tasks, Task, Idle, Requests, NoReq, rowVars, histVars, Goto, Release
<1> SUFFICES ASSUME TypeOK, [Next]_vars PROVE TypeOK'
  OBVIOUS
<1>1. ASSUME NEW r \in Responders, ApiStep(r) \/ SendFails(r) PROVE TypeOK'
  <2>1. CASE ApproveCommit(r)
    BY <2>1 DEF ApproveCommit
  <2>2. CASE SendResume(r) \/ SendFails(r)
    BY <2>2 DEF SendResume, SendFails
  <2>3. CASE RejectCommit(r)
    BY <2>3 DEF RejectCommit
  <2>4. CASE CancelCommit(r)
    BY <2>4 DEF CancelCommit
  <2> QED
    BY <1>1, <2>1, <2>2, <2>3, <2>4 DEF ApiStep
<1>2. ASSUME NEW r \in Responders, NEW e \in Execs,
             ApproveRead(r, e) \/ RejectRead(r, e) \/ CancelRead(r, e)
      PROVE  TypeOK'
  BY <1>2 DEF ApproveRead, RejectRead, CancelRead
<1>3. ASSUME NEW w \in Workers, TaskStep(w) \/ WorkerCrash(w) PROVE TypeOK'
  <2>1. CASE InitiateApproval(w) \/ ScheduleTimeout(w) \/ PassGate(w)
    <3>1. CASE InitiateApproval(w)
      BY <3>1 DEF InitiateApproval
    <3>2. CASE ScheduleTimeout(w)
      <4>1. worker' \in [Workers -> Tasks]
        <5>1. CASE Release(w)
          BY <5>1
        <5>2. CASE Goto(w, "failing")
          BY <3>2, <5>2 DEF ScheduleTimeout
        <5> QED
          BY <3>2, <5>1, <5>2 DEF ScheduleTimeout
      <4>2. timer' \in [Execs -> {"none", "scheduled", "checked", "done"}]
        BY <3>2 DEF ScheduleTimeout
      <4> QED
        BY <3>2, <4>1, <4>2 DEF ScheduleTimeout
    <3>3. CASE PassGate(w)
      BY <3>3 DEF PassGate
    <3> QED
      BY <2>1, <3>1, <3>2, <3>3
  <2>2. CASE CommitRunning(w) \/ ResumeUnusable(w) \/ DuplicateCheck(w)
    BY <2>2 DEF CommitRunning, ResumeUnusable, DuplicateCheck
  <2>3. CASE PlaceOrder(w)
    <3>1. <<worker[w].ex, worker[w].by>> \in Asked
      BY <2>3 DEF PlaceOrder
    <3>2. orders' \in [Asked -> Nat]
      <4> DEFINE a == <<worker[w].ex, worker[w].by>>
      <4>1. orders' = [orders EXCEPT ![a] = @ + 1] \/ orders' = orders
        BY <2>3 DEF PlaceOrder
      <4>2. orders \in [Asked -> Nat] /\ a \in Asked
        BY <3>1
      <4> HIDE DEF a
      <4> QED
        BY <4>1, <4>2
    <3>3. worker' \in [Workers -> Tasks] /\ live' \subseteq Execs
      BY <2>3, <3>1 DEF PlaceOrder
    <3> QED
      BY <2>3, <3>2, <3>3 DEF PlaceOrder
  <2>5. CASE Finish(w) \/ TaskRaises(w)
    <3>1. worker' \in [Workers -> Tasks]
      BY <2>5 DEF Finish, TaskRaises
    <3>2. status' \in [Execs -> ExecutionStatus]
      BY <2>5 DEF Finish, TaskRaises
    <3> QED
      BY <2>5, <3>1, <3>2 DEF Finish, TaskRaises
  <2>4. CASE HandleFailure(w)
    <3> DEFINE g == <<worker[w].ex, worker[w].by>>
    <3>1. g[1] \in Execs /\ (worker[w].by # NoOne => g \in Grants)
      BY <2>4 DEF HandleFailure
    <3>3. worker[w].by # NoOne => Retry(g)
      BY <2>4 DEF HandleFailure
    <3>2. /\ resumeQ' \subseteq Grants /\ retries' \in [Grants -> 0 .. MaxRetries]
          /\ lost' \subseteq Execs /\ crashes' \in 0 .. MaxCrashes
      <4>1. CASE worker[w].by = NoOne
        BY <2>4, <4>1 DEF HandleFailure
      <4>2. CASE worker[w].by # NoOne
        <5>1. g \in Grants /\ g[1] \in Execs /\ Retry(g)
          BY <3>1, <3>3, <4>2
        <5> HIDE DEF g
        <5>2. CASE /\ retries[g] < MaxRetries
                   /\ resumeQ' = resumeQ \cup {g}
                   /\ retries' = [retries EXCEPT ![g] = @ + 1]
                   /\ UNCHANGED <<lost, crashes>>
          <6>1. retries[g] + 1 \in 0 .. MaxRetries
            BY <5>1, <5>2
          <6> QED
            BY <5>1, <5>2, <6>1
        <5>3. CASE /\ UNCHANGED crashes \/ (crashes < MaxCrashes /\ crashes' = crashes + 1)
                   /\ lost' = lost \cup {g[1]}
                   /\ UNCHANGED <<resumeQ, retries>>
          BY <5>1, <5>3
        <5> QED
          BY <5>1, <5>2, <5>3 DEF Retry
      <4> QED
        BY <4>1, <4>2
    <3> QED
      BY <2>4, <3>2 DEF HandleFailure
  <2>6. CASE WorkerCrash(w)
    BY <2>6 DEF WorkerCrash, Redeliver
  <2> QED
    BY <1>3, <2>1, <2>2, <2>3, <2>4, <2>5, <2>6 DEF TaskStep
<1>4. ASSUME NEW w \in Workers, NEW e \in Execs, StartExecution(w, e) PROVE TypeOK'
  BY <1>4 DEF StartExecution
<1>5. ASSUME NEW w \in Workers, NEW g \in Grants, TakeResume(w, g) PROVE TypeOK'
  BY <1>5 DEF TakeResume, Resumable
<1>6. ASSUME NEW e \in Execs,
             \/ TimerStep(e) \/ TimeoutCrash(e) \/ TimeoutGivesUp(e)
             \/ Expire(e) \/ Age(e) \/ BrokerClose(e)
      PROVE  TypeOK'
  BY <1>6 DEF TimerStep, TimeoutRead, TimeoutCommit, TimeoutCrash, TimeoutGivesUp,
              Expire, Age, BrokerClose
<1>7. CASE CleanupRead \/ CleanupCommit
  BY <1>7 DEF CleanupRead, CleanupCommit, Stale
<1>8. CASE UNCHANGED vars
  BY <1>8 DEF vars
<1> QED
  BY <1>1, <1>2, <1>3, <1>4, <1>5, <1>6, <1>7, <1>8 DEF Next

\* The row, the queues and the workers hold values of their types.
THEOREM TypeCorrect == Spec => []TypeOK
<1>1. Init => TypeOK
  BY ApprovalAssumption DEF Init, TypeOK, ExecutionStatus, ApprovalStatus, Asked, Tasks,
     Requests
<1> QED
  BY <1>1, TypeStep, PTL DEF Spec

-------------------------------------------------------------------------------
(* The inductive invariant                                                   *)

\* A task that goes on with another part of itself keeps its row and its grant.
LEMMA GotoTask ==
  ASSUME TypeOK, NEW w \in Workers, Busy(w), NEW pc \in TaskPC, Goto(w, pc)
  PROVE  /\ worker'[w].pc = pc
         /\ \A v \in Workers : v # w => worker'[v] = worker[v]
         /\ \A v \in Workers : /\ worker'[v].ex = worker[v].ex
                              /\ worker'[v].by = worker[v].by
                              /\ Busy(v)' <=> Busy(v)
BY DEF TypeOK, Tasks, Task, Idle, TaskPC, Goto, Busy

\* A task that ends, or goes on to its handler, gives up what it held.
LEMMA EndTask ==
  ASSUME TypeOK, NEW w \in Workers, Busy(w), Release(w) \/ Goto(w, "failing")
  PROVE  /\ worker'[w].pc \in {"idle", "failing"}
         /\ \A v \in Workers : v # w => worker'[v] = worker[v]
         /\ \A v \in Workers : Busy(v)' =>
              /\ Busy(v) /\ worker'[v].ex = worker[v].ex /\ worker'[v].by = worker[v].by
              /\ worker'[v].pc # worker[v].pc => worker'[v].pc = "failing"
BY DEF TypeOK, Tasks, Task, Idle, TaskPC, Release, Goto, Busy

\* A step that ends a task, and starts or answers no row, keeps GrantInv.
LEMMA EndKeeps ==
  ASSUME GrantInv, TypeOK', NEW w \in Workers, Busy(w), Release(w) \/ Goto(w, "failing"),
         UNCHANGED <<approval, mode, resumeQ, req, granted, orders>>,
         \A e \in Execs : timer'[e] = "checked" => timer[e] = "checked",
         \A e \in Execs : status'[e] # status[e] =>
                           status'[e] \notin {"absent", "AWAITING_APPROVAL"}
  PROVE  GrantInv'
<1>a. TypeOK
  BY DEF GrantInv
<1>b. \A v \in Workers : Busy(v)' =>
        /\ Busy(v) /\ worker'[v].ex = worker[v].ex /\ worker'[v].by = worker[v].by
        /\ worker'[v].pc # worker[v].pc => worker'[v].pc = "failing"
  BY <1>a, EndTask
<1>c. \A v \in Workers : worker[v].pc # "idle" => worker[v].ex \in Execs
  BY <1>a DEF TypeOK, Tasks, Task, Idle
<1>1. UniqueTasks'
  BY <1>b DEF GrantInv, UniqueTasks
<1>2. TaskShape'
  BY <1>b DEF GrantInv, TaskShape
<1>3. RowStart'
  <2>1. \A e \in Execs : status'[e] = "absent" => status[e] = "absent"
    OBVIOUS
  <2>2. \A e \in Execs : status'[e] = "absent" =>
          \A v \in Workers : Busy(v)' => worker'[v].ex # e
    <3> SUFFICES ASSUME NEW e \in Execs, status'[e] = "absent", NEW v \in Workers, Busy(v)'
                 PROVE  worker'[v].ex # e
      OBVIOUS
    <3>1. Busy(v) /\ worker'[v].ex = worker[v].ex
      BY <1>b
    <3> QED
      BY <2>1, <3>1 DEF GrantInv, RowStart
  <2>3. \A v \in Workers : worker'[v].pc = "gate" => approval[worker'[v].ex] = "none"
    BY <1>b DEF GrantInv, RowStart, Busy
  <2> QED
    BY <2>1, <2>2, <2>3 DEF GrantInv, RowStart
<1>4. GrantFlow'
  <2>1. \A r \in Responders : req[r].op = "send" =>
          \A v \in Workers : Busy(v)' => ~(worker'[v].ex = req[r].ex /\ worker'[v].by = r)
    <3> SUFFICES ASSUME NEW r \in Responders, req[r].op = "send", NEW v \in Workers, Busy(v)'
                 PROVE  ~(worker'[v].ex = req[r].ex /\ worker'[v].by = r)
      OBVIOUS
    <3>1. Busy(v) /\ worker'[v].ex = worker[v].ex /\ worker'[v].by = worker[v].by
      BY <1>b
    <3> QED
      BY <3>1 DEF GrantInv, GrantFlow
  <2>2. \A g \in resumeQ : \A v \in Workers :
          Busy(v)' => ~(worker'[v].ex = g[1] /\ worker'[v].by = g[2])
    BY <1>b DEF GrantInv, GrantFlow
  <2>3. \A v \in Workers : Busy(v)' /\ worker'[v].by # NoOne =>
          <<worker'[v].ex, worker'[v].by>> \in granted
    BY <1>b DEF GrantInv, GrantFlow
  <2> QED
    BY <2>1, <2>2, <2>3 DEF GrantInv, GrantFlow
<1>5. Spending'
  <2>1. \A e \in Execs, r \in Responders : orders[<<e, r>>] > 0 =>
          <<e, r>> \in granted /\ status'[e] # "AWAITING_APPROVAL"
    BY DEF GrantInv, Spending
  <2>2. \A v \in Workers : worker'[v].pc \in {"gate", "checked", "check", "clear"} =>
          orders[<<worker'[v].ex, worker'[v].by>>] = 0
    BY <1>b DEF GrantInv, Spending, Busy
  <2>3. \A v \in Workers :
          Busy(v)' /\ worker'[v].by # NoOne /\ worker'[v].pc \notin {"checked", "failing"} =>
            status'[worker'[v].ex] # "AWAITING_APPROVAL"
    BY <1>b, <1>c DEF GrantInv, Spending, Busy
  <2>4. \A v \in Workers : worker'[v].by = NoOne /\ worker'[v].pc \in {"check", "clear"} =>
          ~Gated(worker'[v].ex)
    BY <1>b DEF GrantInv, Spending, Busy
  <2> QED
    BY <2>1, <2>2, <2>3, <2>4 DEF GrantInv, Spending, Gated
<1> QED
  BY <1>1, <1>2, <1>3, <1>4, <1>5 DEF GrantInv

\* Every step keeps GrantInv.
LEMMA GrantStep == GrantInv /\ [Next]_vars => GrantInv'
<1> SUFFICES ASSUME GrantInv, [Next]_vars PROVE GrantInv'
  OBVIOUS
<1> USE ApprovalAssumption
    DEF TypeOK, Grants, Asked, TaskPC, Tasks, Task, Idle, Requests, NoReq, rowVars,
        histVars, Goto, Release, Busy
<1>t. TypeOK /\ TypeOK'
  BY TypeStep DEF GrantInv
<1>1. ASSUME NEW r \in Responders, ApproveCommit(r) PROVE GrantInv'
  <2>3. RowStart'
    BY <1>t, <1>1 DEF GrantInv, UniqueTasks, TaskShape, RowStart, ApproveCommit
  <2>4. GrantFlow'
    <3>1. orders[<<req[r].ex, r>>] = 0 /\ <<req[r].ex, r>> \notin resumeQ
      BY <1>t, <1>1 DEF GrantInv, GrantFlow, Spending, ApproveCommit
    <3>2. \A w \in Workers :
            Busy(w) => ~(worker[w].ex = req[r].ex /\ worker[w].by = r)
      <4>1. <<req[r].ex, r>> \notin granted /\ r # NoOne
        BY <1>t, <1>1 DEF GrantInv, GrantFlow, ApproveCommit
      <4>2. \A w \in Workers :
              Busy(w) /\ worker[w].by # NoOne => <<worker[w].ex, worker[w].by>> \in granted
        BY DEF GrantInv, GrantFlow
      <4> QED
        BY <4>1, <4>2
    <3>3. /\ granted' = granted \cup {<<req[r].ex, r>>} /\ UNCHANGED <<resumeQ, worker, orders>>
          /\ req'[r].op = "send" /\ req'[r].ex = req[r].ex
          /\ \A x \in Responders : x # r => req'[x] = req[x]
      BY <1>t, <1>1 DEF ApproveCommit
    <3>4. \A x \in Responders : req'[x].op = "approve" => <<req'[x].ex, x>> \notin granted'
      BY <3>3 DEF GrantInv, GrantFlow
    <3>5. ASSUME NEW x \in Responders, req'[x].op = "send"
          PROVE  /\ <<req'[x].ex, x>> \in granted' \ resumeQ'
                 /\ orders'[<<req'[x].ex, x>>] = 0
                 /\ \A w \in Workers : Busy(w)' => ~(worker'[w].ex = req'[x].ex /\ worker'[w].by = x)
      <4>1. CASE x = r
        BY <3>1, <3>2, <3>3, <4>1
      <4>2. CASE x # r
        BY <3>3, <3>5, <4>2 DEF GrantInv, GrantFlow
      <4> QED
        BY <4>1, <4>2
    <3>6. \A g \in resumeQ' :
            /\ g \in granted'
            /\ \A w \in Workers : Busy(w)' => ~(worker'[w].ex = g[1] /\ worker'[w].by = g[2])
      BY <3>3 DEF GrantInv, GrantFlow
    <3>7. \A w \in Workers :
            Busy(w)' /\ worker'[w].by # NoOne => <<worker'[w].ex, worker'[w].by>> \in granted'
      BY <3>3 DEF GrantInv, GrantFlow
    <3> QED
      BY <3>4, <3>5, <3>6, <3>7 DEF GrantFlow
  <2>5. Spending'
    BY <1>t, <1>1 DEF GrantInv, UniqueTasks, TaskShape, RowStart, GrantFlow, Spending,
       Gated, ApproveCommit
  <2> QED
    BY <1>t, <1>1, <2>3, <2>4, <2>5 DEF GrantInv, UniqueTasks, TaskShape, Gated,
       ApproveCommit
<1>2. ASSUME NEW r \in Responders, SendResume(r) PROVE GrantInv'
  <2>3. RowStart'
    BY <1>t, <1>2 DEF GrantInv, UniqueTasks, TaskShape, RowStart, SendResume
  <2>4. GrantFlow'
    BY <1>t, <1>2 DEF GrantInv, UniqueTasks, TaskShape, RowStart, GrantFlow, SendResume
  <2> QED
    BY <1>t, <1>2, <2>3, <2>4 DEF GrantInv, UniqueTasks, TaskShape, Spending, Gated,
       SendResume
<1>3. ASSUME NEW r \in Responders, SendFails(r) PROVE GrantInv'
  <2>3. RowStart'
    BY <1>t, <1>3 DEF GrantInv, UniqueTasks, TaskShape, RowStart, SendFails
  <2>4. GrantFlow'
    BY <1>t, <1>3 DEF GrantInv, UniqueTasks, TaskShape, RowStart, GrantFlow, SendFails
  <2> QED
    BY <1>t, <1>3, <2>3, <2>4 DEF GrantInv, UniqueTasks, TaskShape, Spending, Gated,
       SendFails
<1>4. ASSUME NEW r \in Responders, RejectCommit(r) PROVE GrantInv'
  <2>3. RowStart'
    BY <1>t, <1>4 DEF GrantInv, UniqueTasks, TaskShape, RowStart, RejectCommit
  <2>4. GrantFlow'
    BY <1>t, <1>4 DEF GrantInv, UniqueTasks, TaskShape, RowStart, GrantFlow, RejectCommit
  <2>5. Spending'
    BY <1>t, <1>4 DEF GrantInv, UniqueTasks, TaskShape, RowStart, GrantFlow, Spending,
       Gated, RejectCommit
  <2> QED
    BY <1>t, <1>4, <2>3, <2>4, <2>5 DEF GrantInv, UniqueTasks, TaskShape, Gated,
       RejectCommit
<1>5. ASSUME NEW r \in Responders, CancelCommit(r) PROVE GrantInv'
  <2>3. RowStart'
    BY <1>t, <1>5 DEF GrantInv, UniqueTasks, TaskShape, RowStart, CancelCommit
  <2>4. GrantFlow'
    BY <1>t, <1>5 DEF GrantInv, UniqueTasks, TaskShape, RowStart, GrantFlow, CancelCommit
  <2>5. Spending'
    BY <1>t, <1>5 DEF GrantInv, UniqueTasks, TaskShape, RowStart, GrantFlow, Spending,
       Gated, CancelCommit
  <2> QED
    BY <1>t, <1>5, <2>3, <2>4, <2>5 DEF GrantInv, UniqueTasks, TaskShape, Gated,
       CancelCommit
<1>6. ASSUME NEW r \in Responders, NEW e \in Execs, ApproveRead(r, e) PROVE GrantInv'
  <2>3. RowStart'
    BY <1>t, <1>6 DEF GrantInv, UniqueTasks, TaskShape, RowStart, ApproveRead
  <2>4. GrantFlow'
    BY <1>t, <1>6 DEF GrantInv, UniqueTasks, TaskShape, RowStart, GrantFlow, ApproveRead
  <2> QED
    BY <1>t, <1>6, <2>3, <2>4 DEF GrantInv, UniqueTasks, TaskShape, Spending, Gated,
       ApproveRead
<1>7. ASSUME NEW r \in Responders, NEW e \in Execs, RejectRead(r, e) PROVE GrantInv'
  <2>3. RowStart'
    BY <1>t, <1>7 DEF GrantInv, UniqueTasks, TaskShape, RowStart, RejectRead
  <2>4. GrantFlow'
    BY <1>t, <1>7 DEF GrantInv, UniqueTasks, TaskShape, RowStart, GrantFlow, RejectRead
  <2> QED
    BY <1>t, <1>7, <2>3, <2>4 DEF GrantInv, UniqueTasks, TaskShape, Spending, Gated,
       RejectRead
<1>8. ASSUME NEW r \in Responders, NEW e \in Execs, CancelRead(r, e) PROVE GrantInv'
  <2>3. RowStart'
    BY <1>t, <1>8 DEF GrantInv, UniqueTasks, TaskShape, RowStart, CancelRead
  <2>4. GrantFlow'
    BY <1>t, <1>8 DEF GrantInv, UniqueTasks, TaskShape, RowStart, GrantFlow, CancelRead
  <2> QED
    BY <1>t, <1>8, <2>3, <2>4 DEF GrantInv, UniqueTasks, TaskShape, Spending, Gated,
       CancelRead
<1>9. ASSUME NEW w \in Workers, NEW e \in Execs, StartExecution(w, e) PROVE GrantInv'
  <2>a. /\ worker'[w].pc = "gate" /\ worker'[w].ex = e /\ worker'[w].by = NoOne
        /\ Busy(w)' /\ ~Busy(w)
    BY <1>t, <1>9 DEF StartExecution
  <2>b. \A v \in Workers : v # w => worker'[v] = worker[v] /\ (Busy(v)' <=> Busy(v))
    BY <1>t, <1>9 DEF StartExecution
  <2>c. /\ status'[e] = "RUNNING" /\ \A x \in Execs : x # e => status'[x] = status[x]
        /\ UNCHANGED <<approval, mode, resumeQ, timer, req, granted, orders>>
    BY <1>t, <1>9 DEF StartExecution
  <2>d. /\ approval[e] = "none" /\ orders[<<e, NoOne>>] = 0
        /\ \A v \in Workers : Busy(v) => worker[v].ex # e
    BY <1>9 DEF GrantInv, RowStart, StartExecution
  <2>1. UniqueTasks'
    BY <2>a, <2>b, <2>d DEF GrantInv, UniqueTasks
  <2>2. TaskShape'
    BY <2>a, <2>b DEF GrantInv, TaskShape
  <2>3. RowStart'
    <3>1. \A v \in Workers : Busy(v)' /\ v # w => worker'[v].ex # e
      BY <2>b, <2>d
    <3> QED
      BY <2>a, <2>b, <2>c, <2>d, <3>1 DEF GrantInv, RowStart
  <2>4. GrantFlow'
    <3>1. \A r \in Responders : req[r].op = "send" =>
            \A v \in Workers : Busy(v)' => ~(worker'[v].ex = req[r].ex /\ worker'[v].by = r)
      <4> SUFFICES ASSUME NEW r \in Responders, req[r].op = "send", NEW v \in Workers, Busy(v)'
                   PROVE  ~(worker'[v].ex = req[r].ex /\ worker'[v].by = r)
        OBVIOUS
      <4>1. CASE v = w
        BY <2>a, <4>1
      <4>2. CASE v # w
        <5>1. worker'[v] = worker[v] /\ Busy(v)
          BY <2>b, <4>2
        <5>2. ~(worker[v].ex = req[r].ex /\ worker[v].by = r)
          BY <5>1 DEF GrantInv, GrantFlow
        <5> QED
          BY <5>1, <5>2
      <4> QED
        BY <4>1, <4>2
    <3>2. \A g \in resumeQ : \A v \in Workers :
            Busy(v)' => ~(worker'[v].ex = g[1] /\ worker'[v].by = g[2])
      BY <1>t, <2>a, <2>b DEF GrantInv, GrantFlow
    <3>3. \A v \in Workers : Busy(v)' /\ worker'[v].by # NoOne =>
            <<worker'[v].ex, worker'[v].by>> \in granted
      BY <2>a, <2>b DEF GrantInv, GrantFlow
    <3> QED
      BY <2>c, <3>1, <3>2, <3>3 DEF GrantInv, GrantFlow
  <2>5. Spending'
    <3>1. \A x \in Execs, r \in Responders : orders[<<x, r>>] > 0 =>
            <<x, r>> \in granted /\ status'[x] # "AWAITING_APPROVAL"
      BY <2>c DEF GrantInv, Spending
    <3>2. \A v \in Workers : worker'[v].pc \in {"gate", "checked", "check", "clear"} =>
            orders[<<worker'[v].ex, worker'[v].by>>] = 0
      BY <2>a, <2>b, <2>d DEF GrantInv, Spending
    <3>3. \A v \in Workers :
            Busy(v)' /\ worker'[v].by # NoOne /\ worker'[v].pc \notin {"checked", "failing"} =>
              status'[worker'[v].ex] # "AWAITING_APPROVAL"
      BY <1>t, <2>a, <2>b, <2>c DEF GrantInv, Spending
    <3>4. \A v \in Workers : worker'[v].by = NoOne /\ worker'[v].pc \in {"check", "clear"} =>
            ~Gated(worker'[v].ex)
      BY <2>a, <2>b DEF GrantInv, Spending
    <3> QED
      BY <2>c, <3>1, <3>2, <3>3, <3>4 DEF GrantInv, Spending, Gated
  <2> QED
    BY <1>t, <2>1, <2>2, <2>3, <2>4, <2>5 DEF GrantInv
<1>10. ASSUME NEW w \in Workers, InitiateApproval(w) PROVE GrantInv'
  <2>1. UniqueTasks'
    BY <1>t, <1>10 DEF GrantInv, UniqueTasks, InitiateApproval
  <2>2. TaskShape'
    BY <1>t, <1>10 DEF GrantInv, TaskShape, InitiateApproval
  <2>3. RowStart'
    BY <1>t, <1>10 DEF GrantInv, UniqueTasks, TaskShape, RowStart, InitiateApproval
  <2>4. GrantFlow'
    BY <1>t, <1>10 DEF GrantInv, UniqueTasks, TaskShape, RowStart, GrantFlow,
       InitiateApproval
  <2>5. Spending'
    <3> DEFINE e == worker[w].ex
    <3>1. \A r \in Responders : <<e, r>> \notin granted
      BY <1>10 DEF GrantInv, RowStart, InitiateApproval
    <3>2. \A v \in Workers : Busy(v) /\ worker[v].by # NoOne => worker[v].ex # e
      BY ZenonT(30), <1>t, <3>1 DEF GrantInv, GrantFlow
    <3>3. Busy(w) /\ e \in Execs /\ Goto(w, "schedule")
      BY <1>t, <1>10 DEF InitiateApproval
    <3>4. /\ worker'[w].pc = "schedule"
          /\ \A v \in Workers : v # w => worker'[v] = worker[v]
          /\ \A v \in Workers : /\ worker'[v].ex = worker[v].ex
                               /\ worker'[v].by = worker[v].by
                               /\ Busy(v)' <=> Busy(v)
      BY <1>t, <3>3, GotoTask
    <3>5. /\ \A x \in Execs : x # e => status'[x] = status[x]
          /\ UNCHANGED <<mode, granted, orders>>
      BY <1>t, <1>10 DEF InitiateApproval
    <3> QED
      BY <1>t, <3>1, <3>2, <3>3, <3>4, <3>5 DEF GrantInv, Spending, Gated
  <2> QED
    BY <1>t, <2>1, <2>2, <2>3, <2>4, <2>5 DEF GrantInv
<1>11. ASSUME NEW w \in Workers, ScheduleTimeout(w) PROVE GrantInv'
  <2>1. Busy(w) /\ (Release(w) \/ Goto(w, "failing"))
    BY <1>11 DEF ScheduleTimeout
  <2>2. UNCHANGED <<status, approval, mode, resumeQ, req, granted, orders>>
    BY <1>11 DEF ScheduleTimeout
  <2>3. \A e \in Execs : timer'[e] = "checked" => timer[e] = "checked"
    BY <1>t, <1>11 DEF ScheduleTimeout
  <2> QED
    BY <1>t, <2>1, <2>2, <2>3, EndKeeps
<1>12. ASSUME NEW w \in Workers, PassGate(w) PROVE GrantInv'
  <2>a. PICK pc \in {"check", "skip"} :
          Goto(w, pc) /\ (pc = "check" => ~ShouldRequireApproval(mode[worker[w].ex]))
    BY <1>12 DEF PassGate
  <2>b. Busy(w) /\ worker[w].pc = "gate"
    BY <1>12 DEF PassGate
  <2>c. UNCHANGED <<status, approval, mode, resumeQ, timer, req, granted, orders>>
    BY <1>12 DEF PassGate
  <2>d. worker'[w].pc = pc /\ \A v \in Workers : v # w => worker'[v] = worker[v]
    BY <1>t, <2>a, <2>b, GotoTask
  <2>e. \A v \in Workers : /\ worker'[v].ex = worker[v].ex
                         /\ worker'[v].by = worker[v].by
                         /\ Busy(v)' <=> Busy(v)
    BY <1>t, <2>a, <2>b, GotoTask
  <2>1. UniqueTasks'
    BY <1>t, <2>a, <2>b, <2>c, <2>d, <2>e DEF GrantInv, UniqueTasks
  <2>2. TaskShape'
    BY <1>t, <2>a, <2>b, <2>c, <2>d, <2>e DEF GrantInv, TaskShape
  <2>3. RowStart'
    BY <1>t, <2>a, <2>b, <2>c, <2>d, <2>e DEF GrantInv, RowStart
  <2>4. GrantFlow'
    BY <1>t, <2>a, <2>b, <2>c, <2>d, <2>e DEF GrantInv, GrantFlow
  <2>5. Spending'
    BY <1>t, <2>a, <2>b, <2>c, <2>d, <2>e DEF GrantInv, TaskShape, Spending, Gated
  <2> QED
    BY <1>t, <2>1, <2>2, <2>3, <2>4, <2>5 DEF GrantInv
<1>13. ASSUME NEW w \in Workers, NEW g \in Grants, TakeResume(w, g) PROVE GrantInv'
  <2>a. PICK e \in Execs, r \in Responders : g = <<e, r>>
    OBVIOUS
  <2>b. /\ g \in resumeQ /\ resumeQ' = resumeQ \ {g} /\ ~Busy(w)
        /\ UNCHANGED <<status, approval, mode, timer, req, granted, orders>>
    BY <1>t, <1>13 DEF TakeResume, Resumable
  <2>c. /\ g \in granted /\ r # NoOne
        /\ \A v \in Workers : Busy(v) => ~(worker[v].ex = e /\ worker[v].by = r)
        /\ \A p \in Responders : req[p].op = "send" => <<req[p].ex, p>> # g
    BY <2>a, <2>b DEF GrantInv, GrantFlow
  <2>1. CASE worker' = worker
    <3>1. GrantFlow'
      BY <2>b, <2>1 DEF GrantInv, GrantFlow
    <3> QED
      BY <1>t, <2>b, <2>1, <3>1
         DEF GrantInv, UniqueTasks, TaskShape, RowStart, Spending, Gated
  <2>2. CASE worker' # worker
    <3>p. PICK pc \in {"checked", "failing"} :
            /\ worker' = [worker EXCEPT ![w] = Task(pc, e, r)]
            /\ pc = "checked" => status[e] = "AWAITING_APPROVAL"
      BY <1>13, <2>a, <2>2 DEF TakeResume, Resumable
    <3>a. status[e] # "absent" /\ (pc = "checked" => orders[<<e, r>>] = 0)
      <4>1. g \in granted /\ g[1] = e /\ approval[e] # "none"
        BY <2>a, <2>c DEF GrantInv, RowStart
      <4>2. status[e] # "absent"
        BY <4>1 DEF GrantInv, RowStart
      <4>3. <<e, r>> \in Asked /\ orders[<<e, r>>] \in Nat
        BY <1>t
      <4> QED
        BY <3>p, <4>2, <4>3 DEF GrantInv, Spending
    <3>b. /\ worker'[w].pc = pc /\ worker'[w].ex = e /\ worker'[w].by = r
          /\ Busy(w)'
      BY <1>t, <3>p
    <3>c. \A v \in Workers : v # w => worker'[v] = worker[v] /\ (Busy(v)' <=> Busy(v))
      BY <1>t, <3>p
    <3>1. UniqueTasks'
      BY <2>c, <3>b, <3>c DEF GrantInv, UniqueTasks
    <3>2. TaskShape'
      BY <2>c, <3>b, <3>c DEF GrantInv, TaskShape
    <3>3. RowStart'
      <4>1. \A x \in Execs : status[x] = "absent" =>
              \A v \in Workers : Busy(v)' => worker'[v].ex # x
        BY ZenonT(30), <3>a, <3>b, <3>c DEF GrantInv, RowStart
      <4>2. \A v \in Workers : worker'[v].pc = "gate" => approval[worker'[v].ex] = "none"
        BY <3>b, <3>c DEF GrantInv, RowStart
      <4> QED
        BY <2>b, <4>1, <4>2 DEF GrantInv, RowStart
    <3>4. GrantFlow'
      <4>1. \A p \in Responders : req[p].op = "send" =>
              \A v \in Workers :
                Busy(v)' => ~(worker'[v].ex = req[p].ex /\ worker'[v].by = p)
        <5> SUFFICES ASSUME NEW p \in Responders, req[p].op = "send",
                            NEW v \in Workers, Busy(v)'
                     PROVE  ~(worker'[v].ex = req[p].ex /\ worker'[v].by = p)
          OBVIOUS
        <5>1. CASE v = w
          BY <2>a, <2>c, <3>b, <5>1
        <5>2. CASE v # w
          <6>1. worker'[v] = worker[v] /\ Busy(v)
            BY <3>c, <5>2
          <6>2. ~(worker[v].ex = req[p].ex /\ worker[v].by = p)
            BY <6>1 DEF GrantInv, GrantFlow
          <6> QED
            BY <6>1, <6>2
        <5> QED
          BY <5>1, <5>2
      <4>2. \A h \in resumeQ' : \A v \in Workers :
              Busy(v)' => ~(worker'[v].ex = h[1] /\ worker'[v].by = h[2])
        <5> SUFFICES ASSUME NEW h \in resumeQ', NEW v \in Workers, Busy(v)'
                     PROVE  ~(worker'[v].ex = h[1] /\ worker'[v].by = h[2])
          OBVIOUS
        <5>1. h \in resumeQ /\ h # g /\ h = <<h[1], h[2]>>
          BY <1>t, <2>b
        <5>2. CASE v = w
          BY <2>a, <3>b, <5>1, <5>2
        <5>3. CASE v # w
          <6>1. worker'[v] = worker[v] /\ Busy(v)
            BY <3>c, <5>3
          <6>2. ~(worker[v].ex = h[1] /\ worker[v].by = h[2])
            BY <5>1, <6>1 DEF GrantInv, GrantFlow
          <6> QED
            BY <6>1, <6>2
        <5> QED
          BY <5>2, <5>3
      <4>3. \A v \in Workers : Busy(v)' /\ worker'[v].by # NoOne =>
              <<worker'[v].ex, worker'[v].by>> \in granted
        BY <2>a, <2>c, <3>b, <3>c DEF GrantInv, GrantFlow
      <4> QED
        BY <2>b, <4>1, <4>2, <4>3 DEF GrantInv, GrantFlow
    <3>5. Spending'
      <4>2. \A v \in Workers : worker'[v].pc \in {"gate", "checked", "check", "clear"} =>
              orders[<<worker'[v].ex, worker'[v].by>>] = 0
        BY <3>a, <3>b, <3>c DEF GrantInv, Spending
      <4>3. \A v \in Workers :
              Busy(v)' /\ worker'[v].by # NoOne /\ worker'[v].pc \notin {"checked", "failing"} =>
                status[worker'[v].ex] # "AWAITING_APPROVAL"
        BY <3>b, <3>c DEF GrantInv, Spending
      <4>4. \A v \in Workers :
              worker'[v].by = NoOne /\ worker'[v].pc \in {"check", "clear"} =>
                ~Gated(worker'[v].ex)
        BY <3>b, <3>c DEF GrantInv, Spending
      <4> QED
        BY <2>b, <4>2, <4>3, <4>4 DEF GrantInv, Spending, Gated
    <3> QED
      BY <1>t, <3>1, <3>2, <3>3, <3>4, <3>5 DEF GrantInv
  <2> QED
    BY <2>1, <2>2
<1>14. ASSUME NEW w \in Workers, CommitRunning(w) PROVE GrantInv'
  <2>1. UniqueTasks'
    BY <1>t, <1>14 DEF GrantInv, UniqueTasks, CommitRunning
  <2>2. TaskShape'
    BY <1>t, <1>14 DEF GrantInv, TaskShape, CommitRunning
  <2>3. RowStart'
    BY <1>t, <1>14 DEF GrantInv, UniqueTasks, TaskShape, RowStart, CommitRunning
  <2>4. GrantFlow'
    BY <1>t, <1>14 DEF GrantInv, UniqueTasks, TaskShape, RowStart, GrantFlow,
       CommitRunning
  <2>5. Spending'
    BY <1>t, <1>14 DEF GrantInv, UniqueTasks, TaskShape, RowStart, GrantFlow, Spending,
       Gated, CommitRunning
  <2> QED
    BY <1>t, <2>1, <2>2, <2>3, <2>4, <2>5 DEF GrantInv
<1>15. ASSUME NEW w \in Workers, ResumeUnusable(w) PROVE GrantInv'
  <2>1. UniqueTasks'
    BY <1>t, <1>15 DEF GrantInv, UniqueTasks, ResumeUnusable
  <2>2. TaskShape'
    BY <1>t, <1>15 DEF GrantInv, TaskShape, ResumeUnusable
  <2>3. RowStart'
    BY <1>t, <1>15 DEF GrantInv, UniqueTasks, TaskShape, RowStart, ResumeUnusable
  <2>4. GrantFlow'
    BY <1>t, <1>15 DEF GrantInv, UniqueTasks, TaskShape, RowStart, GrantFlow,
       ResumeUnusable
  <2>5. Spending'
    BY <1>t, <1>15 DEF GrantInv, UniqueTasks, TaskShape, RowStart, GrantFlow, Spending,
       Gated, ResumeUnusable
  <2> QED
    BY <1>t, <2>1, <2>2, <2>3, <2>4, <2>5 DEF GrantInv
<1>16. ASSUME NEW w \in Workers, DuplicateCheck(w) PROVE GrantInv'
  <2>a. PICK pc \in {"clear", "skip"} : Goto(w, pc)
    BY <1>16 DEF DuplicateCheck
  <2>b. Busy(w) /\ worker[w].pc = "check"
    BY <1>16 DEF DuplicateCheck
  <2>c. UNCHANGED <<status, approval, mode, resumeQ, timer, req, granted, orders>>
    BY <1>16 DEF DuplicateCheck
  <2>d. worker'[w].pc = pc /\ \A v \in Workers : v # w => worker'[v] = worker[v]
    BY <1>t, <2>a, <2>b, GotoTask
  <2>e. \A v \in Workers : /\ worker'[v].ex = worker[v].ex
                         /\ worker'[v].by = worker[v].by
                         /\ Busy(v)' <=> Busy(v)
    BY <1>t, <2>a, <2>b, GotoTask
  <2>1. UniqueTasks'
    BY <1>t, <2>a, <2>b, <2>c, <2>d, <2>e DEF GrantInv, UniqueTasks
  <2>2. TaskShape'
    BY <1>t, <2>a, <2>b, <2>c, <2>d, <2>e DEF GrantInv, TaskShape
  <2>3. RowStart'
    BY <1>t, <2>a, <2>b, <2>c, <2>d, <2>e DEF GrantInv, RowStart
  <2>4. GrantFlow'
    BY <1>t, <2>a, <2>b, <2>c, <2>d, <2>e DEF GrantInv, GrantFlow
  <2>5. Spending'
    BY <1>t, <2>a, <2>b, <2>c, <2>d, <2>e DEF GrantInv, TaskShape, Spending, Gated
  <2> QED
    BY <1>t, <2>1, <2>2, <2>3, <2>4, <2>5 DEF GrantInv
<1>17. ASSUME NEW w \in Workers, PlaceOrder(w) PROVE GrantInv'
  <2>1. UniqueTasks'
    BY <1>t, <1>17 DEF GrantInv, UniqueTasks, PlaceOrder
  <2>2. TaskShape'
    BY <1>t, <1>17 DEF GrantInv, TaskShape, PlaceOrder
  <2>3. RowStart'
    BY <1>t, <1>17 DEF GrantInv, UniqueTasks, TaskShape, RowStart, PlaceOrder
  <2>4. GrantFlow'
    BY <1>t, <1>17 DEF GrantInv, UniqueTasks, TaskShape, RowStart, GrantFlow, PlaceOrder
  <2>5. Spending'
    <3> DEFINE a == <<worker[w].ex, worker[w].by>>
    <3>1. Busy(w) /\ worker[w].pc = "clear" /\ a \in Asked /\ Goto(w, "traded")
      BY <1>t, <1>17 DEF PlaceOrder
    <3>2. /\ worker'[w].pc = "traded"
          /\ \A v \in Workers : v # w => worker'[v] = worker[v]
          /\ \A v \in Workers : /\ worker'[v].ex = worker[v].ex
                               /\ worker'[v].by = worker[v].by
                               /\ Busy(v)' <=> Busy(v)
      BY <1>t, <3>1, GotoTask
    <3>3. orders[a] = 0 /\ (orders'[a] = 0 \/ orders'[a] = 1)
      BY <1>t, <1>17, <3>1 DEF GrantInv, Spending, PlaceOrder
    <3>4. \A b \in Asked : b # a => orders'[b] = orders[b]
      BY <1>t, <1>17, <3>1 DEF PlaceOrder
    <3>5. UNCHANGED <<status, mode, granted>>
      BY <1>17 DEF PlaceOrder
    <3>6. IF worker[w].by = NoOne THEN ~Gated(worker[w].ex)
             ELSE a \in granted /\ status[worker[w].ex] # "AWAITING_APPROVAL"
      BY <1>t, <3>1 DEF GrantInv, GrantFlow, Spending
    <3>7. \A v \in Workers : v # w /\ Busy(v) => <<worker[v].ex, worker[v].by>> # a
      BY <3>1 DEF GrantInv, UniqueTasks
    <3>8. \A e \in Execs, r \in Responders : orders'[<<e, r>>] > 0 =>
            <<e, r>> \in granted /\ status[e] # "AWAITING_APPROVAL"
      <4> SUFFICES ASSUME NEW e \in Execs, NEW r \in Responders, orders'[<<e, r>>] > 0
                   PROVE  <<e, r>> \in granted /\ status[e] # "AWAITING_APPROVAL"
        OBVIOUS
      <4>1. CASE <<e, r>> = a
        <5>1. worker[w].ex = e /\ worker[w].by = r /\ r # NoOne
          BY <4>1
        <5> QED
          BY <3>6, <4>1, <5>1
      <4>2. CASE <<e, r>> # a
        <5>1. orders'[<<e, r>>] = orders[<<e, r>>]
          BY <3>4, <4>2
        <5> QED
          BY <5>1 DEF GrantInv, Spending
      <4> QED
        BY <4>1, <4>2
    <3>9. \A v \in Workers : worker'[v].pc \in {"gate", "checked", "check", "clear"} =>
            orders'[<<worker'[v].ex, worker'[v].by>>] = 0
      <4> SUFFICES ASSUME NEW v \in Workers,
                          worker'[v].pc \in {"gate", "checked", "check", "clear"}
                   PROVE  orders'[<<worker'[v].ex, worker'[v].by>>] = 0
        OBVIOUS
      <4>1. v # w /\ worker'[v] = worker[v] /\ Busy(v)
        BY <3>2
      <4>2. <<worker[v].ex, worker[v].by>> \in Asked /\ <<worker[v].ex, worker[v].by>> # a
        BY <1>t, <3>7, <4>1
      <4> QED
        BY <3>4, <4>1, <4>2 DEF GrantInv, Spending
    <3>10. \A v \in Workers :
             Busy(v)' /\ worker'[v].by # NoOne /\ worker'[v].pc \notin {"checked", "failing"} =>
               status[worker'[v].ex] # "AWAITING_APPROVAL"
      BY <3>1, <3>2, <3>6 DEF GrantInv, Spending
    <3>11. \A v \in Workers : worker'[v].by = NoOne /\ worker'[v].pc \in {"check", "clear"} =>
             ~Gated(worker'[v].ex)
      BY <3>2 DEF GrantInv, Spending
    <3>12. \A e \in Execs : orders'[<<e, NoOne>>] > 0 => ~Gated(e)
      BY <1>t, <3>1, <3>4, <3>6 DEF GrantInv, Spending
    <3>13. \A b \in Asked : orders'[b] <= 1
      <4> SUFFICES ASSUME NEW b \in Asked PROVE orders'[b] <= 1
        OBVIOUS
      <4>1. orders[b] <= 1
        BY DEF GrantInv, Spending
      <4> QED
        BY <3>3, <3>4, <4>1
    <3> QED
      BY <3>5, <3>8, <3>9, <3>10, <3>11, <3>12, <3>13 DEF Spending, Gated
  <2> QED
    BY <1>t, <2>1, <2>2, <2>3, <2>4, <2>5 DEF GrantInv
<1>18. ASSUME NEW w \in Workers, Finish(w) PROVE GrantInv'
  <2>1. Busy(w) /\ (Release(w) \/ Goto(w, "failing"))
    BY <1>18 DEF Finish
  <2>2. UNCHANGED <<approval, mode, resumeQ, req, timer, granted, orders>>
    BY <1>18 DEF Finish
  <2>3. \A e \in Execs : status'[e] # status[e] =>
                          status'[e] \notin {"absent", "AWAITING_APPROVAL"}
    BY <1>t, <1>18 DEF Finish
  <2> QED
    BY <1>t, <2>1, <2>2, <2>3, EndKeeps
<1>19. ASSUME NEW w \in Workers, TaskRaises(w) PROVE GrantInv'
  <2>1. Busy(w) /\ Goto(w, "failing")
    BY <1>19 DEF TaskRaises
  <2>2. UNCHANGED <<status, approval, mode, resumeQ, req, timer, granted, orders>>
    BY <1>19 DEF TaskRaises
  <2> QED
    BY <1>t, <2>1, <2>2, EndKeeps
<1>20. ASSUME NEW w \in Workers, HandleFailure(w) PROVE GrantInv'
  <2>1. UniqueTasks'
    BY <1>t, <1>20 DEF GrantInv, UniqueTasks, HandleFailure, Retry
  <2>2. TaskShape'
    BY <1>t, <1>20 DEF GrantInv, TaskShape, HandleFailure, Retry
  <2>3. RowStart'
    BY <1>t, <1>20 DEF GrantInv, UniqueTasks, TaskShape, RowStart, HandleFailure, Retry
  <2>4. GrantFlow'
    BY <1>t, <1>20 DEF GrantInv, UniqueTasks, TaskShape, RowStart, GrantFlow,
       HandleFailure, Retry
  <2>5. Spending'
    BY <1>t, <1>20 DEF GrantInv, UniqueTasks, TaskShape, RowStart, GrantFlow, Spending,
       Gated, HandleFailure, Retry
  <2> QED
    BY <1>t, <2>1, <2>2, <2>3, <2>4, <2>5 DEF GrantInv
<1>21. ASSUME NEW w \in Workers, WorkerCrash(w) PROVE GrantInv'
  <2>1. UniqueTasks'
    BY <1>t, <1>21 DEF GrantInv, UniqueTasks, Redeliver, WorkerCrash
  <2>2. TaskShape'
    BY <1>t, <1>21 DEF GrantInv, TaskShape, Redeliver, WorkerCrash
  <2>3. RowStart'
    BY <1>t, <1>21 DEF GrantInv, UniqueTasks, TaskShape, RowStart, Redeliver, WorkerCrash
  <2>4. GrantFlow'
    BY <1>t, <1>21 DEF GrantInv, UniqueTasks, TaskShape, RowStart, GrantFlow, Redeliver,
       WorkerCrash
  <2>5. Spending'
    BY <1>t, <1>21 DEF GrantInv, UniqueTasks, TaskShape, RowStart, GrantFlow, Spending,
       Gated, Redeliver, WorkerCrash
  <2> QED
    BY <1>t, <2>1, <2>2, <2>3, <2>4, <2>5 DEF GrantInv
<1>22. ASSUME NEW e \in Execs, TimeoutRead(e) PROVE GrantInv'
  <2>3. RowStart'
    BY <1>t, <1>22 DEF GrantInv, UniqueTasks, TaskShape, RowStart, TimeoutRead
  <2> QED
    BY <1>t, <1>22, <2>3 DEF GrantInv, UniqueTasks, TaskShape, GrantFlow, Spending,
       Gated, TimeoutRead
<1>23. ASSUME NEW e \in Execs, TimeoutCommit(e) PROVE GrantInv'
  <2>3. RowStart'
    BY <1>t, <1>23 DEF GrantInv, UniqueTasks, TaskShape, RowStart, TimeoutCommit
  <2>5. Spending'
    BY <1>t, <1>23 DEF GrantInv, UniqueTasks, TaskShape, RowStart, GrantFlow, Spending,
       Gated, TimeoutCommit
  <2> QED
    BY <1>t, <1>23, <2>3, <2>5 DEF GrantInv, UniqueTasks, TaskShape, GrantFlow, Gated,
       TimeoutCommit
<1>24. ASSUME NEW e \in Execs, TimeoutCrash(e) PROVE GrantInv'
  <2>3. RowStart'
    BY <1>t, <1>24 DEF GrantInv, UniqueTasks, TaskShape, RowStart, TimeoutCrash
  <2> QED
    BY <1>t, <1>24, <2>3 DEF GrantInv, UniqueTasks, TaskShape, GrantFlow, Spending,
       Gated, TimeoutCrash
<1>25. ASSUME NEW e \in Execs, TimeoutGivesUp(e) PROVE GrantInv'
  <2>3. RowStart'
    BY <1>t, <1>25 DEF GrantInv, UniqueTasks, TaskShape, RowStart, TimeoutGivesUp
  <2> QED
    BY <1>t, <1>25, <2>3 DEF GrantInv, UniqueTasks, TaskShape, GrantFlow, Spending,
       Gated, TimeoutGivesUp
<1>26. ASSUME CleanupCommit PROVE GrantInv'
  <2>3. RowStart'
    BY <1>t, <1>26 DEF GrantInv, UniqueTasks, TaskShape, RowStart, Stale, CleanupCommit
  <2>5. Spending'
    BY <1>t, <1>26 DEF GrantInv, UniqueTasks, TaskShape, RowStart, GrantFlow, Spending,
       Gated, Stale, CleanupCommit
  <2> QED
    BY <1>t, <1>26, <2>3, <2>5 DEF GrantInv, UniqueTasks, TaskShape, GrantFlow, Gated,
       CleanupCommit
<1>27. ASSUME UNCHANGED <<status, approval, mode, resumeQ, timer, worker, req, granted, orders>>
      PROVE  GrantInv'
  BY <1>t, <1>27 DEF GrantInv, UniqueTasks, TaskShape, RowStart, GrantFlow, Spending,
     Gated
<1>28. ASSUME NEW e \in Execs, Expire(e) \/ Age(e) \/ BrokerClose(e) PROVE GrantInv'
  BY <1>28, <1>27 DEF Expire, Age, BrokerClose
<1>29. ASSUME CleanupRead \/ UNCHANGED vars PROVE GrantInv'
  BY <1>29, <1>27 DEF CleanupRead, vars
<1>r. ASSUME NEW r \in Responders,
             \/ ApiStep(r) \/ SendFails(r)
             \/ \E e \in Execs : ApproveRead(r, e) \/ RejectRead(r, e) \/ CancelRead(r, e)
      PROVE  GrantInv'
  BY <1>r, <1>1, <1>2, <1>3, <1>4, <1>5, <1>6, <1>7, <1>8 DEF ApiStep
<1>w. ASSUME NEW w \in Workers,
             \/ TaskStep(w) \/ WorkerCrash(w)
             \/ \E e \in Execs : StartExecution(w, e)
             \/ \E g \in Grants : TakeResume(w, g)
      PROVE  GrantInv'
  BY <1>w, <1>9, <1>10, <1>11, <1>12, <1>13, <1>14, <1>15, <1>16, <1>17, <1>18, <1>19,
     <1>20, <1>21 DEF TaskStep
<1>e. ASSUME NEW e \in Execs,
             \/ TimerStep(e) \/ TimeoutCrash(e) \/ TimeoutGivesUp(e)
             \/ Expire(e) \/ Age(e) \/ BrokerClose(e)
      PROVE  GrantInv'
  BY <1>e, <1>28, <1>22, <1>23, <1>24, <1>25 DEF TimerStep
<1> QED
  BY <1>r, <1>w, <1>e, <1>26, <1>29 DEF Next

\* The grants, tasks, messages and orders of every reachable state fit together.
THEOREM GrantsFit == Spec => []GrantInv
<1>1. Init => GrantInv
  <2> SUFFICES ASSUME Init PROVE GrantInv
    OBVIOUS
  <2>1. TypeOK
    BY ApprovalAssumption DEF Init, TypeOK, ExecutionStatus, ApprovalStatus, Asked, Tasks,
       Requests
  <2>2. \A w \in Workers : ~Busy(w) /\ worker[w].pc = "idle"
    BY DEF Init, Busy, Idle, Task
  <2>3. \A r \in Responders : req[r].op = "none"
    BY DEF Init, NoReq
  <2>4. UniqueTasks /\ TaskShape
    BY <2>2 DEF UniqueTasks, TaskShape
  <2>5. RowStart
    BY <2>2, <2>3 DEF Init, RowStart, Asked
  <2>6. GrantFlow
    BY <2>2, <2>3 DEF Init, GrantFlow
  <2>7. Spending
    <3>1. \A a \in Asked : orders[a] = 0
      BY DEF Init
    <3>2. \A e \in Execs : \A r \in Responders \cup {NoOne} : orders[<<e, r>>] = 0
      BY <3>1 DEF Asked
    <3> QED
      BY <2>2, <3>1, <3>2 DEF Spending
  <2> QED
    BY <2>1, <2>4, <2>5, <2>6, <2>7 DEF GrantInv
<1> QED
  BY <1>1, GrantStep, PTL DEF Spec

\* No order without an accepted approval where one is needed, and one order per
\* approval, for any number of rows, workers, requests and crashes.
THEOREM OneOrder == Spec => []OneOrderPerGrant
<1>1. GrantInv => OneOrderPerGrant
  <2> SUFFICES ASSUME GrantInv, NEW e \in Execs
               PROVE  /\ \A r \in Responders :
                           orders[<<e, r>>] <= IF <<e, r>> \in granted THEN 1 ELSE 0
                      /\ orders[<<e, NoOne>>] <= IF Gated(e) THEN 0 ELSE 1
    BY DEF OneOrderPerGrant
  <2>1. \A r \in Responders \cup {NoOne} :
          <<e, r>> \in Asked /\ orders[<<e, r>>] \in Nat /\ orders[<<e, r>>] <= 1
    BY DEF GrantInv, TypeOK, Spending, Asked
  <2>2. \A r \in Responders : orders[<<e, r>>] > 0 => <<e, r>> \in granted
    BY DEF GrantInv, Spending
  <2>3. orders[<<e, NoOne>>] > 0 => ~Gated(e)
    BY DEF GrantInv, Spending
  <2> QED
    BY <2>1, <2>2, <2>3
<1> QED
  BY <1>1, GrantsFit, PTL

-------------------------------------------------------------------------------
(* Rows that are over                                                        *)

LEMMA SettledStep ==
  ASSUME TypeOK, [Next]_vars, NEW e \in Execs, Settled(e)
  PROVE  /\ Settled(e)'
         /\ \A r \in Responders \cup {NoOne} : orders'[<<e, r>>] = orders[<<e, r>>]
<1> USE ApprovalAssumption
    DEF TypeOK, Grants, Asked, TaskPC, Tasks, Task, Idle, Requests, NoReq, rowVars,
        histVars, Goto, Release, Settled
<1>1. ASSUME NEW r \in Responders, ApiStep(r) \/ SendFails(r) PROVE Settled(e)' /\ orders' = orders
  BY <1>1 DEF ApiStep, ApproveCommit, SendResume, RejectCommit, CancelCommit, SendFails
<1>2. ASSUME NEW r \in Responders, NEW x \in Execs,
             ApproveRead(r, x) \/ RejectRead(r, x) \/ CancelRead(r, x)
      PROVE  Settled(e)' /\ orders' = orders
  BY <1>2 DEF ApproveRead, RejectRead, CancelRead
<1>3. ASSUME NEW w \in Workers, TaskStep(w) \/ WorkerCrash(w)
      PROVE  /\ Settled(e)'
             /\ \A r \in Responders \cup {NoOne} : orders'[<<e, r>>] = orders[<<e, r>>]
  <2>f. worker[w] # Idle /\ worker[w].ex = e => HandleFailure(w) \/ WorkerCrash(w)
    BY <1>3 DEF TaskStep, InitiateApproval, ScheduleTimeout, PassGate, CommitRunning,
       ResumeUnusable, DuplicateCheck, PlaceOrder, Finish, TaskRaises
  <2>h. CASE HandleFailure(w)
    <3>1. orders' = orders /\ worker' = [worker EXCEPT ![w] = Idle]
      BY <2>h DEF HandleFailure
    <3>2. status'[e] = status[e] \/ status'[e] = "FAILED"
      BY <2>h DEF HandleFailure
    <3> QED
      BY <3>1, <3>2
  <2>c. CASE WorkerCrash(w)
    BY <2>c DEF WorkerCrash
  <2>b. CASE ~HandleFailure(w) /\ ~WorkerCrash(w)
    <3>1. worker[w] # Idle
      BY <1>3, <2>b DEF TaskStep, InitiateApproval, ScheduleTimeout, PassGate, CommitRunning,
         ResumeUnusable, DuplicateCheck, PlaceOrder, Finish, TaskRaises
    <3>2. worker[w].ex # e
      BY <2>f, <2>b, <3>1
    <3>a. ASSUME UNCHANGED orders, status'[e] = status[e],
                 Release(w) \/ \E pc \in TaskPC : Goto(w, pc)
          PROVE  Settled(e)' /\ UNCHANGED orders
      <4>1. worker'[w] = Idle \/ worker'[w].ex # e
        BY <3>2, <3>a
      <4>2. \A v \in Workers : v # w => worker'[v] = worker[v]
        BY <3>a
      <4> QED
        BY <3>a, <4>1, <4>2
    <3>3. CASE InitiateApproval(w) \/ ScheduleTimeout(w) \/ PassGate(w) \/ CommitRunning(w)
      <4>1. /\ UNCHANGED orders /\ status'[e] = status[e]
            /\ Release(w) \/ \E pc \in TaskPC : Goto(w, pc)
        BY <3>2, <3>3 DEF InitiateApproval, ScheduleTimeout, PassGate, CommitRunning
      <4> QED
        BY <3>a, <4>1
    <3>4. CASE ResumeUnusable(w) \/ DuplicateCheck(w) \/ Finish(w) \/ TaskRaises(w)
      <4>1. /\ UNCHANGED orders /\ status'[e] = status[e]
            /\ Release(w) \/ \E pc \in TaskPC : Goto(w, pc)
        BY <3>2, <3>4 DEF ResumeUnusable, DuplicateCheck, Finish, TaskRaises
      <4> QED
        BY <3>a, <4>1
    <3>5. CASE PlaceOrder(w)
      BY <3>2, <3>5 DEF PlaceOrder
    <3> QED
      BY <1>3, <2>b, <3>3, <3>4, <3>5 DEF TaskStep
  <2> QED
    BY <2>h, <2>c, <2>b
<1>4. ASSUME NEW w \in Workers, NEW x \in Execs, StartExecution(w, x)
      PROVE  Settled(e)' /\ orders' = orders
  BY <1>4 DEF StartExecution
<1>5. ASSUME NEW w \in Workers, NEW g \in Grants, TakeResume(w, g)
      PROVE  Settled(e)' /\ orders' = orders
  BY <1>5 DEF TakeResume, Resumable
<1>6. ASSUME NEW x \in Execs,
             \/ TimerStep(x) \/ TimeoutCrash(x) \/ TimeoutGivesUp(x)
             \/ Expire(x) \/ Age(x) \/ BrokerClose(x)
      PROVE  Settled(e)' /\ orders' = orders
  BY <1>6 DEF TimerStep, TimeoutRead, TimeoutCommit, TimeoutCrash, TimeoutGivesUp,
     Expire, Age, BrokerClose
<1>7. CASE CleanupRead \/ CleanupCommit \/ UNCHANGED vars
  BY <1>7 DEF CleanupRead, CleanupCommit, vars
<1> QED
  BY <1>1, <1>2, <1>3, <1>4, <1>5, <1>6, <1>7 DEF Next

\* A refusal stands: a row that is over and has no task never trades again, whatever request
\* or message that was on its way arrives.
THEOREM Refused == Spec => SettledStaysSettled
<1>1. TypeOK /\ [Next]_vars =>
        [\A e \in Execs : Settled(e) =>
           /\ Settled(e)'
           /\ \A r \in Responders \cup {NoOne} : orders'[<<e, r>>] = orders[<<e, r>>]]_vars
  BY SettledStep
<1> QED
  BY <1>1, TypeCorrect, PTL DEF Spec, SettledStaysSettled

-------------------------------------------------------------------------------
(* Refinement                                                                *)

\* Only ApproveCommit gives and only PlaceOrder orders; the mode is fixed.
LEMMA WhoTouches ==
  ASSUME [Next]_vars
  PROVE  /\ UNCHANGED mode
         /\ \/ UNCHANGED <<granted, orders>>
            \/ \E r \in Responders : ApproveCommit(r)
            \/ \E w \in Workers : PlaceOrder(w)
<1> USE DEF rowVars, histVars
<1>1. ASSUME NEW r \in Responders, ApiStep(r) \/ SendFails(r)
      PROVE  UNCHANGED mode /\ (UNCHANGED <<granted, orders>> \/ ApproveCommit(r))
  BY <1>1 DEF ApiStep, ApproveCommit, SendResume, RejectCommit, CancelCommit, SendFails
<1>2. ASSUME NEW r \in Responders, NEW e \in Execs,
             ApproveRead(r, e) \/ RejectRead(r, e) \/ CancelRead(r, e)
      PROVE  UNCHANGED <<mode, granted, orders>>
  BY <1>2 DEF ApproveRead, RejectRead, CancelRead
<1>3. ASSUME NEW w \in Workers, TaskStep(w) \/ WorkerCrash(w)
      PROVE  UNCHANGED mode /\ (UNCHANGED <<granted, orders>> \/ PlaceOrder(w))
  BY <1>3 DEF TaskStep, InitiateApproval, ScheduleTimeout, PassGate, CommitRunning,
     ResumeUnusable, DuplicateCheck, PlaceOrder, Finish, TaskRaises, HandleFailure,
     Retry, WorkerCrash
<1>4. ASSUME NEW w \in Workers, NEW e \in Execs, StartExecution(w, e)
      PROVE  UNCHANGED <<mode, granted, orders>>
  BY <1>4 DEF StartExecution
<1>5. ASSUME NEW w \in Workers, NEW g \in Grants, TakeResume(w, g)
      PROVE  UNCHANGED <<mode, granted, orders>>
  BY <1>5 DEF TakeResume, Resumable
<1>6. ASSUME NEW e \in Execs,
             \/ TimerStep(e) \/ TimeoutCrash(e) \/ TimeoutGivesUp(e)
             \/ Expire(e) \/ Age(e) \/ BrokerClose(e)
      PROVE  UNCHANGED <<mode, granted, orders>>
  BY <1>6 DEF TimerStep, TimeoutRead, TimeoutCommit, TimeoutCrash, TimeoutGivesUp,
     Expire, Age, BrokerClose
<1>7. ASSUME CleanupRead \/ CleanupCommit \/ UNCHANGED vars
      PROVE  UNCHANGED <<mode, granted, orders>>
  BY <1>7 DEF CleanupRead, CleanupCommit, vars
<1> QED
  BY <1>1, <1>2, <1>3, <1>4, <1>5, <1>6, <1>7 DEF Next

\* Every step of the workflow gives one new permission, uses one that was given, not used
\* yet and of a row that is open, or closes some rows.
LEMMA PermissionStep ==
  ASSUME GrantInv, GrantInv', [Next]_vars
  PROVE  [Permission!Next]_(Permission!vars)
<1> DEFINE free == {<<e, NoOne>> : e \in {x \in Execs : ~Gated(x)}}
           given == granted \cup free
           closed == {e \in Execs : Settled(e)}
<1>1. free' = free
  BY WhoTouches DEF Gated
<1>2. closed \subseteq closed'
  BY SettledStep DEF GrantInv
<1>3. CASE UNCHANGED <<granted, orders>>
  <2>1. given' = given
    BY <1>1, <1>3
  <2>2. closed' \in SUBSET Execs /\ closed' = closed \cup closed'
    BY <1>2
  <2>3. Permission!Close(closed')
    BY <1>3, <2>1, <2>2 DEF Permission!Close
  <2> QED
    BY <2>2, <2>3 DEF Permission!Next
<1>4. ASSUME NEW r \in Responders, ApproveCommit(r)
      PROVE  Permission!Next
  <2>a. PICK a \in Asked : a = <<req[r].ex, r>>
    <3>1. req[r] \in Requests /\ req[r].op = "approve"
      BY <1>4 DEF ApproveCommit, GrantInv, TypeOK
    <3>2. req[r].ex \in Execs
      BY <3>1 DEF Requests, NoReq
    <3> QED
      BY <3>2 DEF Asked
  <2>1. granted' = granted \cup {a} /\ UNCHANGED <<orders, status, worker>>
    <3>1. granted' = granted \cup {<<req[r].ex, r>>} /\ UNCHANGED <<orders, status, worker>>
      BY <1>4 DEF ApproveCommit
    <3> QED
      BY <2>a, <3>1
  <2>2. a \notin granted
    BY <1>4, <2>a DEF ApproveCommit, GrantInv, GrantFlow
  <2>3. a \notin free
    <3>1. \A x \in Execs : <<req[r].ex, r>> # <<x, NoOne>>
      BY ApprovalAssumption
    <3> QED
      BY <2>a, <3>1
  <2>4. closed' = closed
    BY <2>1 DEF Settled
  <2>5. Permission!Give(a)
    BY <1>1, <2>1, <2>2, <2>3, <2>4 DEF Permission!Give
  <2> QED
    BY <2>5 DEF Permission!Next, Permission!Permissions, Asked
<1>5. ASSUME NEW w \in Workers, PlaceOrder(w), orders' # orders
      PROVE  Permission!Next
  <2>a. PICK a \in Asked : a = <<worker[w].ex, worker[w].by>>
    BY <1>5 DEF PlaceOrder, GrantInv, TypeOK, Asked, Tasks, Task, Idle
  <2>1. /\ granted' = granted /\ worker[w].pc = "clear" /\ worker[w] # Idle
        /\ worker[w].ex \in Execs /\ worker[w].by \in Responders \cup {NoOne}
    BY <1>5 DEF PlaceOrder, GrantInv, TypeOK, Asked, Tasks, Task, Idle
  <2>2. orders' = [orders EXCEPT ![a] = 1] /\ orders[a] = 0
    <3>1. orders' = [orders EXCEPT ![a] = @ + 1]
      BY <1>5, <2>a DEF PlaceOrder
    <3>2. orders[a] = 0
      BY <2>1, <2>a DEF GrantInv, Spending
    <3>3. orders \in [Asked -> Nat]
      BY DEF GrantInv, TypeOK
    <3> QED
      BY <3>1, <3>2, <3>3
  <2>3. a \in given
    <3>1. CASE worker[w].by = NoOne
      BY <2>a, <2>1, <3>1 DEF GrantInv, Spending
    <3>2. CASE worker[w].by # NoOne
      BY <2>a, <2>1, <3>2 DEF GrantInv, GrantFlow, Busy
    <3> QED
      BY <3>1, <3>2
  <2>4. /\ a[1] \notin closed
        /\ closed' = closed
    <3>1. /\ worker'[w].pc = "traded" /\ worker'[w].ex = worker[w].ex
          /\ \A v \in Workers : v # w => worker'[v] = worker[v]
          /\ UNCHANGED status
      BY <1>5, <2>1, GotoTask DEF PlaceOrder, GrantInv, Busy, TaskPC, rowVars
    <3>2. PICK x \in Execs : x = worker[w].ex
      BY <2>1
    <3>3. ~Settled(x) /\ ~Settled(x)'
      BY <2>1, <3>1, <3>2 DEF Settled, Idle, Task
    <3>4. ASSUME NEW e \in Execs, e # x PROVE Settled(e)' <=> Settled(e)
      BY <3>1, <3>2, <3>4 DEF Settled
    <3>5. \A e \in Execs : Settled(e)' <=> Settled(e)
      BY <3>3, <3>4
    <3>6. closed' = closed
      BY <3>5
    <3>7. a[1] = x
      BY <2>a, <3>2
    <3> QED
      BY <3>3, <3>6, <3>7
  <2>5. Permission!Order(a)
    BY <1>1, <2>1, <2>2, <2>3, <2>4 DEF Permission!Order
  <2> QED
    BY <2>5 DEF Permission!Next, Permission!Permissions, Asked
<1>6. ASSUME NEW w \in Workers, PlaceOrder(w), orders' = orders
      PROVE  [Permission!Next]_(Permission!vars)
  BY <1>3, <1>6 DEF PlaceOrder
<1> QED
  BY <1>3, <1>4, <1>5, <1>6, WhoTouches

\* The workflow implements TradePermission, for every value of the constants: orders are
\* counted against the approvals they use up, and settled rows are closed to them.
THEOREM Implementation == Spec => ImplementsPermission
<1>1. Init => Permission!Init
  <2> SUFFICES ASSUME Init PROVE Permission!Init
    OBVIOUS
  <2>1. \A e \in Execs : ~Settled(e)
    BY DEF Init, Settled
  <2>2. orders = [p \in Permission!Permissions |-> 0]
    BY DEF Init, Asked, Permission!Permissions
  <2>3. granted = {}
    BY DEF Init
  <2> QED
    BY <2>1, <2>2, <2>3 DEF Permission!Init, Permission!Permissions
<1>2. GrantInv /\ GrantInv' /\ [Next]_vars => [Permission!Next]_(Permission!vars)
  BY PermissionStep
<1> QED
  BY <1>1, <1>2, GrantsFit, PTL DEF Spec, Permission!Spec, ImplementsPermission

-------------------------------------------------------------------------------
(* Rows that wait                                                            *)

\* The task or the message that is going to answer an approved row.
Answers(e) ==
  \E r \in Responders :
    \/ <<e, r>> \in resumeQ
    \/ req[r] = [op |-> "send", ex |-> e]
    \/ \E w \in Workers : worker[w] \in {Task("checked", e, r), Task("failing", e, r)}

TimeoutComes(e) ==
  \/ timer[e] \in {"scheduled", "checked"}
  \/ \E w \in Workers : worker[w] = Task("schedule", e, NoOne)

\* A row that waits is pending or approved: the other answers end it in the same commit.
WaitInv ==
  \A e \in Execs :
    status[e] = "AWAITING_APPROVAL" =>
      /\ approval[e] \in {"pending", "approved"}
      /\ e \notin lost =>
           IF approval[e] = "pending" THEN TimeoutComes(e) ELSE Answers(e)

\* Who takes a message, answers a request, ends a task and runs a timer.
LEMMA WaitFrame ==
  ASSUME TypeOK, Next
  PROVE  /\ \A g \in resumeQ : g \in resumeQ' \/ \E w \in Workers : TakeResume(w, g)
         /\ \A r \in Responders : req[r].op = "send" =>
              req'[r] = req[r] \/ SendResume(r) \/ SendFails(r)
         /\ \A w \in Workers : worker[w].pc \in {"checked", "schedule", "failing"} =>
              \/ worker'[w] = worker[w]
              \/ CommitRunning(w) \/ ScheduleTimeout(w) \/ WorkerCrash(w)
              \/ TaskRaises(w) \/ HandleFailure(w)
         /\ \A e \in Execs : timer[e] \in {"scheduled", "checked"} =>
              \/ timer'[e] \in {"scheduled", "checked"}
              \/ TimeoutRead(e) \/ TimeoutCommit(e) \/ TimeoutGivesUp(e)
         /\ lost \subseteq lost'
<1> USE DEF TypeOK, Task, Idle, NoReq, rowVars, histVars, Goto, Release
<1>1. ASSUME NEW r \in Responders, ApiStep(r) \/ SendFails(r)
      PROVE  /\ \A x \in Responders : req[x].op = "send" =>
                  req'[x] = req[x] \/ SendResume(x) \/ SendFails(x)
             /\ resumeQ \subseteq resumeQ' /\ lost \subseteq lost' /\ UNCHANGED <<worker, timer>>
  <2>1. CASE ApproveCommit(r) \/ RejectCommit(r) \/ CancelCommit(r)
    BY <2>1 DEF ApproveCommit, RejectCommit, CancelCommit
  <2>2. CASE SendResume(r) \/ SendFails(r)
    BY <2>2 DEF SendResume, SendFails
  <2> QED
    BY <1>1, <2>1, <2>2 DEF ApiStep
<1>2. ASSUME NEW r \in Responders, NEW e \in Execs,
             ApproveRead(r, e) \/ RejectRead(r, e) \/ CancelRead(r, e)
      PROVE  /\ \A x \in Responders : req[x].op = "send" => req'[x] = req[x]
             /\ UNCHANGED <<resumeQ, lost, worker, timer>>
  BY <1>2 DEF ApproveRead, RejectRead, CancelRead
<1>3. ASSUME NEW w \in Workers, TaskStep(w) \/ WorkerCrash(w)
      PROVE  /\ \A v \in Workers : worker[v].pc \in {"checked", "schedule", "failing"} =>
                  \/ worker'[v] = worker[v]
                  \/ CommitRunning(v) \/ ScheduleTimeout(v) \/ WorkerCrash(v)
                  \/ TaskRaises(v) \/ HandleFailure(v)
             /\ \A e \in Execs : timer'[e] = timer[e] \/ timer'[e] = "scheduled"
             /\ resumeQ \subseteq resumeQ' /\ lost \subseteq lost' /\ UNCHANGED req
  <2>1. CASE ScheduleTimeout(w)
    BY <2>1 DEF ScheduleTimeout
  <2>2. CASE CommitRunning(w)
    BY <2>2 DEF CommitRunning
  <2>3. CASE WorkerCrash(w)
    BY <2>3 DEF WorkerCrash, Redeliver
  <2>4. CASE InitiateApproval(w) \/ PassGate(w) \/ ResumeUnusable(w) \/ DuplicateCheck(w)
    BY <2>4 DEF InitiateApproval, PassGate, ResumeUnusable, DuplicateCheck
  <2>5. CASE PlaceOrder(w) \/ Finish(w) \/ TaskRaises(w)
    BY <2>5 DEF PlaceOrder, Finish, TaskRaises
  <2>6. CASE HandleFailure(w)
    BY <2>6 DEF HandleFailure, Retry
  <2> QED
    BY <1>3, <2>1, <2>2, <2>3, <2>4, <2>5, <2>6 DEF TaskStep
<1>4. ASSUME NEW w \in Workers, NEW e \in Execs, StartExecution(w, e)
      PROVE  /\ \A v \in Workers : worker[v].pc \in {"checked", "schedule", "failing"}
                  => worker'[v] = worker[v]
             /\ UNCHANGED <<resumeQ, lost, req, timer>>
  BY <1>4 DEF StartExecution
<1>5. ASSUME NEW w \in Workers, NEW g \in Grants, TakeResume(w, g)
      PROVE  /\ \A v \in Workers : worker[v].pc \in {"checked", "schedule", "failing"} =>
                  worker'[v] = worker[v]
             /\ \A h \in resumeQ : h \in resumeQ' \/ \E v \in Workers : TakeResume(v, h)
             /\ UNCHANGED <<lost, req, timer>>
  BY <1>5 DEF TakeResume
<1>6. ASSUME NEW e \in Execs,
             \/ TimerStep(e) \/ TimeoutCrash(e) \/ TimeoutGivesUp(e)
             \/ Expire(e) \/ Age(e) \/ BrokerClose(e)
      PROVE  /\ \A x \in Execs : timer[x] \in {"scheduled", "checked"} =>
                  \/ timer'[x] \in {"scheduled", "checked"}
                  \/ TimeoutRead(x) \/ TimeoutCommit(x) \/ TimeoutGivesUp(x)
             /\ lost \subseteq lost' /\ UNCHANGED <<resumeQ, req, worker>>
  <2>1. CASE TimeoutRead(e) \/ TimeoutCommit(e) \/ TimeoutGivesUp(e)
    BY <2>1 DEF TimeoutRead, TimeoutCommit, TimeoutGivesUp
  <2>2. CASE TimeoutCrash(e) \/ Expire(e) \/ Age(e) \/ BrokerClose(e)
    BY <2>2 DEF TimeoutCrash, Expire, Age, BrokerClose
  <2> QED
    BY <1>6, <2>1, <2>2 DEF TimerStep
<1>7. CASE CleanupRead \/ CleanupCommit
  BY <1>7 DEF CleanupRead, CleanupCommit
<1> QED
  <2>1. CASE \E r \in Responders :
               \/ ApiStep(r) \/ SendFails(r)
               \/ \E e \in Execs : ApproveRead(r, e) \/ RejectRead(r, e) \/ CancelRead(r, e)
    BY <1>1, <1>2, <2>1
  <2>2. CASE \E w \in Workers :
               \/ TaskStep(w) \/ WorkerCrash(w)
               \/ \E e \in Execs : StartExecution(w, e)
               \/ \E g \in Grants : TakeResume(w, g)
    BY <1>3, <1>4, <1>5, <2>2
  <2>3. CASE \E e \in Execs :
               \/ TimerStep(e) \/ TimeoutCrash(e) \/ TimeoutGivesUp(e)
               \/ Expire(e) \/ Age(e) \/ BrokerClose(e)
    BY <1>6, <2>3
  <2> QED
    BY <1>7, <2>1, <2>2, <2>3 DEF Next

\* How a row comes to wait, and to be answered.
LEMMA WaitChange ==
  ASSUME TypeOK, Next, NEW e \in Execs, status'[e] = "AWAITING_APPROVAL"
  PROVE  \/ \E w \in Workers : InitiateApproval(w) /\ worker[w].ex = e
         \/ status[e] = "AWAITING_APPROVAL" /\ approval'[e] = approval[e]
         \/ /\ status[e] = "AWAITING_APPROVAL" /\ approval'[e] = "approved"
            /\ \E r \in Responders : ApproveCommit(r) /\ req[r].ex = e
<1> USE DEF TypeOK, rowVars, histVars
<1>1. ASSUME NEW r \in Responders, ApproveCommit(r)
      PROVE  /\ UNCHANGED status
             /\ approval'[e] = approval[e] \/ (req[r].ex = e /\ approval'[e] = "approved")
  BY <1>1 DEF ApproveCommit
<1>2. ASSUME NEW r \in Responders, \/ SendResume(r) \/ RejectCommit(r) \/ CancelCommit(r)
                                   \/ SendFails(r)
      PROVE  status[e] = "AWAITING_APPROVAL" /\ approval'[e] = approval[e]
  BY <1>2 DEF SendResume, RejectCommit, CancelCommit, SendFails
<1>3. ASSUME NEW r \in Responders, NEW x \in Execs,
             ApproveRead(r, x) \/ RejectRead(r, x) \/ CancelRead(r, x)
      PROVE  UNCHANGED <<status, approval>>
  BY <1>3 DEF ApproveRead, RejectRead, CancelRead
<1>4. ASSUME NEW w \in Workers, InitiateApproval(w), worker[w].ex # e
      PROVE  status'[e] = status[e] /\ approval'[e] = approval[e]
  BY <1>4 DEF InitiateApproval
<1>5. ASSUME NEW w \in Workers,
             \/ ScheduleTimeout(w) \/ PassGate(w) \/ CommitRunning(w) \/ ResumeUnusable(w)
             \/ DuplicateCheck(w) \/ PlaceOrder(w)
      PROVE  status[e] = "AWAITING_APPROVAL" /\ approval'[e] = approval[e]
  BY <1>5 DEF ScheduleTimeout, PassGate, CommitRunning, ResumeUnusable, DuplicateCheck,
     PlaceOrder
<1>6. ASSUME NEW w \in Workers,
             Finish(w) \/ TaskRaises(w) \/ HandleFailure(w) \/ WorkerCrash(w)
      PROVE  status[e] = "AWAITING_APPROVAL" /\ approval'[e] = approval[e]
  <2>1. CASE Finish(w) \/ TaskRaises(w)
    BY <2>1 DEF Finish, TaskRaises
  <2>2. CASE HandleFailure(w) \/ WorkerCrash(w)
    BY <2>2 DEF HandleFailure, WorkerCrash
  <2> QED
    BY <1>6, <2>1, <2>2
<1>7. ASSUME NEW w \in Workers, NEW x \in Execs, StartExecution(w, x)
      PROVE  status[e] = "AWAITING_APPROVAL" /\ approval'[e] = approval[e]
  BY <1>7 DEF StartExecution
<1>8. ASSUME NEW w \in Workers, NEW g \in Grants, TakeResume(w, g)
      PROVE  UNCHANGED <<status, approval>>
  BY <1>8 DEF TakeResume
<1>9. ASSUME NEW x \in Execs,
             \/ TimerStep(x) \/ TimeoutCrash(x) \/ TimeoutGivesUp(x)
             \/ Expire(x) \/ Age(x) \/ BrokerClose(x)
      PROVE  status[e] = "AWAITING_APPROVAL" /\ approval'[e] = approval[e]
  BY <1>9 DEF TimerStep, TimeoutRead, TimeoutCommit, TimeoutCrash, TimeoutGivesUp, Expire,
     Age, BrokerClose
<1>10. CASE CleanupRead \/ CleanupCommit
  BY <1>10 DEF CleanupRead, CleanupCommit
<1> QED
  <2>1. CASE \E r \in Responders :
               \/ ApiStep(r) \/ SendFails(r)
               \/ \E x \in Execs : ApproveRead(r, x) \/ RejectRead(r, x) \/ CancelRead(r, x)
    BY <1>1, <1>2, <1>3, <2>1 DEF ApiStep
  <2>2. CASE \E w \in Workers :
               \/ TaskStep(w) \/ WorkerCrash(w)
               \/ \E x \in Execs : StartExecution(w, x)
               \/ \E g \in Grants : TakeResume(w, g)
    BY <1>4, <1>5, <1>6, <1>7, <1>8, <2>2 DEF TaskStep
  <2>3. CASE \E x \in Execs :
               \/ TimerStep(x) \/ TimeoutCrash(x) \/ TimeoutGivesUp(x)
               \/ Expire(x) \/ Age(x) \/ BrokerClose(x)
    BY <1>9, <2>3
  <2> QED
    BY <1>10, <2>1, <2>2, <2>3 DEF Next

\* The timeout of a row that stays pending.
LEMMA TimeoutKept ==
  ASSUME GrantInv, Next, NEW e \in Execs, TimeoutComes(e), e \notin lost',
         status[e] = "AWAITING_APPROVAL", status'[e] = "AWAITING_APPROVAL",
         approval[e] = "pending"
  PROVE  TimeoutComes(e)'
<1>1. TypeOK
  BY DEF GrantInv
<1>2. CASE timer[e] \in {"scheduled", "checked"}
  BY <1>1, <1>2, WaitFrame
     DEF TimeoutRead, TimeoutCommit, TimeoutGivesUp, TimeoutComes, TypeOK
<1>3. ASSUME NEW w \in Workers, worker[w] = Task("schedule", e, NoOne) PROVE TimeoutComes(e)'
  <2>1. worker[w].pc = "schedule" /\ worker[w].ex = e
    BY <1>3 DEF Task
  <2>2. CASE worker'[w] = worker[w]
    BY <1>3, <2>2 DEF TimeoutComes, Task
  <2>3. CASE ScheduleTimeout(w)
    BY <1>1, <2>1, <2>3 DEF ScheduleTimeout, TimeoutComes, TypeOK
  <2>4. CASE WorkerCrash(w)
    BY <2>1, <2>4 DEF WorkerCrash
  <2>5. ~CommitRunning(w) /\ ~TaskRaises(w) /\ ~HandleFailure(w)
    BY <2>1 DEF CommitRunning, TaskRaises, HandleFailure
  <2> QED
    BY <1>1, <2>1, <2>2, <2>3, <2>4, <2>5, WaitFrame
<1> QED
  BY <1>2, <1>3 DEF TimeoutComes

\* The answer of a row that is approved and goes on waiting.
LEMMA AnswerKept ==
  ASSUME GrantInv, Next, NEW e \in Execs, Answers(e), e \notin lost',
         status[e] = "AWAITING_APPROVAL", status'[e] = "AWAITING_APPROVAL",
         approval[e] = "approved"
  PROVE  Answers(e)'
<1>1. TypeOK
  BY DEF GrantInv
<1>2. ASSUME NEW r \in Responders, <<e, r>> \in resumeQ PROVE Answers(e)'
  <2>1. CASE <<e, r>> \in resumeQ'
    BY <2>1 DEF Answers
  <2>2. ASSUME NEW w \in Workers, TakeResume(w, <<e, r>>) PROVE Answers(e)'
    <3>1. PICK pc \in {"checked", "failing"} : worker' = [worker EXCEPT ![w] = Task(pc, e, r)]
      BY <2>2 DEF TakeResume, Resumable
    <3>2. worker'[w] = Task(pc, e, r)
      BY <1>1, <3>1 DEF TypeOK
    <3> QED
      BY <3>2 DEF Answers, Task
  <2> QED
    BY <1>1, <1>2, <2>1, <2>2, WaitFrame
<1>3. ASSUME NEW r \in Responders, req[r] = [op |-> "send", ex |-> e] PROVE Answers(e)'
  <2>1. CASE req'[r] = req[r]
    BY <1>3, <2>1 DEF Answers
  <2>2. CASE SendResume(r)
    BY <1>3, <2>2 DEF SendResume, Answers
  <2>3. CASE SendFails(r)
    BY <1>3, <2>3 DEF SendFails
  <2> QED
    BY <1>1, <1>3, <2>1, <2>2, <2>3, WaitFrame
<1>4. ASSUME NEW r \in Responders, NEW w \in Workers, NEW pc \in {"checked", "failing"},
             worker[w] = Task(pc, e, r)
      PROVE  Answers(e)'
  <2>1. worker[w].pc = pc /\ worker[w].ex = e /\ worker[w].by = r /\ r # NoOne
    BY <1>4, ApprovalAssumption DEF Task
  <2>2. CASE worker'[w] = worker[w]
    BY <1>4, <2>2 DEF Answers, Task
  <2>3. CASE WorkerCrash(w)
    BY <2>1, <2>3 DEF WorkerCrash, Redeliver, Answers
  <2>4. ~CommitRunning(w)
    BY <1>1, <2>1 DEF CommitRunning, TypeOK
  <2>5. ~ScheduleTimeout(w)
    BY <2>1 DEF ScheduleTimeout
  <2>6. CASE TaskRaises(w)
    <3>1. worker'[w] = Task("failing", e, r)
      BY <1>1, <1>4, <2>6 DEF TaskRaises, Goto, Task, TypeOK
    <3> QED
      BY <3>1 DEF Answers, Task
  <2>7. CASE HandleFailure(w)
    <3>1. Retry(<<e, r>>)
      BY <2>1, <2>7 DEF HandleFailure
    <3>2. <<e, r>> \in resumeQ'
      BY <3>1 DEF Retry
    <3> QED
      BY <3>2 DEF Answers
  <2> QED
    BY <1>1, <2>1, <2>2, <2>3, <2>4, <2>5, <2>6, <2>7, WaitFrame
<1> QED
  BY <1>2, <1>3, <1>4 DEF Answers

LEMMA WaitStep == GrantInv /\ WaitInv /\ [Next]_vars => WaitInv'
<1>1. ASSUME GrantInv, WaitInv, Next PROVE WaitInv'
  <2> SUFFICES ASSUME NEW e \in Execs, status'[e] = "AWAITING_APPROVAL"
               PROVE  /\ approval'[e] \in {"pending", "approved"}
                      /\ e \notin lost' =>
                           /\ approval'[e] = "pending" => TimeoutComes(e)'
                           /\ approval'[e] # "pending" => Answers(e)'
    BY DEF WaitInv
  <2>1. TypeOK
    BY <1>1 DEF GrantInv
  <2>2. ASSUME NEW w \in Workers, InitiateApproval(w), worker[w].ex = e
        PROVE  approval'[e] = "pending" /\ TimeoutComes(e)'
    <3>1. worker[w] \in Tasks /\ worker[w].pc = "gate" /\ worker[w].by = NoOne
      BY <1>1, <2>1, <2>2 DEF InitiateApproval, GrantInv, TaskShape, Busy, TypeOK
    <3>2. worker'[w] = Task("schedule", e, NoOne)
      BY <2>1, <2>2, <3>1 DEF InitiateApproval, Goto, Tasks, Task, Idle, TypeOK
    <3>3. approval'[e] = "pending"
      BY <2>1, <2>2 DEF InitiateApproval, TypeOK
    <3> QED
      BY <3>2, <3>3 DEF TimeoutComes, Task
  <2>3. CASE status[e] = "AWAITING_APPROVAL" /\ approval'[e] = approval[e]
    BY <1>1, <2>1, <2>3, TimeoutKept, AnswerKept, WaitFrame DEF WaitInv
  <2>4. ASSUME NEW r \in Responders, ApproveCommit(r), req[r].ex = e, approval'[e] = "approved"
        PROVE  Answers(e)'
    <3>1. req[r] \in Requests /\ req[r].op = "approve"
      BY <2>1, <2>4 DEF ApproveCommit, TypeOK
    <3>2. req'[r] = [op |-> "send", ex |-> e]
      BY <2>1, <2>4, <3>1 DEF ApproveCommit, TypeOK, Requests, NoReq
    <3> QED
      BY <3>2 DEF Answers
  <2> QED
    BY <1>1, <2>1, <2>2, <2>3, <2>4, WaitChange
<1>2. ASSUME WaitInv, UNCHANGED vars PROVE WaitInv'
  BY <1>2 DEF WaitInv, TimeoutComes, Answers, vars
<1> QED
  BY <1>1, <1>2

\* No row that waits is forgotten, for any number of rows, requests, workers, retries and
\* crashes: its timeout task or the resume task of its approval is on its way, unless the
\* process that should have enqueued it died or the resume task has used up its retries.
THEOREM Tracked == Spec => []AwaitingIsTracked
<1>1. Init => WaitInv
  BY DEF Init, WaitInv
<1>2. WaitInv => AwaitingIsTracked
  BY DEF WaitInv, AwaitingIsTracked, TimeoutComes, Answers
<1>3. Spec => []WaitInv
  BY <1>1, GrantsFit, WaitStep, PTL DEF Spec
<1> QED
  BY <1>2, <1>3, PTL
===============================================================================
