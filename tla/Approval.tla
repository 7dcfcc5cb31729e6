------------------------------- MODULE Approval -------------------------------
(***************************************************************************)
(* The trade-approval workflow of one deployment: the approval gate of the *)
(* pipeline executor, the approve / reject / cancel endpoints, the         *)
(* check_approval_timeout and resume_approved_execution Celery tasks and   *)
(* the cleanup of stale executions, all writing the same executions row.   *)
(*                                                                         *)
(* Every handler loads the row, decides on what it loaded and commits      *)
(* later: the two are separate steps here, because the database runs at    *)
(* READ COMMITTED and nothing compares the row's version when it is        *)
(* written.  A commit writes the columns the handler changed and leaves    *)
(* the others as they are in the database by then.                         *)
(*                                                                         *)
(* Rows are those of the trigger dispatcher and of the scheduler, whose    *)
(* task creates its own row (a redelivered execute_pipeline then creates   *)
(* another one).  The trade manager has a broker attached.                 *)
(***************************************************************************)
EXTENDS Naturals, FiniteSets

CONSTANTS
  Execs,            \* rows of the executions table
  Responders,       \* concurrent API requests of the user (web UI, SMS link)
  Workers,          \* Celery worker processes
  Modes,            \* execution modes
  RequireApproval,  \* pipeline.require_approval
  ApprovalModes,    \* pipeline.approval_modes
  MaxRetries,       \* max_retries of resume_approved_execution
  MaxCrashes,       \* bound on process crashes and message broker outages
  NoOne             \* not a responder: the order was not asked for by a grant

ASSUME ApprovalAssumption ==
  /\ RequireApproval \in BOOLEAN
  /\ ApprovalModes \subseteq Modes
  /\ MaxRetries \in Nat
  /\ MaxCrashes \in Nat
  /\ NoOne \notin Responders

VARIABLES
  \* the row
  status, approval, mode,
  expired,      \* rows whose approval_expires_at has passed
  old,          \* rows whose started_at is before the cleanup cutoff
  \* Celery
  resumeQ,      \* resume_approved_execution messages: a grant <<row, responder>>
  retries,      \* request.retries of the message of a grant
  timer,        \* the check_approval_timeout task of a row
  worker,       \* what each worker executes
  sweep,        \* rows loaded by a cleanup task that has not committed yet
  \* the API server
  req,          \* the request each responder has in flight
  \* the broker
  live,         \* rows whose symbol has an open order or position
  \* history
  granted,      \* grants: accepted approvals
  orders,       \* orders sent to the broker on the strength of a grant
  lost,         \* rows whose next task was never enqueued or has given up
  crashes

rowVars == <<status, approval, mode, expired, old>>
histVars == <<granted, orders, lost, crashes>>
vars == <<status, approval, mode, expired, old, resumeQ, retries, timer, worker,
          sweep, req, live, granted, orders, lost, crashes>>

ExecutionStatus == {"absent", "RUNNING", "AWAITING_APPROVAL", "MONITORING",
                    "COMPLETED", "FAILED", "CANCELLED"}
ApprovalStatus == {"none", "pending", "approved", "rejected", "timed_out"}
Grants == Execs \X Responders
Asked == Execs \X (Responders \cup {NoOne})

\* One worker executes one task.  gate .. schedule: the executor, up to and after
\* the approval gate; checked: resume_approved_execution has validated the row;
\* check, clear: the trade manager before and after its duplicate check;
\* skip, traded: it has returned; failing: the task's exception handler.
TaskPC == {"gate", "schedule", "checked", "check", "clear", "skip", "traded",
           "failing"}
Task(pc, e, by) == [pc |-> pc, ex |-> e, by |-> by]
Idle == Task("idle", NoOne, NoOne)
Tasks == {Idle} \cup [pc : TaskPC, ex : Execs, by : Responders \cup {NoOne}]

NoReq == [op |-> "none", ex |-> NoOne]
Requests == {NoReq} \cup [op : {"approve", "reject", "cancel", "send"}, ex : Execs]

TypeOK ==
  /\ status \in [Execs -> ExecutionStatus]
  /\ approval \in [Execs -> ApprovalStatus]
  /\ mode \in [Execs -> Modes]
  /\ expired \subseteq Execs
  /\ old \subseteq Execs
  /\ resumeQ \subseteq Grants
  /\ retries \in [Grants -> 0 .. MaxRetries]
  /\ timer \in [Execs -> {"none", "scheduled", "checked", "done"}]
  /\ worker \in [Workers -> Tasks]
  /\ sweep \subseteq Execs
  /\ req \in [Responders -> Requests]
  /\ live \subseteq Execs
  /\ granted \subseteq Grants
  /\ orders \in [Asked -> Nat]
  /\ lost \subseteq Execs
  /\ crashes \in 0 .. MaxCrashes

Init ==
  /\ status = [e \in Execs |-> "absent"]
  /\ approval = [e \in Execs |-> "none"]
  /\ mode \in [Execs -> Modes]
  /\ expired = {} /\ old = {}
  /\ resumeQ = {}
  /\ retries = [g \in Grants |-> 0]
  /\ timer = [e \in Execs |-> "none"]
  /\ worker = [w \in Workers |-> Idle]
  /\ sweep = {}
  /\ req = [r \in Responders |-> NoReq]
  /\ live = {}
  /\ granted = {}
  /\ orders = [a \in Asked |-> 0]
  /\ lost = {}
  /\ crashes = 0

-------------------------------------------------------------------------------
(* The approval gate of the executor                                       *)

ShouldRequireApproval(m) ==
  RequireApproval /\ (ApprovalModes = {} \/ m \in ApprovalModes)

Goto(w, pc) == worker' = [worker EXCEPT ![w].pc = pc]
Release(w) == worker' = [worker EXCEPT ![w] = Idle]

\* execute_pipeline inserts the row as RUNNING and runs the agents before the gate.
StartExecution(w, e) ==
  /\ worker[w] = Idle /\ status[e] = "absent"
  /\ status' = [status EXCEPT ![e] = "RUNNING"]
  /\ worker' = [worker EXCEPT ![w] = Task("gate", e, NoOne)]
  /\ UNCHANGED <<approval, mode, expired, old, resumeQ, retries, timer, sweep,
                 req, live, histVars>>

\* The trade needs approval: initiate_approval commits the row and saves its state.
InitiateApproval(w) ==
  LET e == worker[w].ex IN
  /\ worker[w].pc = "gate"
  /\ ShouldRequireApproval(mode[e])
  /\ status' = [status EXCEPT ![e] = "AWAITING_APPROVAL"]
  /\ approval' = [approval EXCEPT ![e] = "pending"]
  /\ Goto(w, "schedule")
  /\ UNCHANGED <<mode, expired, old, resumeQ, retries, timer, sweep, req, live,
                 histVars>>

\* The timeout task is scheduled after the commit; an error there is only logged, one
\* in the consent query that follows is not caught.
ScheduleTimeout(w) ==
  LET e == worker[w].ex IN
  /\ worker[w].pc = "schedule"
  /\ \/ timer' = [timer EXCEPT ![e] = "scheduled"] /\ UNCHANGED lost
     \/ lost' = lost \cup {e} /\ UNCHANGED timer
  /\ Release(w) \/ Goto(w, "failing")
  /\ UNCHANGED <<rowVars, resumeQ, retries, sweep, req, live, granted, orders, crashes>>

\* No approval for this mode, or nothing to approve (risk rejected, HOLD).
PassGate(w) ==
  LET e == worker[w].ex IN
  /\ worker[w].pc = "gate"
  /\ \/ ~ShouldRequireApproval(mode[e]) /\ Goto(w, "check")
     \/ Goto(w, "skip")
  /\ UNCHANGED <<rowVars, resumeQ, retries, timer, sweep, req, live, histVars>>

-------------------------------------------------------------------------------
(* The endpoints: a request loads the row, then commits                    *)

\* approve_execution and approve_by_token.
ApproveRead(r, e) ==
  /\ status[e] = "AWAITING_APPROVAL" /\ approval[e] = "pending"
  /\ e \notin expired
  /\ req[r] = NoReq
  /\ req' = [req EXCEPT ![r] = [op |-> "approve", ex |-> e]]
  /\ UNCHANGED <<rowVars, resumeQ, retries, timer, worker, sweep, live,
                 histVars>>

ApproveCommit(r) ==
  LET e == req[r].ex IN
  /\ req[r].op = "approve"
  /\ approval' = [approval EXCEPT ![e] = "approved"]
  /\ granted' = granted \cup {<<e, r>>}
  /\ req' = [req EXCEPT ![r].op = "send"]
  /\ UNCHANGED <<status, mode, expired, old, resumeQ, retries, timer, worker,
                 sweep, live, orders, lost, crashes>>

\* resume_approved_execution.delay, after the commit.
SendResume(r) ==
  /\ req[r].op = "send"
  /\ resumeQ' = resumeQ \cup {<<req[r].ex, r>>}
  /\ req' = [req EXCEPT ![r] = NoReq]
  /\ UNCHANGED <<rowVars, retries, timer, worker, sweep, live, histVars>>

\* The API process dies, or the message broker refuses the message.
SendFails(r) ==
  /\ req[r].op = "send" /\ crashes < MaxCrashes
  /\ crashes' = crashes + 1
  /\ lost' = lost \cup {req[r].ex}
  /\ req' = [req EXCEPT ![r] = NoReq]
  /\ UNCHANGED <<rowVars, resumeQ, retries, timer, worker, sweep, live, granted,
                 orders>>

\* reject_execution and reject_by_token: no look at the expiry.
RejectRead(r, e) ==
  /\ status[e] = "AWAITING_APPROVAL" /\ approval[e] = "pending"
  /\ req[r] = NoReq
  /\ req' = [req EXCEPT ![r] = [op |-> "reject", ex |-> e]]
  /\ UNCHANGED <<rowVars, resumeQ, retries, timer, worker, sweep, live,
                 histVars>>

RejectCommit(r) ==
  LET e == req[r].ex IN
  /\ req[r].op = "reject"
  /\ approval' = [approval EXCEPT ![e] = "rejected"]
  /\ status' = [status EXCEPT ![e] = "COMPLETED"]
  /\ req' = [req EXCEPT ![r] = NoReq]
  /\ UNCHANGED <<mode, expired, old, resumeQ, retries, timer, worker, sweep,
                 live, histVars>>

CancelRead(r, e) ==
  /\ status[e] \notin {"absent", "COMPLETED", "FAILED", "CANCELLED"}
  /\ req[r] = NoReq
  /\ req' = [req EXCEPT ![r] = [op |-> "cancel", ex |-> e]]
  /\ UNCHANGED <<rowVars, resumeQ, retries, timer, worker, sweep, live,
                 histVars>>

CancelCommit(r) ==
  /\ req[r].op = "cancel"
  /\ status' = [status EXCEPT ![req[r].ex] = "CANCELLED"]
  /\ req' = [req EXCEPT ![r] = NoReq]
  /\ UNCHANGED <<approval, mode, expired, old, resumeQ, retries, timer, worker,
                 sweep, live, histVars>>

-------------------------------------------------------------------------------
(* check_approval_timeout                                                  *)

\* Its countdown starts after expires_at was computed, so it runs past the expiry.
TimeoutRead(e) ==
  /\ timer[e] = "scheduled" /\ e \in expired
  /\ timer' = [timer EXCEPT ![e] =
                 IF status[e] = "AWAITING_APPROVAL" /\ approval[e] = "pending"
                   THEN "checked" ELSE "done"]
  /\ UNCHANGED <<rowVars, resumeQ, retries, worker, sweep, req, live, histVars>>

\* Mutant: the row's status is not written.
TimeoutCommitOnlyApproval(e) ==
  /\ timer[e] = "checked"
  /\ approval' = [approval EXCEPT ![e] = "timed_out"]
  /\ timer' = [timer EXCEPT ![e] = "done"]
  /\ UNCHANGED <<status, mode, expired, old, resumeQ, retries, worker, sweep,
                 req, live, histVars>>

TimeoutCommit(e) ==
  /\ timer[e] = "checked"
  /\ approval' = [approval EXCEPT ![e] = "timed_out"]
  /\ status' = [status EXCEPT ![e] = "COMPLETED"]
  /\ timer' = [timer EXCEPT ![e] = "done"]
  /\ UNCHANGED <<mode, expired, old, resumeQ, retries, worker, sweep, req, live,
                 histVars>>

-------------------------------------------------------------------------------
(* resume_approved_execution                                               *)

\* Mutant: only the approval is looked at.
Approved(e) == approval[e] = "approved"

Resumable(e) == status[e] = "AWAITING_APPROVAL" /\ approval[e] = "approved"

\* Takes a message and validates the row it loads.  A refused message is acknowledged;
\* a load that fails reaches the handler.
TakeResume(w, g) ==
  LET e == g[1] IN
  /\ g \in resumeQ /\ worker[w] = Idle
  /\ resumeQ' = resumeQ \ {g}
  /\ \/ Resumable(e) /\ worker' = [worker EXCEPT ![w] = Task("checked", e, g[2])]
     \/ ~Resumable(e) /\ UNCHANGED worker
     \/ worker' = [worker EXCEPT ![w] = Task("failing", e, g[2])]
  /\ UNCHANGED <<rowVars, retries, timer, sweep, req, live, histVars>>

\* Mutant: RUNNING is not committed before the trade.
CommitRunningLater(w) ==
  /\ worker[w].pc = "checked"
  /\ Goto(w, "check")
  /\ UNCHANGED <<rowVars, resumeQ, retries, timer, sweep, req, live, histVars>>

\* Commits RUNNING, before it loads the state and runs the trade manager.
CommitRunning(w) ==
  /\ worker[w].pc = "checked"
  /\ status' = [status EXCEPT ![worker[w].ex] = "RUNNING"]
  /\ Goto(w, "check")
  /\ UNCHANGED <<approval, mode, expired, old, resumeQ, retries, timer, sweep,
                 req, live, histVars>>

\* State, pipeline or trade manager node missing: FAILED, and the task is done.
ResumeUnusable(w) ==
  /\ worker[w].pc = "check" /\ worker[w].by # NoOne
  /\ status' = [status EXCEPT ![worker[w].ex] = "FAILED"]
  /\ Release(w)
  /\ UNCHANGED <<approval, mode, expired, old, resumeQ, retries, timer, sweep,
                 req, live, histVars>>

-------------------------------------------------------------------------------
(* The trade manager, in the executor and in resume_approved_execution     *)

\* A duplicate, a broker that cannot be asked, closed markets or a rejecting
\* review all end in "skip".
DuplicateCheck(w) ==
  /\ worker[w].pc = "check"
  /\ \/ worker[w].ex \notin live /\ Goto(w, "clear")
     \/ Goto(w, "skip")
  /\ UNCHANGED <<rowVars, resumeQ, retries, timer, sweep, req, live, histVars>>

\* The phase becomes "monitoring" whether the broker took the order or not.
PlaceOrder(w) ==
  LET t == worker[w] IN
  /\ t.pc = "clear"
  /\ \/ /\ orders' = [orders EXCEPT ![<<t.ex, t.by>>] = @ + 1]
        /\ live' = live \cup {t.ex}
     \/ UNCHANGED <<orders, live>>
  /\ Goto(w, "traded")
  /\ UNCHANGED <<rowVars, resumeQ, retries, timer, sweep, req, granted, lost, crashes>>

\* The task's last commit: MONITORING after a trade, with the first monitoring check
\* scheduled after it, else COMPLETED, or FAILED when the executor collected errors.
Finish(w) ==
  LET t == worker[w] IN
  /\ \/ /\ t.pc = "traded"
        /\ status' = [status EXCEPT ![t.ex] = "MONITORING"]
        /\ Release(w) \/ Goto(w, "failing")
     \/ /\ t.pc = "skip"
        /\ \E s \in IF t.by = NoOne THEN {"COMPLETED", "FAILED"} ELSE {"COMPLETED"} :
             status' = [status EXCEPT ![t.ex] = s]
        /\ Release(w)
  /\ UNCHANGED <<approval, mode, expired, old, resumeQ, retries, timer, sweep,
                 req, live, histVars>>

\* An agent's or a configuration error, an error while committing or loading, the
\* soft time limit: all of the task's body is inside its try.
TaskRaises(w) ==
  /\ worker[w].pc \in {"gate", "checked", "check", "clear", "skip", "traded"}
  /\ Goto(w, "failing")
  /\ UNCHANGED <<rowVars, resumeQ, retries, timer, sweep, req, live, histVars>>

\* self.retry: a new message with one retry more, until max_retries; then, or when the
\* message broker refuses it, the exception leaves the task and nothing comes back.
Retry(g) ==
  \/ /\ retries[g] < MaxRetries
     /\ resumeQ' = resumeQ \cup {g}
     /\ retries' = [retries EXCEPT ![g] = @ + 1]
     /\ UNCHANGED <<lost, crashes>>
  \/ /\ \/ retries[g] = MaxRetries /\ UNCHANGED crashes
        \/ crashes < MaxCrashes /\ crashes' = crashes + 1
     /\ lost' = lost \cup {g[1]}
     /\ UNCHANGED <<resumeQ, retries>>

\* The handler rolls back and marks the row FAILED, whatever the row is by now, or
\* fails to do so as well; the resume task then retries, the executor does not.
HandleFailure(w) ==
  LET t == worker[w] IN
  /\ t.pc = "failing"
  /\ status' = [status EXCEPT ![t.ex] = "FAILED"] \/ UNCHANGED status
  /\ IF t.by = NoOne THEN UNCHANGED <<resumeQ, retries, lost, crashes>>
                     ELSE Retry(<<t.ex, t.by>>)
  /\ Release(w)
  /\ UNCHANGED <<approval, mode, expired, old, timer, sweep, req, live, granted,
                 orders>>

-------------------------------------------------------------------------------
(* Crashes, time, the cleanup of stale executions, the broker              *)

\* Mutant: messages are acknowledged before the task runs.
RedeliverNothing(t) == resumeQ

\* Mutant: the message of execute_pipeline resumes the old row.
RedeliverAlways(t) == resumeQ \cup {<<t.ex, t.by>>}

\* Messages are acknowledged late: the message of a lost worker is delivered again.
\* execute_pipeline then works on a new row, so only a resume message comes back.
Redeliver(t) == IF t.by = NoOne THEN resumeQ ELSE resumeQ \cup {<<t.ex, t.by>>}

WorkerCrash(w) ==
  LET t == worker[w] IN
  /\ t # Idle /\ crashes < MaxCrashes
  /\ crashes' = crashes + 1
  /\ resumeQ' = Redeliver(t)
  /\ lost' = IF t.pc = "schedule" THEN lost \cup {t.ex} ELSE lost
  /\ Release(w)
  /\ UNCHANGED <<rowVars, retries, timer, sweep, req, live, granted, orders>>

TimeoutCrash(e) ==
  /\ timer[e] = "checked" /\ crashes < MaxCrashes
  /\ crashes' = crashes + 1
  /\ timer' = [timer EXCEPT ![e] = "scheduled"]
  /\ UNCHANGED <<rowVars, resumeQ, retries, worker, sweep, req, live, granted,
                 orders, lost>>

\* A database error in the timeout task is caught and the task is not retried.
TimeoutGivesUp(e) ==
  /\ timer[e] \in {"scheduled", "checked"} /\ e \in expired
  /\ crashes < MaxCrashes
  /\ crashes' = crashes + 1
  /\ timer' = [timer EXCEPT ![e] = "done"]
  /\ lost' = lost \cup {e}
  /\ UNCHANGED <<rowVars, resumeQ, retries, worker, sweep, req, live, granted,
                 orders>>

\* approval_expires_at passes.
Expire(e) ==
  /\ approval[e] # "none" /\ e \notin expired
  /\ expired' = expired \cup {e}
  /\ UNCHANGED <<status, approval, mode, old, resumeQ, retries, timer, worker,
                 sweep, req, live, histVars>>

\* started_at falls behind the cutoff; no later task renews it.
Age(e) ==
  /\ status[e] # "absent" /\ e \notin old
  /\ old' = old \cup {e}
  /\ UNCHANGED <<status, approval, mode, expired, resumeQ, retries, timer,
                 worker, sweep, req, live, histVars>>

\* Mutant: approved rows are not swept.
StaleUnapproved(e) == status[e] = "RUNNING" /\ e \in old /\ approval[e] # "approved"

Stale(e) == status[e] = "RUNNING" /\ e \in old

\* cleanup_stale_running_executions loads the stale rows and fails them in one commit.
CleanupRead ==
  /\ sweep = {}
  /\ \E e \in Execs : Stale(e)
  /\ sweep' = {e \in Execs : Stale(e)}
  /\ UNCHANGED <<rowVars, resumeQ, retries, timer, worker, req, live, histVars>>

CleanupCommit ==
  /\ sweep # {}
  /\ status' = [e \in Execs |-> IF e \in sweep THEN "FAILED" ELSE status[e]]
  /\ sweep' = {}
  /\ UNCHANGED <<approval, mode, expired, old, resumeQ, retries, timer, worker,
                 req, live, histVars>>

\* The position is closed at the broker (stop, target, by hand).
BrokerClose(e) ==
  /\ e \in live
  /\ live' = live \ {e}
  /\ UNCHANGED <<rowVars, resumeQ, retries, timer, worker, sweep, req,
                 histVars>>

-------------------------------------------------------------------------------
\* What the deployment does once it has accepted the work.
ApiStep(r) == ApproveCommit(r) \/ SendResume(r) \/ RejectCommit(r) \/ CancelCommit(r)

TaskStep(w) ==
  \/ InitiateApproval(w) \/ ScheduleTimeout(w) \/ PassGate(w)
  \/ CommitRunning(w) \/ ResumeUnusable(w)
  \/ DuplicateCheck(w) \/ PlaceOrder(w) \/ Finish(w)
  \/ TaskRaises(w) \/ HandleFailure(w)

TimerStep(e) == TimeoutRead(e) \/ TimeoutCommit(e)

Next ==
  \/ \E r \in Responders :
       \/ ApiStep(r) \/ SendFails(r)
       \/ \E e \in Execs : ApproveRead(r, e) \/ RejectRead(r, e) \/ CancelRead(r, e)
  \/ \E w \in Workers :
       \/ TaskStep(w) \/ WorkerCrash(w)
       \/ \E e \in Execs : StartExecution(w, e)
       \/ \E g \in Grants : TakeResume(w, g)
  \/ \E e \in Execs :
       \/ TimerStep(e) \/ TimeoutCrash(e) \/ TimeoutGivesUp(e)
       \/ Expire(e) \/ Age(e) \/ BrokerClose(e)
  \/ CleanupRead \/ CleanupCommit

Spec == Init /\ [][Next]_vars

\* Requests and tasks that were started go on, queued messages are taken, time
\* passes and the beat schedule runs the cleanup.  Users and the broker owe nothing.
Fairness ==
  /\ \A r \in Responders : WF_vars(ApiStep(r))
  /\ \A w \in Workers : WF_vars(TaskStep(w))
  /\ \A g \in Grants : WF_vars(\E w \in Workers : TakeResume(w, g))
  /\ \A e \in Execs : WF_vars(TimerStep(e)) /\ WF_vars(Expire(e)) /\ WF_vars(Age(e))
  /\ WF_vars(CleanupRead) /\ WF_vars(CleanupCommit)

FairSpec == Spec /\ Fairness
===============================================================================
