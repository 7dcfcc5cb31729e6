----------------------------- MODULE ApprovalProps -----------------------------
(* What the approval workflow guarantees. *)
EXTENDS Approval

Gated(e) == ShouldRequireApproval(mode[e])

\* Every order of a row that needs approval was asked for by an accepted approval,
\* and no approval is good for two orders: not when the resume message is delivered
\* again after a crash, not when the task retries, not when two approvals raced.
\* (resume_approved_execution commits RUNNING before it trades.)
OneOrderPerGrant ==
  \A e \in Execs :
    /\ \A r \in Responders :
         orders[<<e, r>>] <= IF <<e, r>> \in granted THEN 1 ELSE 0
    /\ orders[<<e, NoOne>>] <= IF Gated(e) THEN 0 ELSE 1

\* A row waiting for the user is on somebody's list until it is resolved: a pending
\* one has its timeout task, an approved one its resume task or message, unless the
\* process that should have enqueued it failed or the resume task has used up its
\* retries (acks_late redelivers all others).
AwaitingIsTracked ==
  \A e \in Execs :
    status[e] = "AWAITING_APPROVAL" /\ e \notin lost =>
      IF approval[e] = "pending"
        THEN \/ timer[e] \in {"scheduled", "checked"}
             \/ \E w \in Workers : worker[w] = Task("schedule", e, NoOne)
        ELSE \E r \in Responders :
               \/ <<e, r>> \in resumeQ
               \/ req[r] = [op |-> "send", ex |-> e]
               \/ \E w \in Workers :
                    worker[w] \in {Task("checked", e, r), Task("failing", e, r)}

\* The row was answered, ended or cancelled, and no task works on it: at most a handler
\* is left, which may write FAILED over the answer.
Settled(e) ==
  /\ status[e] \in {"COMPLETED", "FAILED", "CANCELLED"}
  /\ \A w \in Workers : worker[w] # Idle /\ worker[w].ex = e => worker[w].pc = "failing"

\* A refusal stands: once the row is over and no task runs for it, an approve request
\* that had loaded the row before, or its late resume message, never makes it trade.
SettledStaysSettled ==
  [][\A e \in Execs : Settled(e) =>
       /\ Settled(e)'
       /\ \A r \in Responders \cup {NoOne} : orders'[<<e, r>>] = orders[<<e, r>>]]_vars

\* A row does not wait for an answer forever, unless an enqueue failed or the resume
\* task gave up.
WaitEnds ==
  \A e \in Execs :
    status[e] = "AWAITING_APPROVAL" ~> (status[e] # "AWAITING_APPROVAL" \/ e \in lost)

\* A row does not stay RUNNING forever, whatever crashes: the stale cleanup ends it.
RunningEnds == \A e \in Execs : status[e] = "RUNNING" ~> status[e] # "RUNNING"

\* Approvals are permissions to trade: every order counts against one of its own, and
\* a settled row is closed to all of them.
Permission == INSTANCE TradePermission WITH
  Rows <- Execs,
  Askers <- Responders \cup {NoOne},
  given <- granted \cup {<<e, NoOne>> : e \in {x \in Execs : ~Gated(x)}},
  used <- orders,
  closed <- {e \in Execs : Settled(e)}

ImplementsPermission == Permission!Spec
===============================================================================
