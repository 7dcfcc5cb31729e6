----------------------------- MODULE ApprovalPage -----------------------------
(***************************************************************************)
(* The public page behind the link of an SMS: it shows a trade that waits  *)
(* for an approval and takes the decision.  Others may decide meanwhile,   *)
(* and the approval may expire.  The backend takes one decision at a time  *)
(* here; how two can cross there is the matter of module Approval.         *)
(***************************************************************************)
EXTENDS Integers

VARIABLES
  approval,          \* the approval, in the backend
  approvalPage,
  asking          \* the page's requests in flight

approvalPageVars == <<approval, approvalPage, asking>>

TokenStates == {"pending", "approved", "rejected", "timed_out"}

ApprovalPages == [loading : BOOLEAN, approvalData : {"none"} \cup TokenStates, error : BOOLEAN,
          actionTaken : {"none", "approved", "rejected"}, submitting : BOOLEAN]
Asking == [op : {"load", "approved", "rejected"}, answer : {"none"} \cup TokenStates,
           ok : BOOLEAN]
Ask(op) == [op |-> op, answer |-> "none", ok |-> FALSE]

\* The two buttons are there until the page has a decision or an error.
Offered ==
  approvalPage.approvalData = "pending" /\ approvalPage.actionTaken = "none" /\ ~approvalPage.error

\* Mutant: the buttons are not disabled while a decision is on its way.
SubmitDecisionAgain(decision) ==
  /\ Offered
  /\ approvalPage' = [approvalPage EXCEPT !.submitting = TRUE]
  /\ asking' = asking \cup {Ask(decision)}
  /\ UNCHANGED approval

\* approve, reject: the buttons are disabled while one is on its way.
SubmitDecision(decision) ==
  /\ Offered /\ ~approvalPage.submitting
  /\ approvalPage' = [approvalPage EXCEPT !.submitting = TRUE]
  /\ asking' = asking \cup {Ask(decision)}
  /\ UNCHANGED approval

Approve == SubmitDecision("approved")
Reject == SubmitDecision("rejected")

\* The backend takes a decision while the approval is pending, once.
AskingServed(q) ==
  /\ q.answer = "none"
  /\ asking' = (asking \ {q}) \cup
       {[q EXCEPT !.answer = approval, !.ok = (q.op = "load" \/ approval = "pending")]}
  /\ approval' = IF q.op # "load" /\ approval = "pending" THEN q.op ELSE approval
  /\ UNCHANGED approvalPage

\* loadApproval
ApprovalLoaded(q) ==
  /\ q.op = "load" /\ q.answer # "none"
  /\ approvalPage' = [approvalPage EXCEPT !.approvalData = q.answer, !.loading = FALSE]
  /\ asking' = asking \ {q} /\ UNCHANGED approval

DecisionTaken(q) ==
  /\ q.op # "load" /\ q.answer # "none"
  /\ approvalPage' =
       IF q.ok THEN [approvalPage EXCEPT !.actionTaken = q.op, !.submitting = FALSE]
       ELSE [approvalPage EXCEPT !.error = TRUE, !.submitting = FALSE]
  /\ asking' = asking \ {q} /\ UNCHANGED approval

\* The request or its answer is lost, or the link is not valid: the backend may have decided.
AskingFails(q) ==
  /\ approvalPage' = [approvalPage EXCEPT !.error = TRUE, !.submitting = FALSE,
                          !.loading = IF q.op = "load" THEN FALSE ELSE approvalPage.loading]
  /\ asking' = asking \ {q} /\ UNCHANGED approval

\* The owner decides in the web client, or nobody does.
TokenMoves ==
  /\ approval = "pending" /\ \E s \in TokenStates \ {"pending"} : approval' = s
  /\ UNCHANGED <<approvalPage, asking>>

-------------------------------------------------------------------------------
(* The specification                                                       *)

ApprovalPageOpened ==
  /\ approvalPage = [loading |-> TRUE, approvalData |-> "none", error |-> FALSE,
                     actionTaken |-> "none", submitting |-> FALSE]
  /\ asking = {Ask("load")}

ApprovalPageInit == approval \in TokenStates /\ ApprovalPageOpened

ApprovalPageNext ==
  \/ Approve \/ Reject \/ TokenMoves
  \/ \E q \in asking :
       AskingServed(q) \/ ApprovalLoaded(q) \/ DecisionTaken(q) \/ AskingFails(q)

ApprovalPageSpec == ApprovalPageInit /\ [][ApprovalPageNext]_approvalPageVars

-------------------------------------------------------------------------------
(* Properties                                                              *)

\* The types of the page and its requests.
ApprovalPageTypeOK ==
  approval \in TokenStates /\ approvalPage \in ApprovalPages /\ asking \subseteq Asking

\* What the page says was decided is what the backend has decided for good, though the link
\* may be used twice, the owner may decide elsewhere at the same time, and time runs out; and
\* no page shows a decision and a failure.
DecisionIsTrue ==
  approvalPage.actionTaken # "none" =>
    approval = approvalPage.actionTaken /\ ~approvalPage.error
===============================================================================
