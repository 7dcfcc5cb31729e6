----------------------------- MODULE ExecutionRows -----------------------------
(***************************************************************************)
(* The executions the web client asks the backend for: their statuses and  *)
(* the endpoints the pages call.  An execution is its place in the order   *)
(* of creation.  PENDING is modelled as RUNNING, COMMUNICATION_ERROR as    *)
(* NEEDS_RECONCILIATION and CANCELLED as FAILED: the pages treat them      *)
(* alike.  A row that was approved shows AWAITING_APPROVAL until a worker  *)
(* takes it up.  How the backend moves a row is in the other modules; here a row *)
(* takes any way it may take there.                                        *)
(***************************************************************************)
EXTENDS Integers, Sequences, FiniteSets, SequencesExt

CONSTANTS
  MaxRows,      \* bound on executions
  MaxMoves,     \* bound on what the backend does by itself
  FetchSize     \* historical rows of one answer; 500 in the code

ASSUME RowsAssumption == MaxRows \in Nat \ {0} /\ MaxMoves \in Nat /\ FetchSize \in Nat \ {0}

VARIABLES
  rows,      \* the statuses, APPROVED for an approved row that still waits
  results,   \* how each ended
  moves      \* of the backend

rowVars == <<rows, results, moves>>

ActiveStatuses == {"RUNNING", "AWAITING_APPROVAL", "MONITORING", "NEEDS_RECONCILIATION"}
EndedStatuses == {"COMPLETED", "FAILED"}
ExecutionStatuses == ActiveStatuses \cup EndedStatuses

\* A completed execution traded with a gain or a loss, or its order was cancelled; the
\* others have no P&L.
Results == {"none", "gain", "loss", "cancelled"}

Ids == 1 .. Len(rows)

\* Mutant: an approval that is granted is sent as a status.
StatusAsStored(e) == rows[e]

\* The status that is sent: an approval is kept beside it.
Status(e) == IF rows[e] = "APPROVED" THEN "AWAITING_APPROVAL" ELSE rows[e]
ActiveIds == {e \in Ids : Status(e) \in ActiveStatuses}

\* The members of a set of numbers, the smallest first.
InTurn(S) ==
  [i \in 1 .. Cardinality(S) |-> CHOOSE x \in S : Cardinality({y \in S : y <= x}) = i]
NewestFirst(S) == Reverse(InTurn(S))

ExecutionSummary == [id : 1 .. MaxRows, status : ExecutionStatuses, result : Results]
Summary(e) == [id |-> e, status |-> Status(e), result |-> results[e]]
Summaries(ids) == [i \in DOMAIN ids |-> Summary(ids[i])]

\* The answer to the list: every active row, then a window of the others.
ListAnswer(offset) ==
  LET old == NewestFirst(Ids \ ActiveIds)
      last == IF offset + FetchSize < Len(old) THEN offset + FetchSize ELSE Len(old)
  IN  [executions |-> Summaries(NewestFirst(ActiveIds) \o SubSeq(old, offset + 1, last)),
       total |-> Len(rows)]

SetRow(e, status, result) ==
  rows' = [rows EXCEPT ![e] = status] /\ results' = [results EXCEPT ![e] = result]

\* What the backend does by itself.
RowCreated ==
  /\ Len(rows) < MaxRows
  /\ rows' = Append(rows, "RUNNING") /\ results' = Append(results, "none")

RowMoves ==
  \E e \in Ids :
    \/ /\ rows[e] = "RUNNING"
       /\ \E s \in {"AWAITING_APPROVAL", "MONITORING", "COMPLETED", "FAILED"} :
            SetRow(e, s, "none")
    \/ rows[e] = "AWAITING_APPROVAL" /\ SetRow(e, "COMPLETED", "none")
    \/ rows[e] = "APPROVED" /\ SetRow(e, "RUNNING", "none")
    \/ /\ rows[e] = "MONITORING"
       /\ \/ \E r \in {"gain", "loss", "cancelled"} : SetRow(e, "COMPLETED", r)
          \/ SetRow(e, "NEEDS_RECONCILIATION", "none")

BackendMoves == moves < MaxMoves /\ moves' = moves + 1 /\ (RowCreated \/ RowMoves)

\* approve, reject, close-position, reconcile and resume-monitoring: what they do to a row
\* in the status they ask for.
Wanted == [approve |-> "AWAITING_APPROVAL", reject |-> "AWAITING_APPROVAL",
           closePosition |-> "MONITORING", auto |-> "NEEDS_RECONCILIATION",
           close |-> "NEEDS_RECONCILIATION", resume |-> "NEEDS_RECONCILIATION"]

Accepts(op, e) == rows[e] = Wanted[op]

Done(op, e, result) ==
  /\ CASE op = "approve" -> SetRow(e, "APPROVED", "none")
       [] op = "reject" -> SetRow(e, "COMPLETED", "none")
       [] op = "resume" -> SetRow(e, "MONITORING", "none")
       [] OTHER -> SetRow(e, "COMPLETED", result)
  /\ UNCHANGED moves

\* The rows there are when a page is opened first.
RowsInit ==
  /\ rows \in UNION {[1 .. n -> {"RUNNING", "AWAITING_APPROVAL", "NEEDS_RECONCILIATION",
                                 "COMPLETED"}] : n \in 1 .. MaxRows}
  /\ results = [e \in DOMAIN rows |-> "none"] /\ moves = 0

RowsTypeOK ==
  /\ rows \in Seq(ExecutionStatuses \cup {"APPROVED"}) /\ Len(rows) \in 1 .. MaxRows
  /\ results \in Seq(Results) /\ Len(results) = Len(rows) /\ moves \in 0 .. MaxMoves
===============================================================================
