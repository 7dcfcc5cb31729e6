---------------------------- MODULE Reconciliation ----------------------------
(***************************************************************************)
(* The reconciliation dialog of the monitoring page: what is entered about *)
(* a trade that the backend lost track of, its three ways to submit, the   *)
(* client's timeout and the endpoints, which work on when the client has   *)
(* given up.                                                               *)
(*                                                                         *)
(* Prices are small numbers, further apart than the cent the dialog rounds *)
(* to; a trade is of one unit and a P&L is its sign.                       *)
(***************************************************************************)
EXTENDS ExecutionRows

CONSTANTS
  Prices,            \* what is entered
  Sides,             \* of the trades
  MaxDialogActions   \* bound on what the user does

ASSUME DialogAssumption ==
  /\ Prices \subseteq Nat \ {0}
  /\ Sides \subseteq {"buy", "long", "sell", "short"} /\ Sides # {}
  /\ MaxDialogActions \in Nat

VARIABLES
  dialog,
  reconciles,     \* its requests in flight
  booked,         \* what they did (history)
  announced,      \* what the page said was done (history)
  dialogActions

dialogVars == <<dialog, reconciles, booked, announced>>
reconciliationVars == <<rowVars, dialogVars, dialogActions>>

-------------------------------------------------------------------------------
(* The reconciliation dialog                                               *)

DialogAct == dialogActions < MaxDialogActions /\ dialogActions' = dialogActions + 1

Signs == {"none", "gain", "loss", "flat"}
Actions == {"auto", "close", "resume"}
Dialogs == [e : 0 .. MaxRows, action : Actions, side : Sides,
            entry : Prices \cup {0}, exit : Prices \cup {0}, pnl : Signs, pct : Signs,
            overridden : BOOLEAN, loading : BOOLEAN, error : BOOLEAN]
Reconciled == [e : 1 .. MaxRows, op : Actions, pnl : Signs]
Reconciles == [e : 1 .. MaxRows, op : Actions, pnl : Signs, waiting : BOOLEAN,
               answer : {"none", "ok", "refused"}]
What(q) == [e |-> q.e, op |-> q.op, pnl |-> q.pnl]

\* A price of 0 is an empty field.
NoDialog ==
  [e |-> 0, action |-> "close", side |-> CHOOSE s \in Sides : TRUE, entry |-> 0, exit |-> 0,
   pnl |-> "none", pct |-> "none", overridden |-> FALSE, loading |-> FALSE, error |-> FALSE]

SignOf(x) == IF x > 0 THEN "gain" ELSE IF x < 0 THEN "loss" ELSE "flat"

\* Mutant: a percentage is that of the price, whatever the side.
RecalculatedUnsigned(d) ==
  IF d.entry > 0 /\ d.exit > 0
    THEN [d EXCEPT !.pnl = SignOf(IF d.side \in {"buy", "long"} THEN d.exit - d.entry
                                                                ELSE d.entry - d.exit),
                   !.pct = SignOf(d.exit - d.entry), !.overridden = FALSE]
    ELSE d

\* recalculatePnl: with both prices, the P&L and the percentage are filled in.  Without, what
\* was filled in before stays.
Recalculated(d) ==
  IF d.entry > 0 /\ d.exit > 0
    THEN [d EXCEPT !.pnl = SignOf(IF d.side \in {"buy", "long"} THEN d.exit - d.entry
                                                                ELSE d.entry - d.exit),
                   !.pct = SignOf(IF d.side \in {"sell", "short"} THEN d.entry - d.exit
                                                                  ELSE d.exit - d.entry),
                   !.overridden = FALSE]
    ELSE d

\* Offered for what the list shows, which may be over by now.  The form starts with what the
\* execution knows of its order; with a trade id the broker
\* is asked by default.
OpenDialog ==
  /\ dialog.e = 0
  /\ \E e \in Ids, side \in Sides,
        entry \in Prices \cup {0}, exit \in Prices \cup {0}, action \in {"auto", "close"} :
       dialog' = Recalculated([NoDialog EXCEPT !.e = e, !.action = action, !.side = side,
                                               !.entry = entry, !.exit = exit])
  /\ UNCHANGED <<rowVars, reconciles, booked, announced, dialogActions>>

ChangeDialog(new) ==
  /\ dialog.e # 0 /\ DialogAct
  /\ dialog' = new /\ new # dialog
  /\ UNCHANGED <<rowVars, reconciles, booked, announced>>

\* The fields are not disabled while a request is in flight.
OnActionChange ==
  \E a \in Actions : ChangeDialog([dialog EXCEPT !.action = a, !.error = FALSE])
OnPriceChange ==
  /\ dialog.action = "close"
  /\ \E p \in Prices \cup {0} :
       \/ ChangeDialog(Recalculated([dialog EXCEPT !.entry = p]))
       \/ ChangeDialog(Recalculated([dialog EXCEPT !.exit = p]))
EnterPnL ==
  /\ dialog.action = "close"
  /\ \E v \in Signs : ChangeDialog([dialog EXCEPT !.pnl = v, !.overridden = TRUE])

ValidateForm == dialog.pnl # "none" \/ (dialog.entry # 0 /\ dialog.exit # 0)

SubmitDialog ==
  /\ dialog.e # 0 /\ ~dialog.loading /\ DialogAct
  /\ IF dialog.action = "close" /\ ~ValidateForm
       THEN dialog' = [dialog EXCEPT !.error = TRUE] /\ UNCHANGED reconciles
       ELSE /\ dialog' = [dialog EXCEPT !.error = FALSE, !.loading = TRUE]
            /\ reconciles' = reconciles \cup
                 {[e |-> dialog.e, op |-> dialog.action,
                   pnl |-> IF dialog.action = "close" THEN dialog.pnl ELSE "none",
                   waiting |-> TRUE, answer |-> "none"]}
  /\ UNCHANGED <<rowVars, booked, announced>>

\* The corner of the dialog closes it while a request is in flight, too.
CancelDialog ==
  /\ dialog.e # 0 /\ dialog' = NoDialog
  /\ reconciles' = {[q EXCEPT !.waiting = FALSE] : q \in reconciles}
  /\ UNCHANGED <<rowVars, booked, announced, dialogActions>>

\* What a close books: the P&L entered, or what the backend finds by itself.
BookedResults(q) ==
  CASE q.pnl \in {"gain", "loss"} -> {q.pnl}
    [] q.pnl = "flat" -> {"cancelled"}
    [] OTHER -> {"gain", "loss", "cancelled"}

\* What the backend does, for a client that waits or not: it books the broker's result or
\* the one entered, or refuses.
ReconcileServed(q) ==
  /\ q.answer = "none"
  /\ \/ /\ Accepts(q.op, q.e)
        /\ \E r \in BookedResults(q) : Done(q.op, q.e, r)
        /\ booked' = booked \cup {What(q)}
        /\ reconciles' = (reconciles \ {q}) \cup
             (IF q.waiting THEN {[q EXCEPT !.answer = "ok"]} ELSE {})
     \/ /\ q.op = "auto" \/ ~Accepts(q.op, q.e)
        /\ reconciles' = (reconciles \ {q}) \cup
             (IF q.waiting THEN {[q EXCEPT !.answer = "refused"]} ELSE {})
        /\ UNCHANGED <<rowVars, booked>>
  /\ UNCHANGED <<dialog, announced, dialogActions>>

\* Success closes the dialog, and the page announces it and refreshes the list.
ReconcileAnswered(q) ==
  /\ q.waiting /\ q.answer # "none"
  /\ reconciles' = reconciles \ {q}
  /\ IF q.answer = "ok"
       THEN /\ dialog' = NoDialog
            /\ announced' = announced \cup {What(q)}
       ELSE /\ dialog' = [dialog EXCEPT !.error = TRUE, !.loading = FALSE]
            /\ UNCHANGED announced
  /\ UNCHANGED <<rowVars, booked, dialogActions>>

\* Mutant: a request that takes too long is taken for done.
ReconcileTimesOutAsDone(q) ==
  /\ q.waiting
  /\ reconciles' = (reconciles \ {q}) \cup
       (IF q.answer = "none" THEN {[q EXCEPT !.waiting = FALSE]} ELSE {})
  /\ dialog' = NoDialog
  /\ announced' = announced \cup {What(q)}
  /\ UNCHANGED <<rowVars, booked, dialogActions>>

\* After thirty seconds the dialog shows an error; the backend may do it all the same.
ReconcileTimesOut(q) ==
  /\ q.waiting
  /\ reconciles' = (reconciles \ {q}) \cup
       (IF q.answer = "none" THEN {[q EXCEPT !.waiting = FALSE]} ELSE {})
  /\ dialog' = [dialog EXCEPT !.error = TRUE, !.loading = FALSE]
  /\ UNCHANGED <<rowVars, booked, announced, dialogActions>>

-------------------------------------------------------------------------------
(* The specification                                                       *)

DialogInit ==
  /\ dialog = NoDialog /\ reconciles = {} /\ booked = {} /\ announced = {}
  /\ dialogActions = 0

ReconciliationInit == RowsInit /\ DialogInit

ReconcileSteps ==
  \E q \in reconciles : ReconcileServed(q) \/ ReconcileAnswered(q) \/ ReconcileTimesOut(q)

ReconciliationNext ==
  \/ OpenDialog \/ OnActionChange \/ OnPriceChange \/ EnterPnL \/ SubmitDialog
  \/ CancelDialog \/ ReconcileSteps
  \/ BackendMoves /\ UNCHANGED <<dialogVars, dialogActions>>

ReconciliationSpec == ReconciliationInit /\ [][ReconciliationNext]_reconciliationVars

-------------------------------------------------------------------------------
(* Properties                                                              *)

\* The types of the dialog and its requests.
DialogTypeOK ==
  /\ dialog \in Dialogs
  /\ reconciles \subseteq Reconciles
  /\ booked \subseteq Reconciled /\ announced \subseteq Reconciled
  /\ dialogActions \in 0 .. MaxDialogActions

\* What the page announces as done is what the backend did, for the same execution and the
\* values that were entered: also when a request timed out, was done all the same and
\* another one with other values was sent, and when the form is changed in flight.
AnnouncedIsDone == announced \subseteq booked

\* While both prices are there and nobody overrode the P&L, the P&L that will be booked
\* and its percentage are those of the prices and the side of the trade, in whatever
\* order prices were entered, cleared and overridden.
PnLMatchesPrices ==
  LET gain == IF dialog.side \in {"buy", "long"} THEN dialog.exit > dialog.entry
                                                ELSE dialog.exit < dialog.entry
  IN  dialog.entry # 0 /\ dialog.exit # 0 /\ ~dialog.overridden =>
        dialog.pnl = dialog.pct /\ (dialog.pnl = "gain" <=> gain)
===============================================================================
