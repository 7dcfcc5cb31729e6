----------------------------- MODULE PipelinesPage -----------------------------
(***************************************************************************)
(* The page of pipelines of the web client and the pipeline service: the   *)
(* list the page shows, the list the service keeps for everybody, the      *)
(* confirmation dialogs, and the requests in flight.  Every change that    *)
(* succeeds loads the list again; answers come in any order, and those of  *)
(* a page that was left are still worked on.                               *)
(*                                                                         *)
(* Left out: what a pipeline consists of, and changes the server makes by  *)
(* itself (schedules, the circuit breaker): the page has no refresh.       *)
(***************************************************************************)
EXTENDS Integers, FiniteSets

CONSTANTS
  MaxPipelines,        \* bound on the pipelines ever made
  MaxPipelineCalls,    \* bound on requests sent
  MaxPipelineMoves     \* bound on the user's visits and clicks, and on failures

ASSUME PipelinesAssumption ==
  /\ MaxPipelines \in Nat \ {0} /\ MaxPipelineCalls \in Nat \ {0} /\ MaxPipelineMoves \in Nat

VARIABLES
  pipelineRows,       \* what the server stores of each pipeline
  listed,          \* the list of the service (pipelinesSubject)
  registry,        \* the page
  pipelineDialog,  \* the dialog that is open
  pipelineCalls,   \* the requests in flight
  callsSent,       \* how many were sent
  pipelineMoves,
  changeUnheard    \* a change was made whose answer was lost, or came to a page that
                   \* had been left (history)

pipelineVars == <<pipelineRows, listed, registry, pipelineDialog, pipelineCalls, callsSent,
                  pipelineMoves, changeUnheard>>

PipelineIds == 1 .. MaxPipelines
Rows == [PipelineIds -> {"none", "active", "inactive", "deleted"}]
NoRows == [p \in PipelineIds |-> "none"]
In(rows, p) == rows[p] \in {"active", "inactive"}

Changes == {"activate", "deactivate", "liquidate", "clone", "delete"}
CallKinds == Changes \cup {"load", "run", "export"}

\* A request: mine while the page that sent it is open; n is its place in the order of sending.
PipelineCallSet ==
  [kind : CallKinds, id : 0 .. MaxPipelines, n : 1 .. MaxPipelineCalls, mine : BOOLEAN,
   answer : {"none", "ok", "error"}, rows : Rows]

\* The page: asked is the last request it sent for the list and shownFrom the one it shows the
\* answer of; shares says that its list is the very array the service holds.
Registries ==
  [open : BOOLEAN, loading : BOOLEAN, shown : Rows, asked : 1 .. MaxPipelineCalls,
   shownFrom : 0 .. MaxPipelineCalls, shares : BOOLEAN]
FreshRegistry(n) ==
  [open |-> TRUE, loading |-> TRUE, shown |-> NoRows, asked |-> n, shownFrom |-> 0,
   shares |-> FALSE]

Dialogs == [kind : {"none", "deactivate", "clone", "delete"}, id : 0 .. MaxPipelines,
            choice : BOOLEAN]
NoDialog == [kind |-> "none", id |-> 0, choice |-> FALSE]

Call(kind, id, mine) ==
  [kind |-> kind, id |-> id, n |-> callsSent + 1, mine |-> mine, answer |-> "none",
   rows |-> NoRows]

\* The requests that are left (or, in rest, were there) and one more.
Sent(kind, id, mine, rest) ==
  /\ callsSent < MaxPipelineCalls /\ callsSent' = callsSent + 1
  /\ pipelineCalls' = rest \cup {Call(kind, id, mine)}

PipelineMove ==
  /\ pipelineMoves < MaxPipelineMoves /\ pipelineMoves' = pipelineMoves + 1
  /\ UNCHANGED <<pipelineRows, changeUnheard>>

-------------------------------------------------------------------------------
(* The user                                                                *)

Orphaned(calls) == {[c EXCEPT !.mine = FALSE] : c \in calls}

Clickable == registry.open /\ ~registry.loading /\ pipelineDialog = NoDialog

\* ngOnInit.
OpenRegistry ==
  /\ PipelineMove /\ ~registry.open /\ pipelineDialog = NoDialog
  /\ registry' = FreshRegistry(callsSent + 1)
  /\ Sent("load", 0, TRUE, pipelineCalls)
  /\ UNCHANGED <<listed, pipelineDialog>>

\* createNew, editPipeline, openBacktest and the navigation bar.
LeaveRegistry ==
  /\ PipelineMove /\ registry.open /\ pipelineDialog = NoDialog
  /\ registry' = [registry EXCEPT !.open = FALSE]
  /\ pipelineCalls' = Orphaned(pipelineCalls)
  /\ UNCHANGED <<listed, pipelineDialog, callsSent>>

\* toggleActive: an inactive pipeline is activated at once, an active one after a dialog.
ToggleActive(p) ==
  /\ PipelineMove /\ Clickable /\ In(registry.shown, p)
  /\ \/ /\ registry.shown[p] = "active"
        /\ pipelineDialog' = [kind |-> "deactivate", id |-> p, choice |-> FALSE]
        /\ UNCHANGED <<pipelineCalls, callsSent>>
     \/ /\ registry.shown[p] = "inactive"
        /\ Sent("activate", p, TRUE, pipelineCalls)
        /\ UNCHANGED pipelineDialog
  /\ UNCHANGED <<listed, registry>>

\* deletePipeline and clonePipeline; a clone is proposed with a name.
AskFor(kind, p) ==
  /\ PipelineMove /\ Clickable /\ In(registry.shown, p)
  /\ pipelineDialog' = [kind |-> kind, id |-> p, choice |-> kind = "clone"]
  /\ UNCHANGED <<listed, registry, pipelineCalls, callsSent>>

\* The box "Also close all open positions", or the name of the clone emptied or filled.
EditDialog ==
  /\ PipelineMove /\ pipelineDialog.kind \in {"deactivate", "clone"}
  /\ pipelineDialog' = [pipelineDialog EXCEPT !.choice = ~@]
  /\ UNCHANGED <<listed, registry, pipelineCalls, callsSent>>

CancelDialog ==
  /\ pipelineDialog # NoDialog /\ pipelineDialog' = NoDialog
  /\ UNCHANGED <<pipelineRows, listed, registry, pipelineCalls, callsSent, pipelineMoves,
                 changeUnheard>>

\* What a confirmed dialog asks for; a clone without a name is not submitted.
Confirmed(d) ==
  CASE d.kind = "deactivate" -> IF d.choice THEN "liquidate" ELSE "deactivate"
    [] OTHER -> d.kind

ConfirmDialog ==
  /\ pipelineDialog # NoDialog /\ pipelineDialog' = NoDialog
  /\ pipelineDialog.kind = "clone" => pipelineDialog.choice
  /\ Sent(Confirmed(pipelineDialog), pipelineDialog.id, registry.open, pipelineCalls)
  /\ UNCHANGED <<pipelineRows, listed, registry, pipelineMoves, changeUnheard>>

\* executePipeline and exportStrategy.
RunOrExport(kind, p) ==
  /\ PipelineMove /\ Clickable /\ In(registry.shown, p)
  /\ Sent(kind, p, TRUE, pipelineCalls)
  /\ UNCHANGED <<listed, registry, pipelineDialog>>

-------------------------------------------------------------------------------
(* The server                                                              *)

New == CHOOSE p \in PipelineIds : pipelineRows[p] = "none" /\ \A q \in 1 .. p - 1 : pipelineRows[q] # "none"

\* What a request makes of the stored pipelines.
Effect(c) ==
  CASE c.kind = "activate" -> [pipelineRows EXCEPT ![c.id] = "active"]
    [] c.kind \in {"deactivate", "liquidate"} -> [pipelineRows EXCEPT ![c.id] = "inactive"]
    [] c.kind = "delete" -> [pipelineRows EXCEPT ![c.id] = "deleted"]
    [] c.kind = "clone" -> [pipelineRows EXCEPT ![New] = "inactive"]
    [] OTHER -> pipelineRows

Serve(c) ==
  /\ c.answer = "none"
  /\ c.kind = "clone" => \E p \in PipelineIds : pipelineRows[p] = "none"
  /\ LET found == c.kind = "load" \/ In(pipelineRows, c.id) IN
     /\ pipelineRows' = IF found THEN Effect(c) ELSE pipelineRows
     /\ pipelineCalls' = (pipelineCalls \ {c}) \cup
          {[c EXCEPT !.answer = IF found THEN "ok" ELSE "error", !.rows = pipelineRows',
                     !.id = IF found /\ c.kind = "clone" THEN New ELSE @]}
  /\ UNCHANGED <<listed, registry, pipelineDialog, callsSent, pipelineMoves, changeUnheard>>

\* The connection breaks before the server has seen the request, or after it.
CallFails(c) ==
  /\ pipelineMoves < MaxPipelineMoves /\ pipelineMoves' = pipelineMoves + 1
  /\ c.answer \in {"none", "ok"}
  /\ pipelineCalls' = (pipelineCalls \ {c}) \cup {[c EXCEPT !.answer = "error", !.rows = NoRows]}
  /\ changeUnheard' = (changeUnheard \/ (c.answer = "ok" /\ c.kind \in Changes))
  /\ UNCHANGED <<pipelineRows, listed, registry, pipelineDialog, callsSent>>

-------------------------------------------------------------------------------
(* The answers                                                             *)

\* loadPipelines: the service and the page that asked hold the same array from now on.
Loaded(c) ==
  /\ c.kind = "load" /\ pipelineCalls' = pipelineCalls \ {c}
  /\ listed' = (IF c.answer = "ok" THEN c.rows ELSE listed)
  /\ registry' = IF c.mine
       THEN IF c.answer = "ok"
            THEN [registry EXCEPT !.loading = FALSE, !.shown = c.rows, !.shownFrom = c.n,
                                  !.shares = TRUE]
            ELSE [registry EXCEPT !.loading = FALSE]
       ELSE [registry EXCEPT !.shares = @ /\ c.answer # "ok"]
  /\ UNCHANGED <<pipelineRows, pipelineDialog, callsSent, pipelineMoves, changeUnheard>>

\* The service replaces a row in its array, which the page may be showing, and goes on with
\* a copy; a clone is put before a copy, a deleted row is left out of one.
InPlace(c) ==
  [rows |-> IF c.kind \in {"clone", "delete"} \/ In(listed, c.id)
            THEN [listed EXCEPT ![c.id] = c.rows[c.id]] ELSE listed,
   shown |-> IF registry.shares /\ c.kind \notin {"clone", "delete"} /\ In(listed, c.id)
             THEN [registry.shown EXCEPT ![c.id] = c.rows[c.id]] ELSE registry.shown,
   shares |-> registry.shares /\ c.kind \notin {"clone", "delete"} /\ ~In(listed, c.id)]

\* Mutant: the array the service goes on with is taken for enough.
NotReloaded(c) ==
  /\ registry' = [registry EXCEPT !.shown = InPlace(c).shown, !.shares = InPlace(c).shares]
  /\ pipelineCalls' = pipelineCalls \ {c} /\ UNCHANGED callsSent

\* Whichever page asked for the change then loads the list, also when it was left.
Reloaded(c) ==
  /\ registry' = [registry EXCEPT !.shown = InPlace(c).shown, !.shares = InPlace(c).shares,
                                  !.loading = @ \/ c.mine,
                                  !.asked = IF c.mine THEN callsSent + 1 ELSE @]
  /\ Sent("load", 0, c.mine, pipelineCalls \ {c})

Changed(c) ==
  /\ c.kind \in Changes
  /\ \/ c.answer = "ok" /\ listed' = InPlace(c).rows /\ Reloaded(c)
        /\ changeUnheard' = (changeUnheard \/ ~c.mine)
     \/ c.answer = "error" /\ pipelineCalls' = pipelineCalls \ {c}
        /\ UNCHANGED <<listed, registry, callsSent, changeUnheard>>
  /\ UNCHANGED <<pipelineRows, pipelineDialog, pipelineMoves>>

\* A started execution or an exported strategy is navigated to, wherever the user is by then.
StartedOrExported(c) ==
  /\ c.kind \in {"run", "export"}
  /\ \/ /\ c.answer = "ok" /\ registry' = [registry EXCEPT !.open = FALSE]
        /\ pipelineCalls' = Orphaned(pipelineCalls \ {c})
     \/ /\ c.answer = "error" /\ pipelineCalls' = pipelineCalls \ {c} /\ UNCHANGED registry
  /\ UNCHANGED <<pipelineRows, listed, pipelineDialog, callsSent, pipelineMoves, changeUnheard>>

-------------------------------------------------------------------------------

PipelinesInit ==
  /\ pipelineRows \in {r \in Rows : r[1] \in {"active", "inactive"}
                                 /\ \A p \in PipelineIds \ {1} : r[p] = "none"}
  /\ listed = NoRows /\ registry = FreshRegistry(1) /\ pipelineDialog = NoDialog
  /\ callsSent = 1 /\ pipelineMoves = 0 /\ changeUnheard = FALSE
  /\ pipelineCalls = {[kind |-> "load", id |-> 0, n |-> 1, mine |-> TRUE, answer |-> "none",
                       rows |-> NoRows]}

PipelinesNext ==
  \/ OpenRegistry \/ LeaveRegistry \/ EditDialog \/ CancelDialog \/ ConfirmDialog
  \/ \E p \in PipelineIds :
       \/ ToggleActive(p)
       \/ \E kind \in {"delete", "clone"} : AskFor(kind, p)
       \/ \E kind \in {"run", "export"} : RunOrExport(kind, p)
  \/ \E c \in pipelineCalls :
       Serve(c) \/ CallFails(c) \/ (c.answer # "none" /\ (Loaded(c) \/ Changed(c) \/ StartedOrExported(c)))

PipelinesSpec == PipelinesInit /\ [][PipelinesNext]_pipelineVars

-------------------------------------------------------------------------------
(* Properties                                                              *)

\* The types of the page, the service's list, the dialog and the requests.
PipelinesTypeOK ==
  /\ pipelineRows \in Rows /\ listed \in Rows /\ registry \in Registries
  /\ pipelineDialog \in Dialogs /\ pipelineCalls \subseteq PipelineCallSet
  /\ callsSent \in 1 .. MaxPipelineCalls /\ pipelineMoves \in 0 .. MaxPipelineMoves
  /\ changeUnheard \in BOOLEAN

\* loadPipelines after every change: when nothing is in flight, and the last list that was
\* asked for is the one that is shown, what is shown is what is stored, whatever overlapped
\* before; unless the answer to a change was lost or came to a page that had been left,
\* after which this page loads nothing.
RegistryIsCurrent ==
  registry.open /\ pipelineCalls = {} /\ registry.shownFrom = registry.asked /\ ~changeUnheard
    => registry.shown = pipelineRows
===============================================================================
