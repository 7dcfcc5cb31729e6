------------------------------ MODULE ScannersPage -----------------------------
(***************************************************************************)
(* The scanners of the web client: the page that lists them behind a       *)
(* filter, with its deletion that first asks where a scanner is used, and  *)
(* the editor that creates or changes one.  Answers come in any order;     *)
(* those of a page that was left are still worked on, and what they open   *)
(* or navigate to shows wherever the user is by then.                      *)
(*                                                                         *)
(* Left out: the search field, the names, and what the catalogue of        *)
(* tickers shows at a time (any part of it).                               *)
(***************************************************************************)
EXTENDS Integers, FiniteSets

CONSTANTS
  Tickers,          \* the tickers of the catalogue
  MaxScanners,      \* bound on the scanners ever made
  MaxScannerCalls,  \* bound on requests sent
  MaxScannerMoves   \* bound on the user's visits and clicks, and on failures

ASSUME ScannersAssumption ==
  /\ Tickers # {} /\ MaxScanners \in Nat \ {0} /\ MaxScannerCalls \in Nat \ {0}
  /\ MaxScannerMoves \in Nat

VARIABLES
  scanners,       \* what the server stores
  scannerPage,    \* the page that is open: the list or the editor
  confirmations,  \* the confirmation dialogs that are open
  scannerCalls,   \* the requests in flight
  scannersSent,   \* how many were sent
  scannerMoves,
  scannerUnheard  \* a change was made whose answer was lost, or came to a page that had
                  \* been left (history)

scannerVars == <<scanners, scannerPage, confirmations, scannerCalls, scannersSent,
                 scannerMoves, scannerUnheard>>

ScannerIds == 1 .. MaxScanners

\* A scanner; state none is one that is not made yet.
Scanner == [state : {"none", "active", "inactive", "deleted"}, tickers : SUBSET Tickers]
NoScanner == [state |-> "none", tickers |-> {}]
ScannerRows == [ScannerIds -> Scanner]
NoScanners == [s \in ScannerIds |-> NoScanner]
ScannerExists(rows, s) == rows[s].state \in {"active", "inactive"}

ScannerCallSet ==
  [kind : {"list", "usage", "delete", "toggle", "get", "create", "save"},
   id : 0 .. MaxScanners, value : Scanner, n : 1 .. MaxScannerCalls, mine : BOOLEAN,
   answer : {"none", "ok", "error"}, rows : ScannerRows]

\* allScanners and scanners are kept apart: scanners is allScanners as it was filtered last.
Filters == {"all", "active", "inactive"}
ScannerPages ==
  [view : {"list", "editor", "other"}, loading : BOOLEAN,
   allScanners : ScannerRows, scanners : ScannerRows, filterActive : Filters,
   shares : BOOLEAN, asked : 0 .. MaxScannerCalls, shownFrom : 0 .. MaxScannerCalls,
   id : 0 .. MaxScanners, scanner : 0 .. MaxScanners, named : BOOLEAN, form : Scanner,
   saving : BOOLEAN]

EmptyPage(view) ==
  [view |-> view, loading |-> FALSE, allScanners |-> NoScanners, scanners |-> NoScanners,
   filterActive |-> "all", shares |-> FALSE, asked |-> 0, shownFrom |-> 0,
   id |-> 0, scanner |-> 0, named |-> FALSE, form |-> [state |-> "active", tickers |-> {}],
   saving |-> FALSE]

\* A dialog is mine as long as the page that opened it is open.
Confirmations == [id : ScannerIds, mine : BOOLEAN]

ScannerCall(kind, id, value, mine) ==
  [kind |-> kind, id |-> id, value |-> value, n |-> scannersSent + 1, mine |-> mine,
   answer |-> "none", rows |-> NoScanners]

SendScanner(kind, id, value, mine, rest) ==
  /\ scannersSent < MaxScannerCalls /\ scannersSent' = scannersSent + 1
  /\ scannerCalls' = rest \cup {ScannerCall(kind, id, value, mine)}

ScannerMove ==
  /\ scannerMoves < MaxScannerMoves /\ scannerMoves' = scannerMoves + 1
  /\ UNCHANGED <<scanners, scannerUnheard>>

ScannersLeft(these) == {[x EXCEPT !.mine = FALSE] : x \in these}

-------------------------------------------------------------------------------
(* Getting from page to page                                               *)

\* The list is loaded when it is opened; to go to the list that is open does nothing.
ToList(rest) ==
  /\ scannerPage.view # "list"
  /\ scannerPage' = [EmptyPage("list") EXCEPT !.loading = TRUE, !.asked = scannersSent + 1]
  /\ SendScanner("list", 0, NoScanner, TRUE, ScannersLeft(rest))
  /\ confirmations' = ScannersLeft(confirmations)

StayOnList(rest) ==
  /\ scannerPage.view = "list" /\ scannerCalls' = rest
  /\ UNCHANGED <<scannerPage, confirmations, scannersSent>>

VisitList == ScannerMove /\ confirmations = {} /\ ToList(scannerCalls)

\* The editor without an id creates, the one with an id loads its scanner.
VisitEditor(s) ==
  /\ ScannerMove /\ confirmations = {} /\ scannerPage.view = "list"
  /\ s # 0 => ~scannerPage.loading /\ ScannerExists(scannerPage.scanners, s)
  /\ scannerPage' = [EmptyPage("editor") EXCEPT !.id = s, !.loading = s # 0]
  /\ IF s = 0 THEN scannerCalls' = ScannersLeft(scannerCalls) /\ UNCHANGED scannersSent
     ELSE SendScanner("get", s, NoScanner, TRUE, ScannersLeft(scannerCalls))
  /\ UNCHANGED confirmations

LeaveScanners ==
  /\ ScannerMove /\ confirmations = {} /\ scannerPage.view # "other"
  /\ scannerPage' = EmptyPage("other") /\ scannerCalls' = ScannersLeft(scannerCalls)
  /\ UNCHANGED <<confirmations, scannersSent>>

-------------------------------------------------------------------------------
(* The list                                                                *)

Filtered(rows, filter) ==
  [s \in ScannerIds |-> IF filter \in {"all", rows[s].state} THEN rows[s] ELSE NoScanner]

ApplyFilter(filter) ==
  /\ ScannerMove /\ confirmations = {} /\ scannerPage.view = "list"
  /\ scannerPage' = [scannerPage EXCEPT !.filterActive = filter,
                                        !.scanners = Filtered(scannerPage.allScanners, filter)]
  /\ UNCHANGED <<confirmations, scannerCalls, scannersSent>>

OnList(s) ==
  /\ confirmations = {} /\ scannerPage.view = "list" /\ ~scannerPage.loading
  /\ ScannerExists(scannerPage.scanners, s)

\* deleteScanner asks for the usage first, toggleScannerStatus sends the other state at once.
DeleteScanner(s) ==
  /\ ScannerMove /\ OnList(s)
  /\ SendScanner("usage", s, NoScanner, TRUE, scannerCalls)
  /\ UNCHANGED <<scannerPage, confirmations>>

ToggleScannerStatus(s) ==
  /\ ScannerMove /\ OnList(s)
  /\ LET shown == scannerPage.scanners[s] IN
     SendScanner("toggle", s,
                 [shown EXCEPT !.state = IF @ = "active" THEN "inactive" ELSE "active"],
                 TRUE, scannerCalls)
  /\ UNCHANGED <<scannerPage, confirmations>>

\* The dialog opens when the usage is known or could not be had, on whatever page there is.
UsageAnswered(c) ==
  /\ c.kind = "usage"
  /\ confirmations' = confirmations \cup {[id |-> c.id, mine |-> c.mine]}
  /\ scannerCalls' = scannerCalls \ {c}
  /\ UNCHANGED <<scanners, scannerPage, scannersSent, scannerMoves, scannerUnheard>>

\* Mutant: a list that is loaded again is shown without its filter.
ScannersLoadedUnfiltered(c) ==
  /\ c.kind = "list" /\ scannerCalls' = scannerCalls \ {c}
  /\ scannerPage' =
       IF ~c.mine THEN [scannerPage EXCEPT !.shares = FALSE]
       ELSE IF c.answer = "error" THEN [scannerPage EXCEPT !.loading = FALSE]
       ELSE [scannerPage EXCEPT !.loading = FALSE, !.shares = TRUE, !.shownFrom = c.n,
               !.allScanners = c.rows, !.scanners = c.rows]
  /\ UNCHANGED <<scanners, confirmations, scannersSent, scannerMoves, scannerUnheard>>

CloseConfirmation(d) ==
  /\ confirmations' = confirmations \ {d}
  /\ \/ SendScanner("delete", d.id, NoScanner, d.mine, scannerCalls)
     \/ UNCHANGED <<scannerCalls, scannersSent>>
  /\ UNCHANGED <<scanners, scannerPage, scannerMoves, scannerUnheard>>

ScannersLoaded(c) ==
  /\ c.kind = "list" /\ scannerCalls' = scannerCalls \ {c}
  /\ scannerPage' =
       IF ~c.mine THEN [scannerPage EXCEPT !.shares = FALSE]
       ELSE IF c.answer = "error" THEN [scannerPage EXCEPT !.loading = FALSE]
       ELSE [scannerPage EXCEPT !.loading = FALSE, !.shares = TRUE, !.shownFrom = c.n,
               !.allScanners = c.rows, !.scanners = Filtered(c.rows, scannerPage.filterActive)]
  /\ UNCHANGED <<scanners, confirmations, scannersSent, scannerMoves, scannerUnheard>>

\* updateScanner puts the row into the service's array, which the page may hold as its
\* allScanners; the filtered list is not touched.
Placed(c) ==
  LET held == scannerPage.shares /\ c.kind # "delete" /\ ScannerExists(scannerPage.allScanners, c.id) IN
  [scannerPage EXCEPT
     !.allScanners = IF held THEN [@ EXCEPT ![c.id] = c.rows[c.id]] ELSE @,
     !.shares = @ /\ ~held /\ c.kind # "delete",
     !.loading = @ \/ c.mine,
     !.asked = IF c.mine THEN scannersSent + 1 ELSE @]

\* performDelete and toggleScannerStatus: the list is loaded again after a success.
ListChanged(c) ==
  /\ c.kind \in {"delete", "toggle"}
  /\ \/ /\ c.answer = "ok" /\ scannerPage' = Placed(c)
        /\ SendScanner("list", 0, NoScanner, c.mine, scannerCalls \ {c})
        /\ scannerUnheard' = (scannerUnheard \/ ~c.mine)
     \/ /\ c.answer = "error" /\ scannerCalls' = scannerCalls \ {c}
        /\ UNCHANGED <<scannerPage, scannersSent, scannerUnheard>>
  /\ UNCHANGED <<scanners, confirmations, scannerMoves>>

-------------------------------------------------------------------------------
(* The editor                                                              *)

\* Mutant: the form does not wait for the scanner.
EditingAtOnce == confirmations = {} /\ scannerPage.view = "editor"

\* The form is not there while its scanner is loaded.
Editing == confirmations = {} /\ scannerPage.view = "editor" /\ ~scannerPage.loading

EditForm(field, value) ==
  /\ ScannerMove /\ Editing /\ scannerPage.form[field] # value
  /\ scannerPage' = [scannerPage EXCEPT !.form[field] = value]
  /\ UNCHANGED <<confirmations, scannerCalls, scannersSent>>

NameScanner ==
  /\ ScannerMove /\ Editing /\ scannerPage' = [scannerPage EXCEPT !.named = ~@]
  /\ UNCHANGED <<confirmations, scannerCalls, scannersSent>>

\* What a tab, a sector and a search, a preset or a pasted text may name.
TickerSets == SUBSET Tickers

\* toggleTicker, addTicker and removeTicker; selectAllDisplayed, applyPreset and onPaste add
\* what is not there yet, clearAllDisplayed and clearAllTickers take out.
ToggleTicker(t) ==
  EditForm("tickers", IF t \in scannerPage.form.tickers THEN scannerPage.form.tickers \ {t}
                      ELSE scannerPage.form.tickers \cup {t})
AddTickers(some) == EditForm("tickers", scannerPage.form.tickers \cup some)
ClearTickers(some) == EditForm("tickers", scannerPage.form.tickers \ some)

\* Mutant: a name is enough.
CanSaveNamed ==
  /\ confirmations = {} /\ scannerPage.view = "editor"
  /\ scannerPage.named /\ ~scannerPage.saving

\* The button stands in the page's head, also while the form is not there.
CanSave ==
  /\ confirmations = {} /\ scannerPage.view = "editor"
  /\ scannerPage.named /\ scannerPage.form.tickers # {} /\ ~scannerPage.saving

SaveScanner ==
  /\ CanSave /\ scannerPage' = [scannerPage EXCEPT !.saving = TRUE]
  /\ IF scannerPage.id # 0 /\ scannerPage.scanner # 0
     THEN SendScanner("save", scannerPage.scanner, scannerPage.form, TRUE, scannerCalls)
     ELSE SendScanner("create", 0, scannerPage.form, TRUE, scannerCalls)
  /\ UNCHANGED <<scanners, confirmations, scannerMoves, scannerUnheard>>

\* loadScanner; a scanner that cannot be loaded sends back to the list.
ScannerLoaded(c) ==
  /\ c.kind = "get"
  /\ \/ /\ c.answer = "ok" /\ scannerCalls' = scannerCalls \ {c}
        /\ scannerPage' = IF ~c.mine THEN scannerPage
             ELSE [scannerPage EXCEPT !.loading = FALSE, !.scanner = c.id, !.named = TRUE,
                                      !.form = c.rows[c.id]]
        /\ UNCHANGED <<confirmations, scannersSent>>
     \/ c.answer = "error" /\ (ToList(scannerCalls \ {c}) \/ StayOnList(scannerCalls \ {c}))
  /\ UNCHANGED <<scanners, scannerMoves, scannerUnheard>>

\* A saved scanner sends to the list, wherever the user is by then.
SaveAnswered(c) ==
  /\ c.kind \in {"save", "create"}
  /\ \/ c.answer = "ok" /\ (ToList(scannerCalls \ {c}) \/ StayOnList(scannerCalls \ {c}))
     \/ /\ c.answer = "error" /\ scannerCalls' = scannerCalls \ {c}
        /\ scannerPage' = IF c.mine THEN [scannerPage EXCEPT !.saving = FALSE] ELSE scannerPage
        /\ UNCHANGED <<confirmations, scannersSent>>
  /\ scannerUnheard' = (scannerUnheard \/ (c.answer = "ok" /\ ~c.mine))
  /\ UNCHANGED <<scanners, scannerMoves>>

-------------------------------------------------------------------------------
(* The server                                                              *)

NewScanner ==
  CHOOSE s \in ScannerIds : /\ scanners[s].state = "none"
                            /\ \A t \in 1 .. s - 1 : scanners[t].state # "none"

\* A scanner that is in use, or a name that is taken, is refused: see ScannerFails.
ScannerEffect(c) ==
  CASE c.kind = "delete" -> [scanners EXCEPT ![c.id] = [state |-> "deleted", tickers |-> {}]]
    [] c.kind = "toggle" -> [scanners EXCEPT ![c.id].state = c.value.state]
    [] c.kind = "save" -> [scanners EXCEPT ![c.id] = c.value]
    [] c.kind = "create" -> [scanners EXCEPT ![NewScanner] = c.value]
    [] OTHER -> scanners

ServeScanner(c) ==
  /\ c.answer = "none"
  /\ c.kind = "create" => \E s \in ScannerIds : scanners[s].state = "none"
  /\ LET found == c.kind \in {"list", "create"} \/ ScannerExists(scanners, c.id) IN
     /\ scanners' = IF found THEN ScannerEffect(c) ELSE scanners
     /\ scannerCalls' = (scannerCalls \ {c}) \cup
          {[c EXCEPT !.answer = IF found THEN "ok" ELSE "error", !.rows = scanners']}
  /\ UNCHANGED <<scannerPage, confirmations, scannersSent, scannerMoves, scannerUnheard>>

\* Refused or not delivered, or answered into a broken connection.
ScannerFails(c) ==
  /\ scannerMoves < MaxScannerMoves /\ scannerMoves' = scannerMoves + 1
  /\ c.answer \in {"none", "ok"}
  /\ scannerCalls' = (scannerCalls \ {c}) \cup
       {[c EXCEPT !.answer = "error", !.rows = NoScanners]}
  /\ scannerUnheard' = (scannerUnheard \/
       (c.answer = "ok" /\ c.kind \in {"delete", "toggle", "save", "create"}))
  /\ UNCHANGED <<scanners, scannerPage, confirmations, scannersSent>>

-------------------------------------------------------------------------------

ScannersInit ==
  /\ \E some \in (SUBSET Tickers) \ {{}} :
       scanners = [NoScanners EXCEPT ![1] = [state |-> "active", tickers |-> some]]
  /\ scannerPage = [EmptyPage("list") EXCEPT !.loading = TRUE, !.asked = 1]
  /\ scannerCalls = {[kind |-> "list", id |-> 0, value |-> NoScanner, n |-> 1, mine |-> TRUE,
                      answer |-> "none", rows |-> NoScanners]}
  /\ confirmations = {} /\ scannersSent = 1 /\ scannerMoves = 0 /\ scannerUnheard = FALSE

ScannerUser ==
  \/ VisitList \/ LeaveScanners \/ NameScanner \/ SaveScanner
  \/ \E s \in 0 .. MaxScanners : VisitEditor(s)
  \/ \E filter \in Filters : ApplyFilter(filter)
  \/ \E s \in ScannerIds : DeleteScanner(s) \/ ToggleScannerStatus(s)
  \/ \E d \in confirmations : CloseConfirmation(d)
  \/ \E t \in Tickers : ToggleTicker(t)
  \/ \E some \in TickerSets : AddTickers(some) \/ ClearTickers(some)
  \/ \E state \in {"active", "inactive"} : EditForm("state", state)

ScannerAnswers(c) ==
  \/ UsageAnswered(c) \/ ScannersLoaded(c) \/ ListChanged(c) \/ ScannerLoaded(c)
  \/ SaveAnswered(c)

ScannersNext ==
  \/ ScannerUser
  \/ \E c \in scannerCalls :
       ServeScanner(c) \/ ScannerFails(c) \/ (c.answer # "none" /\ ScannerAnswers(c))

ScannersSpec == ScannersInit /\ [][ScannersNext]_scannerVars

-------------------------------------------------------------------------------
(* Properties                                                              *)

\* The types of the pages and the requests.  A scanner that is stored has tickers.
ScannersTypeOK ==
  /\ scanners \in ScannerRows
  /\ \A s \in ScannerIds : ScannerExists(scanners, s) => scanners[s].tickers # {}
  /\ scannerPage \in ScannerPages
  /\ confirmations \subseteq Confirmations /\ scannerCalls \subseteq ScannerCallSet
  /\ scannersSent \in 1 .. MaxScannerCalls /\ scannerMoves \in 0 .. MaxScannerMoves
  /\ scannerUnheard \in BOOLEAN

\* loadScanners and applyClientFilter: when nothing is in flight, and the last list that was
\* asked for is the one that is shown, the page shows the stored scanners that pass the filter,
\* although allScanners is changed under it; unless an answer to a change went astray.
ListIsFiltered ==
  /\ scannerPage.view = "list" /\ scannerCalls = {} /\ ~scannerUnheard
  /\ scannerPage.shownFrom = scannerPage.asked
  => scannerPage.scanners = Filtered(scanners, scannerPage.filterActive)

\* saveScanner creates when "isEditMode" has no scanner yet.  Pressed at any time, also before
\* the scanner to edit has come, saving in the editor of a scanner changes that scanner and
\* makes no other.
EditorKeepsToItsScanner ==
  [][scannerPage.view = "editor" /\ scannerPage.id # 0 /\ scannerPage'.saving
       => \A c \in scannerCalls' \ scannerCalls :
            c.kind \in {"save", "create"} /\ c.answer = "none" =>
              c.kind = "save" /\ c.id = scannerPage.id]_scannerVars
===============================================================================
