----------------------------- MODULE StrategyPages -----------------------------
(***************************************************************************)
(* The strategies of the web client: the page of the user's strategies     *)
(* with the admin's review queue, and the page of one strategy where its   *)
(* owner edits and submits it, an admin reviews it and everybody votes.    *)
(* Both show what they loaded once, changed by the answers to their own    *)
(* requests, which come in any order.                                      *)
(*                                                                         *)
(* Left out: what a strategy says (only its title is kept), who else voted *)
(* and how the marketplace finds strategies.                               *)
(***************************************************************************)
EXTENDS Integers, FiniteSets

CONSTANTS
  Strategies,         \* the strategies there are
  MyStrategies,       \* those of the user
  Titles,             \* what a title can be
  MaxStrategyCalls,   \* bound on requests sent
  MaxStrategyMoves    \* bound on the user's visits and clicks, and on failures

\* An empty field.
Blank == ""

ASSUME StrategiesAssumption ==
  /\ MyStrategies \subseteq Strategies /\ "none" \notin Strategies
  /\ Titles # {} /\ Blank \notin Titles
  /\ MaxStrategyCalls \in Nat \ {0} /\ MaxStrategyMoves \in Nat

VARIABLES
  strategies,       \* what the server stores
  isAdmin,          \* the user is an admin
  strategyPage,     \* the page that is open
  strategyDialog,   \* the confirmation that is open
  strategyCalls,    \* the requests in flight
  strategiesSent,   \* how many were sent
  strategyMoves,
  strategyHistory   \* served: how many requests the server has seen; seen: the latest of
                    \* them that the page knows of; astray: an answer to a change was lost,
                    \* came to a page that was left, or was overtaken by a later one, or
                    \* the lists could not be loaded

strategyVars == <<strategies, isAdmin, strategyPage, strategyDialog, strategyCalls,
                  strategiesSent, strategyMoves, strategyHistory>>

Statuses == {"draft", "pending_review", "published", "rejected", "deleted"}
Strategy == [title : Titles, publication_status : Statuses, has_voted : BOOLEAN]
NoTitle == CHOOSE t \in Titles : TRUE
NoStrategy == [title |-> NoTitle, publication_status |-> "deleted", has_voted |-> FALSE]
StrategyRows == [Strategies -> Strategy]
NoStrategies == [s \in Strategies |-> NoStrategy]

StrategyKinds == {"user", "lists", "get", "update", "submit", "approve", "reject", "vote",
                  "delete", "use"}
StrategyChanges == {"update", "submit", "approve", "reject", "vote", "delete"}
Views == {"list", "detail", "other"}
StrategyCallSet ==
  [kind : StrategyKinds, id : Strategies \cup {"none"}, title : Titles, sent : 1 .. MaxStrategyCalls,
   from : Views, mine : BOOLEAN, answer : {"none", "ok", "error"}, n : 0 .. MaxStrategyCalls,
   rows : StrategyRows]

\* known: the page knows who the user is.
StrategyPagesSet ==
  [view : Views, known : BOOLEAN, loading : BOOLEAN,
   strategies : StrategyRows, adminPendingStrategies : SUBSET Strategies,
   id : Strategies \cup {"none"}, editing : BOOLEAN, edited : Titles \cup {Blank},
   saving : BOOLEAN, reviewing : BOOLEAN]

NewPage(view, id, known) ==
  [view |-> view, known |-> known, loading |-> view # "other", strategies |-> NoStrategies,
   adminPendingStrategies |-> {}, id |-> id, editing |-> FALSE, edited |-> Blank,
   saving |-> FALSE, reviewing |-> FALSE]

NoQuestion == [kind |-> "none", id |-> "none"]
Questions == {NoQuestion} \cup [kind : {"approve", "reject", "delete"}, id : Strategies]

SendStrategy(kind, id, title, rest) ==
  /\ strategiesSent < MaxStrategyCalls /\ strategiesSent' = strategiesSent + 1
  /\ strategyCalls' = rest \cup
       {[kind |-> kind, id |-> id, title |-> title, sent |-> strategiesSent + 1,
         from |-> strategyPage.view, mine |-> TRUE, answer |-> "none", n |-> 0, rows |-> NoStrategies]}

StrategyMove ==
  /\ strategyMoves < MaxStrategyMoves /\ strategyMoves' = strategyMoves + 1
  /\ UNCHANGED <<strategies, isAdmin, strategyHistory>>

Abandoned(calls) == {[c EXCEPT !.mine = FALSE] : c \in calls}

-------------------------------------------------------------------------------
(* Getting from page to page                                               *)

\* ngOnInit of the list: the strategies are asked for when the user is known.
ToStrategies(known, rest) ==
  /\ strategyPage' = NewPage("list", "none", known)
  /\ SendStrategy(IF known THEN "lists" ELSE "user", "none", NoTitle, Abandoned(rest))

VisitStrategies ==
  /\ StrategyMove /\ strategyDialog = NoQuestion
  /\ \E known \in BOOLEAN : ToStrategies(known, strategyCalls)
  /\ UNCHANGED strategyDialog

\* ngOnInit of the detail, with the user known from the session.
VisitStrategy(s) ==
  /\ StrategyMove /\ strategyDialog = NoQuestion
  /\ strategyPage' = NewPage("detail", s, TRUE)
  /\ SendStrategy("get", s, NoTitle, Abandoned(strategyCalls))
  /\ UNCHANGED strategyDialog

ToElsewhere(rest) ==
  /\ strategyPage' = NewPage("other", "none", TRUE) /\ strategyCalls' = Abandoned(rest)
  /\ UNCHANGED strategiesSent

-------------------------------------------------------------------------------
(* What the user does                                                      *)

Shows(s) ==
  /\ strategyDialog = NoQuestion /\ ~strategyPage.loading
  /\ \/ strategyPage.strategies[s].publication_status # "deleted"
     \/ s \in strategyPage.adminPendingStrategies

OnDetail(s) == strategyPage.view = "detail" /\ strategyPage.id = s /\ Shows(s)
IsOwner(s) == strategyPage.known /\ s \in MyStrategies
ShownStatus(s) == strategyPage.strategies[s].publication_status
CanReviewStrategy(s) == strategyPage.known /\ isAdmin /\ ShownStatus(s) = "pending_review"

ResetMetadataDrafts(page) ==
  [page EXCEPT !.edited = IF page.id = "none" THEN Blank ELSE page.strategies[page.id].title]

StartMetadataEdit(s) ==
  /\ StrategyMove /\ OnDetail(s) /\ IsOwner(s) /\ ~strategyPage.editing
  /\ strategyPage' = ResetMetadataDrafts([strategyPage EXCEPT !.editing = TRUE])
  /\ UNCHANGED <<strategyDialog, strategyCalls, strategiesSent>>

TypeTitle(s, title) ==
  /\ StrategyMove /\ OnDetail(s) /\ strategyPage.editing /\ strategyPage.edited # title
  /\ strategyPage' = [strategyPage EXCEPT !.edited = title]
  /\ UNCHANGED <<strategyDialog, strategyCalls, strategiesSent>>

CancelMetadataEdit(s) ==
  /\ StrategyMove /\ OnDetail(s) /\ strategyPage.editing /\ ~strategyPage.saving
  /\ strategyPage' = ResetMetadataDrafts([strategyPage EXCEPT !.editing = FALSE])
  /\ UNCHANGED <<strategyDialog, strategyCalls, strategiesSent>>

\* A strategy without a name is not saved.
SaveMetadata(s) ==
  /\ OnDetail(s) /\ strategyPage.editing /\ ~strategyPage.saving /\ strategyPage.edited # Blank
  /\ strategyPage' = [strategyPage EXCEPT !.saving = TRUE]
  /\ SendStrategy("update", s, strategyPage.edited, strategyCalls)
  /\ UNCHANGED <<strategies, isAdmin, strategyHistory, strategyDialog, strategyMoves>>

Press(s, kind) ==
  /\ StrategyMove /\ OnDetail(s)
  /\ \/ kind = "vote" /\ ShownStatus(s) = "published"
     \/ kind = "submit" /\ IsOwner(s) /\ ShownStatus(s) = "draft"
     \/ kind = "use"
  /\ SendStrategy(kind, s, NoTitle, strategyCalls)
  /\ UNCHANGED <<strategyPage, strategyDialog>>

\* In the list every strategy of the user's can be deleted, and every one that is queued be
\* reviewed, also while a review of it is under way.
AskStrategy(s, kind) ==
  /\ StrategyMove /\ Shows(s)
  /\ IF strategyPage.view = "detail"
     THEN /\ strategyPage.id = s
          /\ IF kind = "delete" THEN IsOwner(s)
             ELSE CanReviewStrategy(s) /\ ~strategyPage.reviewing
     ELSE IF kind = "delete" THEN s \in MyStrategies
          ELSE s \in strategyPage.adminPendingStrategies
  /\ strategyDialog' = [kind |-> kind, id |-> s]
  /\ UNCHANGED <<strategyPage, strategyCalls, strategiesSent>>

CloseQuestion ==
  /\ strategyDialog # NoQuestion /\ strategyDialog' = NoQuestion
  /\ \/ UNCHANGED <<strategyPage, strategyCalls, strategiesSent>>
     \/ /\ SendStrategy(strategyDialog.kind, strategyDialog.id, NoTitle, strategyCalls)
        /\ strategyPage' = [strategyPage EXCEPT
             !.reviewing = @ \/ (strategyPage.view = "detail" /\ strategyDialog.kind # "delete")]
  /\ UNCHANGED <<strategies, isAdmin, strategyHistory, strategyMoves>>

-------------------------------------------------------------------------------
(* The server                                                              *)

\* An edited strategy that is published becomes a draft again; a review is taken whatever the
\* status is by then.
StrategyEffect(c, row) ==
  CASE c.kind = "update" -> [row EXCEPT !.title = c.title,
         !.publication_status = IF @ = "published" THEN "draft" ELSE @]
    [] c.kind = "submit" -> [row EXCEPT !.publication_status = "pending_review"]
    [] c.kind = "approve" -> [row EXCEPT !.publication_status = "published"]
    [] c.kind = "reject" -> [row EXCEPT !.publication_status = "rejected"]
    [] c.kind = "vote" -> [row EXCEPT !.has_voted = ~@]
    [] c.kind = "delete" -> NoStrategy
    [] OTHER -> row

Grants(c) ==
  c.kind \in {"user", "lists"} \/
    /\ strategies[c.id].publication_status # "deleted"
    /\ c.kind = "vote" => strategies[c.id].publication_status = "published"

\* Only "get" and the answer to a vote say whether the user has voted.
Answering(c, rows) ==
  IF c.kind \in {"get", "vote"} THEN rows
  ELSE [s \in Strategies |-> [rows[s] EXCEPT !.has_voted = FALSE]]

ServeStrategy(c) ==
  /\ c.answer = "none"
  /\ strategies' = IF Grants(c) /\ c.id # "none"
                   THEN [strategies EXCEPT ![c.id] = StrategyEffect(c, @)] ELSE strategies
  /\ strategyHistory' = [strategyHistory EXCEPT !.served = @ + 1]
  /\ strategyCalls' = (strategyCalls \ {c}) \cup
       {[c EXCEPT !.answer = IF Grants(c) THEN "ok" ELSE "error",
                  !.n = strategyHistory.served + 1, !.rows = Answering(c, strategies')]}
  /\ UNCHANGED <<isAdmin, strategyPage, strategyDialog, strategiesSent, strategyMoves>>

StrategyFails(c) ==
  /\ strategyMoves < MaxStrategyMoves /\ strategyMoves' = strategyMoves + 1
  /\ c.answer \in {"none", "ok"}
  /\ strategyCalls' = (strategyCalls \ {c}) \cup
       {[c EXCEPT !.answer = "error", !.rows = NoStrategies]}
  /\ strategyHistory' = [strategyHistory EXCEPT
       !.astray = @ \/ (c.answer = "ok" /\ c.kind \in StrategyChanges)]
  /\ UNCHANGED <<strategies, isAdmin, strategyPage, strategyDialog, strategiesSent>>

-------------------------------------------------------------------------------
(* The answers                                                             *)

Heard(c) ==
  strategyHistory' = [strategyHistory EXCEPT
    !.astray = @ \/ (/\ c.answer = "ok" /\ c.kind \in StrategyChanges
                     /\ ~c.mine \/ c.n < strategyHistory.seen)
                \/ (c.answer = "error" /\ c.kind = "lists"),
    !.seen = IF c.mine /\ c.n > @ THEN c.n ELSE @]

Done(c) == strategyCalls' = strategyCalls \ {c} /\ UNCHANGED strategiesSent

\* A user that cannot be told is no admin.
UserAnswered(c) ==
  /\ c.kind = "user"
  /\ IF c.mine THEN /\ strategyPage' = [strategyPage EXCEPT !.known = c.answer = "ok"]
                    /\ SendStrategy("lists", "none", NoTitle, strategyCalls \ {c})
     ELSE Done(c) /\ UNCHANGED strategyPage

\* loadStrategies; the queue is asked for by an admin, and is empty when it cannot be had.
ListsLoaded(c) ==
  /\ c.kind = "lists" /\ Done(c)
  /\ IF c.mine
     THEN \E queue \in {{}, {s \in Strategies : c.rows[s].publication_status = "pending_review"}} :
            /\ queue # {} => isAdmin /\ strategyPage.known /\ c.answer = "ok"
            /\ strategyPage' = [strategyPage EXCEPT !.loading = FALSE,
                 !.strategies = [s \in Strategies |-> IF s \in MyStrategies THEN c.rows[s]
                                                     ELSE NoStrategy],
                 !.adminPendingStrategies = queue]
     ELSE UNCHANGED strategyPage

StrategyLoaded(c) ==
  /\ c.kind = "get"
  /\ \/ /\ c.answer = "ok" /\ Done(c)
        /\ strategyPage' = IF c.mine
             THEN ResetMetadataDrafts([strategyPage EXCEPT !.strategies[c.id] = c.rows[c.id],
                                                           !.loading = FALSE])
             ELSE strategyPage
     \/ c.answer = "error" /\ ToElsewhere(strategyCalls \ {c})

\* Mutant: a strategy that is reviewed stays in the queue.
ShownInQueue(c) ==
  LET replaced == [strategyPage EXCEPT !.strategies[c.id] = c.rows[c.id]]
  IN CASE strategyPage.view = "list" /\ c.kind \in {"approve", "reject"} -> replaced
       [] c.kind = "vote" ->
            [strategyPage EXCEPT !.strategies[c.id].has_voted = c.rows[c.id].has_voted]
       [] c.kind = "update" ->
            ResetMetadataDrafts([replaced EXCEPT !.saving = FALSE, !.editing = FALSE])
       [] strategyPage.view # "list" /\ c.kind \in {"approve", "reject"} ->
            [replaced EXCEPT !.reviewing = FALSE]
       [] OTHER -> replaced

\* What the page makes of an answer that is its own.
AnswerShown(c) ==
  LET page == strategyPage
      row == c.rows[c.id]
      replaced == [page EXCEPT !.strategies[c.id] = row]
  IN CASE page.view = "list" /\ c.kind = "delete" ->
            [replaced EXCEPT !.adminPendingStrategies = @ \ {c.id}]
       [] page.view = "list" /\ c.kind \in {"approve", "reject"} ->
            [page EXCEPT !.adminPendingStrategies = @ \ {c.id},
               !.strategies[c.id] = IF ShownStatus(c.id) = "deleted" THEN @ ELSE row]
       [] c.kind = "vote" -> [page EXCEPT !.strategies[c.id].has_voted = row.has_voted]
       [] c.kind = "update" ->
            ResetMetadataDrafts([replaced EXCEPT !.saving = FALSE, !.editing = FALSE])
       [] page.view # "list" /\ c.kind \in {"approve", "reject"} ->
            [replaced EXCEPT !.reviewing = FALSE]
       [] OTHER -> replaced

ChangeAnswered(c) ==
  /\ c.kind \in StrategyChanges
  /\ IF c.answer = "ok" /\ c.kind = "delete" /\ c.from = "detail"
     THEN ToStrategies(TRUE, strategyCalls \ {c})
     ELSE /\ Done(c)
          /\ strategyPage' = IF ~c.mine THEN strategyPage
               ELSE IF c.answer = "ok" THEN AnswerShown(c)
               ELSE [strategyPage EXCEPT !.saving = @ /\ c.kind # "update",
                       !.reviewing = @ /\ c.kind \notin {"approve", "reject"}]

\* The pipeline made of a strategy is navigated to.
Used(c) ==
  /\ c.kind = "use"
  /\ \/ c.answer = "ok" /\ ToElsewhere(strategyCalls \ {c})
     \/ c.answer = "error" /\ Done(c) /\ UNCHANGED strategyPage

-------------------------------------------------------------------------------

StrategiesInit ==
  /\ strategies \in [Strategies ->
       [title : {NoTitle}, publication_status : {"draft", "pending_review", "published"},
        has_voted : {FALSE}]]
  /\ isAdmin \in BOOLEAN
  /\ \E s \in Strategies \cup {"none"} :
       /\ strategyPage = NewPage(IF s = "none" THEN "list" ELSE "detail", s, TRUE)
       /\ strategyCalls = {[kind |-> IF s = "none" THEN "lists" ELSE "get", id |-> s,
                            title |-> NoTitle, sent |-> 1, from |-> strategyPage.view,
                            mine |-> TRUE, answer |-> "none", n |-> 0, rows |-> NoStrategies]}
  /\ strategyDialog = NoQuestion /\ strategiesSent = 1
  /\ strategyMoves = 0 /\ strategyHistory = [served |-> 0, seen |-> 0, astray |-> FALSE]

StrategyUser ==
  \/ VisitStrategies \/ CloseQuestion
  \/ \E s \in Strategies :
       \/ VisitStrategy(s) \/ StartMetadataEdit(s) \/ CancelMetadataEdit(s) \/ SaveMetadata(s)
       \/ \E title \in Titles \cup {Blank} : TypeTitle(s, title)
       \/ \E kind \in {"vote", "submit", "use"} : Press(s, kind)
       \/ \E kind \in {"approve", "reject", "delete"} : AskStrategy(s, kind)

StrategyAnswered(c) ==
  /\ c.answer # "none" /\ Heard(c)
  /\ \/ UserAnswered(c) \/ ListsLoaded(c) \/ StrategyLoaded(c) \/ ChangeAnswered(c) \/ Used(c)
  /\ UNCHANGED <<strategies, isAdmin, strategyDialog, strategyMoves>>

StrategiesNext ==
  \/ StrategyUser
  \/ \E c \in strategyCalls : ServeStrategy(c) \/ StrategyFails(c) \/ StrategyAnswered(c)

StrategiesSpec == StrategiesInit /\ [][StrategiesNext]_strategyVars

-------------------------------------------------------------------------------
(* Properties                                                              *)

\* The types of the pages and the requests.
StrategiesTypeOK ==
  /\ strategies \in StrategyRows /\ isAdmin \in BOOLEAN /\ strategyPage \in StrategyPagesSet
  /\ strategyDialog \in Questions /\ strategyCalls \subseteq StrategyCallSet
  /\ strategiesSent \in 0 .. MaxStrategyCalls /\ strategyMoves \in 0 .. MaxStrategyMoves
  /\ strategyHistory \in [served : 0 .. MaxStrategyCalls, seen : 0 .. MaxStrategyCalls,
                          astray : BOOLEAN]

\* The pages are not loaded again after a change but make it themselves: when nothing is in
\* flight and no answer went astray, they show the titles and the states that are stored, and
\* the queue has only what is waiting for a review.
PagesAreCurrent ==
  strategyCalls = {} /\ ~strategyHistory.astray /\ strategyPage.view # "other"
    /\ ~strategyPage.loading =>
  /\ \A s \in IF strategyPage.view = "list" THEN MyStrategies ELSE {strategyPage.id} :
       /\ strategyPage.strategies[s].title = strategies[s].title
       /\ ShownStatus(s) = strategies[s].publication_status
  /\ \A s \in strategyPage.adminPendingStrategies :
       strategies[s].publication_status = "pending_review"

\* resetMetadataDrafts: while a title is edited, a vote, a submission or a review that is
\* answered meanwhile replaces the strategy but not what was typed.
DraftsAreTyped ==
  [][/\ strategyPage.view = "detail" /\ strategyPage.editing
     /\ strategyPage'.editing /\ strategyPage'.id = strategyPage.id
     => strategyPage'.edited = strategyPage.edited \/ strategyCalls' = strategyCalls]_strategyVars
===============================================================================
