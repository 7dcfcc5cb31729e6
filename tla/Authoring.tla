------------------------------- MODULE Authoring -------------------------------
(***************************************************************************)
(* The pages of the web client on which a user prepares what trades: the   *)
(* builder, the lists of pipelines and scanners, the strategies and the    *)
(* settings.                                                               *)
(*                                                                         *)
(* The pages share the router and the server but no state, and only one    *)
(* of them is open: a behaviour is one page's, and the others rest as they *)
(* would be opened.  The states of all pages are thus those of each one    *)
(* added up, not multiplied.                                               *)
(***************************************************************************)
EXTENDS BuilderProps, PipelinesPage, ScannersPage, StrategyPages, Settings

VARIABLE authoringPage  \* the page that is open

AuthoringRoutes == {"builder", "pipelines", "scanners", "strategies", "settings"}

\* One of the pipelines that the builder may find stored.
SomePipeline ==
  LET p == CHOOSE p \in Pipelines : TRUE
  IN [q \in Pipelines |-> IF q = p THEN CHOOSE b \in StoredBefore : TRUE ELSE NoId]

\* Every page starts as its module says, and in one way only while another one is open.
AuthoringInit ==
  /\ authoringPage \in AuthoringRoutes
  /\ BuilderInit
  /\ authoringPage # "builder" => routeId = NoId /\ pipelines = SomePipeline
  /\ PipelinesInit
  /\ authoringPage # "pipelines" => pipelineRows[1] = "active"
  /\ ScannersInit
  /\ authoringPage # "scanners" => scanners[1].tickers = Tickers
  /\ StrategiesInit
  /\ authoringPage # "strategies" =>
       /\ ~isAdmin /\ strategyPage.view = "list"
       /\ \A s \in Strategies : strategies[s].publication_status = "draft"
  /\ SettingsInit
  /\ authoringPage # "settings" =>
       user = NoUser /\ account.chat = "none" /\ settingsPage.section = "profile"

AuthoringNext ==
  \/ /\ authoringPage = "builder" /\ BuilderNext
     /\ UNCHANGED <<authoringPage, pipelineVars, scannerVars, strategyVars, settingsVars>>
  \/ /\ authoringPage = "pipelines" /\ PipelinesNext
     /\ UNCHANGED <<authoringPage, builderVars, scannerVars, strategyVars, settingsVars>>
  \/ /\ authoringPage = "scanners" /\ ScannersNext
     /\ UNCHANGED <<authoringPage, builderVars, pipelineVars, strategyVars, settingsVars>>
  \/ /\ authoringPage = "strategies" /\ StrategiesNext
     /\ UNCHANGED <<authoringPage, builderVars, pipelineVars, scannerVars, settingsVars>>
  \/ /\ authoringPage = "settings" /\ SettingsNext
     /\ UNCHANGED <<authoringPage, builderVars, pipelineVars, scannerVars, strategyVars>>

authoringVars ==
  <<authoringPage, builderVars, pipelineVars, scannerVars, strategyVars, settingsVars>>

AuthoringSpec == AuthoringInit /\ [][AuthoringNext]_authoringVars

-------------------------------------------------------------------------------
(* Properties                                                              *)

\* The types of all the pages.
AuthoringTypeOK ==
  /\ authoringPage \in AuthoringRoutes
  /\ BuilderTypeOK /\ PipelinesTypeOK /\ ScannersTypeOK /\ StrategiesTypeOK /\ SettingsTypeOK

\* What the pages show is what is stored when nothing is in flight, each in its way: the list
\* of pipelines loads itself again after a change (loadPipelines), that of scanners is changed
\* under its filter (applyClientFilter), a strategy is changed where it is shown (toggleVote,
\* submitForReview, reviewStrategy), and the SMS consent takes what the server answers.
ShownIsStored == RegistryIsCurrent /\ ListIsFiltered /\ PagesAreCurrent /\ ConsentIsCurrent

\* What a user is typing is not replaced by an answer that comes meanwhile: the title of a
\* strategy (resetMetadataDrafts) and the own name (editNameValue); and a save of the builder
\* sends the edits of an agent that were not applied before it refills the pane.
TypingIsKept == DraftsAreTyped /\ TypedNameStays /\ StagedIsSent
===============================================================================
