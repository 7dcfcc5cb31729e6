----------------------------- MODULE BuilderProps -----------------------------
(***************************************************************************)
(* What the pipeline builder promises.                                     *)
(***************************************************************************)
EXTENDS Builder

\* The types of the page, of its requests and of the stored pipelines.
BuilderTypeOK ==
  /\ loads \in [{"agents", "brokers", "pipeline"} -> {"none", "asked", "ok", "failed"}]
  /\ routeId \in {NoId} \cup Pipelines /\ currentPipelineId \in {NoId, routeId}
  /\ settings \in Settings /\ signalSubscriptions \in Subscriptions
  /\ brokerTool \in Brokers /\ pipelineBrokerTool \in Brokers
  /\ agentNodes \in [Agents -> Configs] \cup {<<>>}
  /\ selectedItem \in Items /\ editingConfig \in Configs
  /\ saving \in BOOLEAN /\ executing \in BOOLEAN
  /\ saves \subseteq [n : 1 .. MaxEdits, id : {NoId} \cup Pipelines, body : Bodies,
                      page : {"here", "left", "done"}]
  /\ starts \subseteq [n : 1 .. MaxEdits, id : Pipelines, page : {"here", "left"},
                       answered : BOOLEAN]
  /\ pipelines \in [Pipelines -> {NoId} \cup Bodies]
  /\ edits \in 0 .. MaxEdits /\ dirty \in BOOLEAN
  /\ trouble \subseteq {"early", "overlap"}

\* The stored pipeline and the page agree: a list of blocked sessions that is empty
\* loads as the default one, and filters are not shown outside signal mode.
Agree(stored, page) ==
  LET Plain(b) == IF stored.settings.blocked THEN b
                  ELSE [b EXCEPT !.settings.blocked = FALSE,
                                 !.nodes = [a \in Agents |-> [b.nodes[a] EXCEPT !.blocked = FALSE]]]
  IN  /\ Plain(stored).settings = Plain(page).settings
      /\ Plain(stored).nodes = Plain(page).nodes
      /\ stored.broker = page.broker
      /\ stored.settings.trigger = "signal" => stored.subscriptions = page.subscriptions

\* When every save is answered and nothing was edited since, the backend stores what the
\* page shows, the edits that were not applied included: a save takes everything that
\* the page holds in four places, and a page that loads a pipeline shows it as stored.
\* It is said of pages whose first requests were answered before the first save ("early")
\* and whose saves did not overlap: the code guards against neither.
AtRest ==
  /\ trouble = {} /\ ~dirty /\ saves = {}
  /\ Ready /\ currentPipelineId # NoId

SavedIsShown == AtRest => Agree(pipelines[currentPipelineId], Shown)

\* A pipeline that the page calls fully configured is stored with what a run needs: a
\* broker with its keys that the risk and trade managers have too, instructions, and a
\* scanner if signals trigger it.
ReadyIsStored ==
  AtRest /\ GetReadiness =>
    LET stored == pipelines[currentPipelineId]
    IN  /\ stored.broker # NoBroker /\ stored.broker.account
        /\ \A a \in UsesBroker : stored.nodes[a].broker = stored.broker
        /\ \A a \in AgentNeedsInstructions : stored.nodes[a].instructions # NoText
        /\ stored.settings.trigger = "signal" => "scanner" \in stored.settings.options

\* The pipeline's broker is the only one of its risk and trade managers, in what a save
\* sends, whatever the agents' stored or staged configurations hold, and when the list
\* of brokers is not loaded.
OneBroker ==
  \A s \in saves : \A a \in UsesBroker : s.body.nodes[a].broker = s.body.broker

\* What a page that was ready has stored can run, and all that is sent is of one broker.
StoredIsSound == ReadyIsStored /\ OneBroker

\* What a save takes along of each agent is what the page shows of it, edits that were
\* staged and not applied included: flushRightPaneEditsToSelectedNode comes before the
\* configuration is built and before the pane is refilled from the nodes.
Written(c) == <<c.instructions, c.tools, c.skill>>

StagedIsSent ==
  [][\A s \in saves' \ saves : s.page = "here" =>
       \A a \in Agents : Written(s.body.nodes[a]) = Written(Shown.nodes[a])]_builderVars
===============================================================================
