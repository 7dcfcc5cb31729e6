-------------------------------- MODULE Builder --------------------------------
(***************************************************************************)
(* The guided pipeline builder of the web client: a fixed chain of agents, *)
(* a right pane whose edits are staged, pipeline-level settings with one   *)
(* broker, Save, Apply and Run.  Beside the page: the requests it has in   *)
(* flight and the pipelines the backend stores.                            *)
(*                                                                         *)
(* Values are abstract: a text, a tool and a skill are members of small    *)
(* sets, the switches and lists of the settings pane are one set of        *)
(* options.  Dormant code is left out: the detection of tools (the builder *)
(* turns it off and the template has no button for it).                    *)
(***************************************************************************)
EXTENDS Naturals, FiniteSets

CONSTANTS
  Agents,      \* the slots of the chain that the model keeps
  Texts,       \* instructions; NoText is a blank one
  NoText,
  Tools,       \* tools an agent can be given, brokers excluded
  Signals,     \* signal types (with their timeframe)
  Options,     \* switches of the settings pane; the scanner is one of them
  BrokerTypes,
  NoBroker,
  Pipelines,   \* ids of pipelines
  NoId,
  MaxEdits     \* bound on what the user does on the page

ASSUME BuilderAssumption ==
  /\ Agents \subseteq {"bias_agent", "strategy_agent", "risk_manager_agent",
                       "trade_manager_agent"}
  /\ NoText \in Texts /\ Texts # {NoText} /\ BrokerTypes # {}
  /\ NoBroker \notin BrokerTypes /\ NoId \notin Pipelines
  /\ MaxEdits \in Nat

VARIABLES
  \* the page
  loads,            \* its first requests: "none", "asked", "ok", "failed"
  routeId,          \* the id in the route
  currentPipelineId,
  settings, signalSubscriptions,
  brokerTool,       \* what the broker selector and its form hold
  pipelineBrokerTool,
  agentNodes,       \* the configurations by slot; empty before the agents are known
  selectedItem, editingConfig,
  saving, executing,
  \* requests in flight, the backend
  saves, starts,
  pipelines,        \* the stored pipelines
  \* history
  edits,            \* of the user
  dirty,            \* edited since the last save was sent, or that save failed
  trouble           \* what went wrong: see SavedIsShown

pageVars == <<loads, routeId, currentPipelineId, settings, signalSubscriptions,
              brokerTool, pipelineBrokerTool, agentNodes, selectedItem, editingConfig,
              saving, executing>>
remoteVars == <<saves, starts, pipelines>>
builderVars == <<pageVars, remoteVars, edits, dirty, trouble>>

-------------------------------------------------------------------------------
(* The data                                                                *)

UsesBroker == Agents \cap {"risk_manager_agent", "trade_manager_agent"}
AgentNeedsInstructions == Agents \ {"trade_manager_agent"}

Models == {"default", "other"}

\* account: the keys that the broker's schema requires are filled in.
Brokers == {NoBroker} \cup [type : BrokerTypes, account : BOOLEAN]

\* config of a node; blocked: no_entry_sessions, which only the trade manager has.
Configs == [instructions : Texts, tools : SUBSET Tools, broker : Brokers,
            model : Models, skill : {"absent", "on", "off"}, blocked : BOOLEAN]

EmptyConfig == [instructions |-> NoText, tools |-> {}, broker |-> NoBroker,
                model |-> "default", skill |-> "absent", blocked |-> TRUE]

\* blocked: some session is in noEntrySessions.
Settings == [trigger : {"signal", "periodic"}, options : SUBSET Options, blocked : BOOLEAN]

DefaultSettings == [trigger |-> "periodic", options |-> {}, blocked |-> TRUE]

\* Subscriptions: a confidence for some of the signals; none of them: all are accepted.
Subscriptions == UNION {[S -> {"80", "set"}] : S \in SUBSET Signals}
AllSignals == [s \in {} |-> "80"]

Bodies == [settings : Settings, subscriptions : Subscriptions, broker : Brokers,
           nodes : [Agents -> Configs]]

Items == {"pipeline_settings", "signal_filters"} \cup Agents

\* NoId also stands for a pipeline that is not stored.
ASSUME NothingAssumption == NoId \notin Bodies

-------------------------------------------------------------------------------
(* Opening the page                                                        *)

\* A new page on route r; the constructor's values and ngOnInit.
OpenedPage(r) ==
  /\ loads' = [agents |-> "asked", brokers |-> "none", pipeline |-> "none"]
  /\ routeId' = r /\ currentPipelineId' = NoId
  /\ settings' = DefaultSettings /\ signalSubscriptions' = AllSignals
  /\ brokerTool' = NoBroker /\ pipelineBrokerTool' = NoBroker
  /\ agentNodes' = <<>> /\ selectedItem' = "pipeline_settings"
  /\ editingConfig' = EmptyConfig /\ saving' = FALSE /\ executing' = FALSE

AgentsKnown == loads.agents = "ok"

\* The answer of loadAgents: empty nodes, and the other lists are asked for.
AgentsLoaded ==
  /\ loads.agents = "asked"
  /\ loads' = [agents |-> "ok", brokers |-> "asked",
               pipeline |-> IF routeId = NoId THEN "none" ELSE "asked"]
  /\ currentPipelineId' = routeId
  /\ agentNodes' = [a \in Agents |-> EmptyConfig]
  /\ UNCHANGED <<routeId, settings, signalSubscriptions, brokerTool, pipelineBrokerTool,
                 selectedItem, editingConfig, saving, executing, remoteVars, edits,
                 dirty, trouble>>

LoadFails(what) ==
  /\ loads[what] = "asked"
  /\ loads' = [loads EXCEPT ![what] = "failed"]
  /\ UNCHANGED <<routeId, currentPipelineId, settings, signalSubscriptions, brokerTool,
                 pipelineBrokerTool, agentNodes, selectedItem, editingConfig, saving,
                 executing, remoteVars, edits, dirty, trouble>>

BrokerToolsLoaded ==
  /\ loads.brokers = "asked"
  /\ loads' = [loads EXCEPT !.brokers = "ok"]
  /\ UNCHANGED <<routeId, currentPipelineId, settings, signalSubscriptions, brokerTool,
                 pipelineBrokerTool, agentNodes, selectedItem, editingConfig, saving,
                 executing, remoteVars, edits, dirty, trouble>>

\* buildPipelineBrokerTool: nothing while the metadata of the type is not known.
BuildPipelineBrokerTool == IF loads.brokers = "ok" THEN brokerTool ELSE NoBroker

\* enforceBrokerOnAgents: risk and trade manager have this broker, and no other.
EnforceBrokerOnAgents(nodes, broker) ==
  [a \in DOMAIN nodes |->
     IF a \in UsesBroker THEN [nodes[a] EXCEPT !.broker = broker] ELSE nodes[a]]

Either(b, c) == IF b # NoBroker THEN b ELSE c

\* The stored broker, or the one of an agent's tools in a pipeline of an older builder.
BrokerOf(body) ==
  LET OfAgent(a) == IF a \in Agents THEN body.nodes[a].broker ELSE NoBroker
  IN  Either(body.broker,
             Either(OfAgent("trade_manager_agent"), OfAgent("risk_manager_agent")))

\* An empty list of blocked sessions loads as the three default ones.
LoadedSettings(body) == [body.settings EXCEPT !.blocked = TRUE]

\* Mutant: the pane is emptied when the nodes are replaced.
PaneEmptied(nodes, item) == EmptyConfig

\* The staged edits of the selected agent are those of its node.
SelectedConfig(nodes, item) == IF item \in DOMAIN nodes THEN nodes[item] ELSE EmptyConfig

PipelineLoaded ==
  /\ loads.pipeline = "asked"
  /\ loads' = [loads EXCEPT !.pipeline = "ok"]
  /\ LET body == pipelines[routeId]
         loaded == BrokerOf(body)
         tool == Either(loaded, brokerTool)
         built == IF loads.brokers = "ok" THEN tool ELSE NoBroker
         kept == Either(loaded, pipelineBrokerTool)
     IN  /\ settings' = LoadedSettings(body)
         /\ signalSubscriptions' = body.subscriptions
         /\ brokerTool' = tool
         /\ pipelineBrokerTool' = kept
         /\ agentNodes' = EnforceBrokerOnAgents(body.nodes, Either(built, kept))
         /\ editingConfig' = SelectedConfig(agentNodes', selectedItem)
  /\ dirty' = (brokerTool' # pipelines[routeId].broker)
  /\ UNCHANGED <<routeId, currentPipelineId, selectedItem, saving, executing, remoteVars,
                 edits, trouble>>

-------------------------------------------------------------------------------
(* Edits                                                                   *)

Edit == edits < MaxEdits /\ edits' = edits + 1

\* The right pane writes into the staged configuration only.
Stage(config) ==
  /\ selectedItem \in DOMAIN agentNodes /\ Edit
  /\ editingConfig' = config /\ config # editingConfig /\ dirty' = TRUE
  /\ UNCHANGED <<loads, routeId, currentPipelineId, settings, signalSubscriptions,
                 brokerTool, pipelineBrokerTool, agentNodes, selectedItem, saving,
                 executing, remoteVars, trouble>>

OnInstructionsChange ==
  /\ selectedItem \in AgentNeedsInstructions
  /\ \E t \in Texts : Stage([editingConfig EXCEPT !.instructions = t])

OnModelChange ==
  /\ selectedItem \in AgentNeedsInstructions
  /\ \E m \in Models : Stage([editingConfig EXCEPT !.model = m])

\* addTool refuses a tool twice; the selector of a broker agent offers no broker.
AddTool == \E t \in Tools \ editingConfig.tools : Stage([editingConfig EXCEPT !.tools = @ \cup {t}])
RemoveTool == \E t \in editingConfig.tools : Stage([editingConfig EXCEPT !.tools = @ \ {t}])

AddSkill == editingConfig.skill = "absent" /\ Stage([editingConfig EXCEPT !.skill = "on"])
RemoveSkill == editingConfig.skill # "absent" /\ Stage([editingConfig EXCEPT !.skill = "absent"])
ToggleSkillEnabled ==
  /\ editingConfig.skill # "absent"
  /\ Stage([editingConfig EXCEPT !.skill = IF @ = "on" THEN "off" ELSE "on"])

\* Staged edits that were not applied are lost when another item is selected.
SelectItem ==
  /\ Edit
  /\ \E item \in Items \ {selectedItem} :
       /\ selectedItem' = item
       /\ editingConfig' = SelectedConfig(agentNodes, item)
  /\ UNCHANGED <<loads, routeId, currentPipelineId, settings, signalSubscriptions,
                 brokerTool, pipelineBrokerTool, agentNodes, saving, executing,
                 remoteVars, dirty, trouble>>

Toggled(set, x) == IF x \in set THEN set \ {x} ELSE set \cup {x}

\* The settings pane writes at once.
SetSettings(new) ==
  /\ selectedItem = "pipeline_settings" /\ Edit
  /\ settings' = new /\ dirty' = TRUE
  /\ UNCHANGED <<loads, routeId, currentPipelineId, signalSubscriptions, brokerTool,
                 pipelineBrokerTool, agentNodes, selectedItem, editingConfig, saving,
                 executing, remoteVars, trouble>>

SetTrigger == \E t \in {"signal", "periodic"} \ {settings.trigger} :
                SetSettings([settings EXCEPT !.trigger = t])
ToggleOption == \E o \in Options : SetSettings([settings EXCEPT !.options = Toggled(@, o)])
ToggleNoEntrySession == SetSettings([settings EXCEPT !.blocked = ~@])

\* The filters are offered in signal mode only.
Subscribe(new) ==
  /\ selectedItem = "signal_filters" /\ settings.trigger = "signal" /\ Edit
  /\ signalSubscriptions' = new /\ dirty' = TRUE
  /\ UNCHANGED <<loads, routeId, currentPipelineId, settings, brokerTool,
                 pipelineBrokerTool, agentNodes, selectedItem, editingConfig, saving,
                 executing, remoteVars, trouble>>

Subscribed == DOMAIN signalSubscriptions

ToggleSignalSubscription ==
  \E s \in Signals :
    Subscribe([x \in Toggled(Subscribed, s) |->
                 IF x \in Subscribed THEN signalSubscriptions[x] ELSE "80"])
UpdateSubscriptionConfidence ==
  \E s \in Subscribed : Subscribe([signalSubscriptions EXCEPT ![s] = "set"])
ApplyBulkSelectedMinConfidence ==
  Subscribed # {} /\ Subscribe([s \in Subscribed |-> "set"])
ClearAllSignalSubscriptions == Subscribed # {} /\ Subscribe(AllSignals)

\* The broker selector and its form: built, and given to the two agents, at once.
SetBroker(new) ==
  /\ selectedItem = "pipeline_settings" /\ loads.brokers = "ok" /\ Edit
  /\ brokerTool' = new /\ pipelineBrokerTool' = new /\ dirty' = TRUE
  /\ agentNodes' = EnforceBrokerOnAgents(agentNodes, new)
  /\ UNCHANGED <<loads, routeId, currentPipelineId, settings, signalSubscriptions,
                 selectedItem, editingConfig, saving, executing, remoteVars, trouble>>

OnBrokerToolTypeChange == \E t \in BrokerTypes : SetBroker([type |-> t, account |-> FALSE])
OnBrokerConfigChange ==
  brokerTool # NoBroker /\ SetBroker([brokerTool EXCEPT !.account = ~@])

-------------------------------------------------------------------------------
(* Save                                                                    *)

\* flushRightPaneEditsToSelectedNode
Flushed ==
  IF selectedItem \in DOMAIN agentNodes
    THEN [agentNodes EXCEPT ![selectedItem] = editingConfig] ELSE agentNodes

\* syncTradeManagerExecutionPolicyConfig
WithPolicy(nodes) ==
  [a \in DOMAIN nodes |-> IF a = "trade_manager_agent"
                            THEN [nodes[a] EXCEPT !.blocked = settings.blocked] ELSE nodes[a]]

\* What the page shows, whether it is applied or not.
Shown == [settings |-> settings, subscriptions |-> signalSubscriptions,
          broker |-> brokerTool, nodes |-> WithPolicy(Flushed)]

Ready == AgentsKnown /\ loads.brokers = "ok" /\ loads.pipeline \in {"none", "ok"}
Early(T) == IF Ready THEN T ELSE T \cup {"early"}

\* Mutant: a broker counts without its keys.
AnyBroker == Either(BuildPipelineBrokerTool, pipelineBrokerTool) # NoBroker

\* isPipelineBrokerConfigured: the keys its schema requires, if the schema is known.
IsPipelineBrokerConfigured ==
  LET tool == Either(BuildPipelineBrokerTool, pipelineBrokerTool)
  IN  tool # NoBroker /\ (loads.brokers = "ok" => tool.account)

\* "Fully configured": staged edits are not looked at.
GetReadiness ==
  /\ settings.trigger = "signal" => "scanner" \in settings.options
  /\ \A a \in AgentNeedsInstructions : AgentsKnown /\ agentNodes[a].instructions # NoText
  /\ IsPipelineBrokerConfigured

\* Mutant: only what was applied is sent.
NodesApplied(nodes) == WithPolicy(EnforceBrokerOnAgents(agentNodes, BuildPipelineBrokerTool))

\* Mutant: the agents keep the broker that is in their configuration.
NodesUnenforced(nodes) == WithPolicy(nodes)

\* buildConfigForSave: flushed edits, the pipeline's broker, the execution policy.
NodesForSave(nodes) == WithPolicy(EnforceBrokerOnAgents(nodes, BuildPipelineBrokerTool))

\* savePipeline, with the nodes after the flush.  While the agents are not known it
\* raises after it has set saving.
Send(flushed) ==
  /\ saving' = TRUE
  /\ IF ~AgentsKnown
       THEN UNCHANGED <<pipelineBrokerTool, agentNodes, editingConfig, saves, dirty, trouble>>
       ELSE LET nodes == NodesForSave(flushed)
                body == [settings |-> settings, subscriptions |-> signalSubscriptions,
                         broker |-> BuildPipelineBrokerTool, nodes |-> nodes]
            IN  /\ pipelineBrokerTool' = BuildPipelineBrokerTool
                /\ agentNodes' = nodes
                /\ editingConfig' = SelectedConfig(nodes, selectedItem)
                /\ saves' = saves \cup {[n |-> edits', id |-> currentPipelineId,
                                         body |-> body, page |-> "here"]}
                /\ dirty' = FALSE
                /\ trouble' = Early(trouble) \cup (IF saves = {} THEN {} ELSE {"overlap"})
  /\ UNCHANGED <<loads, routeId, currentPipelineId, settings, signalSubscriptions,
                 brokerTool, selectedItem, executing, starts, pipelines>>

SavePipeline == ~saving /\ Edit /\ Send(Flushed)

\* Apply stages nothing for the settings, which are written at once; it saves a
\* pipeline that has an id, while another save may be in flight.
ApplyRightPaneChanges ==
  /\ Edit
  /\ \/ currentPipelineId # NoId /\ Send(Flushed)
     \/ /\ currentPipelineId = NoId /\ selectedItem \in DOMAIN agentNodes
        /\ agentNodes' = EnforceBrokerOnAgents(Flushed,
                                               Either(BuildPipelineBrokerTool, pipelineBrokerTool))
        /\ editingConfig' = SelectedConfig(agentNodes', selectedItem)
        /\ UNCHANGED <<loads, routeId, currentPipelineId, settings, signalSubscriptions,
                       brokerTool, pipelineBrokerTool, selectedItem, saving, executing,
                       remoteVars, dirty, trouble>>

\* hasModelConfig
LLMAgents == AgentNeedsInstructions

\* One model for every LLM agent; offered where no agent is selected.
BulkNodes(m) ==
  [a \in DOMAIN agentNodes |->
     IF a \in LLMAgents THEN [agentNodes[a] EXCEPT !.model = m] ELSE agentNodes[a]]

ApplyBulkModelSelection ==
  /\ selectedItem = "pipeline_settings" /\ AgentsKnown /\ Edit
  /\ \E m \in Models :
       \/ currentPipelineId # NoId /\ Send(BulkNodes(m))
       \/ /\ currentPipelineId = NoId
          /\ agentNodes' = BulkNodes(m) /\ dirty' = TRUE
          /\ UNCHANGED <<loads, routeId, currentPipelineId, settings, signalSubscriptions,
                         brokerTool, pipelineBrokerTool, selectedItem, editingConfig,
                         saving, executing, remoteVars, trouble>>

\* The backend: a list of filters is part of the body in signal mode only.
Stored(body, old) ==
  [body EXCEPT !.subscriptions = IF body.settings.trigger = "signal" THEN @ ELSE old]

Exists(p) == pipelines[p] # NoId
Updated(s) ==
  [pipelines EXCEPT ![s.id] = Stored(s.body, pipelines[s.id].subscriptions)]
Created(p, s) == [pipelines EXCEPT ![p] = Stored(s.body, AllSignals)]

\* Requests of a page that is left: a create that is answered, once, and a run still navigate.
Left(S) == {[s EXCEPT !.page = IF @ = "here" THEN "left" ELSE @] : s \in S}
Settled(S) == {[s EXCEPT !.page = "done"] : s \in S}

UpdateAnswered(s) ==
  /\ s.id # NoId
  /\ pipelines' = Updated(s) /\ saves' = saves \ {s}
  /\ saving' = IF s.page = "here" THEN FALSE ELSE saving
  /\ UNCHANGED <<loads, routeId, currentPipelineId, settings, signalSubscriptions,
                 brokerTool, pipelineBrokerTool, agentNodes, selectedItem, editingConfig,
                 executing, starts, edits, dirty, trouble>>

\* The first answer to a create of a page navigates to the route of the pipeline, and
\* that is a new page: what was edited meanwhile is lost.
CreateAnswered(s) ==
  /\ s.id = NoId
  /\ \E p \in Pipelines :
       /\ ~Exists(p) /\ pipelines' = Created(p, s)
       /\ IF s.page = "done"
            THEN /\ saves' = saves \ {s} /\ UNCHANGED <<pageVars, starts, dirty, trouble>>
            ELSE /\ saves' = Settled(saves \ {s}) /\ starts' = Left(starts)
                 /\ OpenedPage(p)
                 /\ dirty' = FALSE /\ UNCHANGED trouble
  /\ UNCHANGED edits

\* An error, before or after the backend has stored it.
SaveFails(s) ==
  /\ saves' = saves \ {s}
  /\ IF s.page = "here" THEN saving' = FALSE /\ dirty' = TRUE ELSE UNCHANGED <<saving, dirty>>
  /\ pipelines' \in {pipelines} \cup (IF s.id = NoId THEN {} ELSE {Updated(s)})
  /\ UNCHANGED <<loads, routeId, currentPipelineId, settings, signalSubscriptions,
                 brokerTool, pipelineBrokerTool, agentNodes, selectedItem, editingConfig,
                 executing, starts, edits, trouble>>

-------------------------------------------------------------------------------
(* Run, and leaving the page                                               *)

\* Without an id, Run saves, whether a save is in flight or not.  With one it takes the
\* staged edits into the nodes, and asks for a run of the stored pipeline.
ExecutePipeline ==
  /\ ~executing /\ Edit
  /\ \/ currentPipelineId = NoId /\ Send(Flushed)
     \/ /\ currentPipelineId # NoId
        /\ pipelineBrokerTool' = BuildPipelineBrokerTool
        /\ agentNodes' = EnforceBrokerOnAgents(Flushed, BuildPipelineBrokerTool)
        /\ editingConfig' = SelectedConfig(agentNodes', selectedItem)
        /\ executing' = TRUE
        /\ starts' = starts \cup {[n |-> edits', id |-> currentPipelineId, page |-> "here",
                                   answered |-> FALSE]}
        /\ trouble' = Early(trouble)
        /\ UNCHANGED <<loads, routeId, currentPipelineId, settings, signalSubscriptions,
                       brokerTool, selectedItem, saving, saves, pipelines, dirty>>

\* The answers to come find another page of the builder, or the same one loaded again.
LeaveFor(r, started) ==
  /\ OpenedPage(r)
  /\ saves' = Left(saves) /\ starts' = Left(started) /\ dirty' = FALSE
  /\ trouble' = IF saves = {} THEN {} ELSE {"overlap"}
  /\ UNCHANGED pipelines

\* Run is offered again at once, also when the run could not be started.
StartAnswered(x) ==
  /\ ~x.answered
  /\ starts' \in {starts \ {x}, (starts \ {x}) \cup {[x EXCEPT !.answered = TRUE]}}
  /\ executing' = IF x.page = "here" THEN FALSE ELSE executing
  /\ UNCHANGED <<loads, routeId, currentPipelineId, settings, signalSubscriptions,
                 brokerTool, pipelineBrokerTool, agentNodes, selectedItem, editingConfig,
                 saving, saves, pipelines, edits, dirty, trouble>>

\* The page of the run is opened 800 ms later, wherever the user is by then, who comes back
\* to its pipeline.
RunOpened(x) == x.answered /\ LeaveFor(x.id, starts \ {x}) /\ UNCHANGED edits

LeaveAndOpen == Edit /\ \E r \in {NoId} \cup {p \in Pipelines : Exists(p)} :
                          LeaveFor(r, starts)

-------------------------------------------------------------------------------

\* One pipeline is stored: of this builder, or of an older one that has its broker in
\* the trade manager's tools only.
StoredBefore ==
  LET broker == [type |-> CHOOSE t \in BrokerTypes : TRUE, account |-> TRUE]
      Nodes(b) == [a \in Agents |->
                     [EmptyConfig EXCEPT
                        !.broker = IF a = "trade_manager_agent" THEN broker
                                   ELSE IF a \in UsesBroker THEN b ELSE NoBroker,
                        !.instructions = IF a \in AgentNeedsInstructions
                                           THEN CHOOSE t \in Texts : t # NoText ELSE NoText]]
      Body(b) == [settings |-> DefaultSettings,
                  subscriptions |-> [s \in Signals |-> "80"],
                  broker |-> b, nodes |-> Nodes(b)]
  IN  {Body(broker), Body(NoBroker)}

BuilderInit ==
  /\ \E p \in Pipelines : \E body \in StoredBefore :
       /\ pipelines = [q \in Pipelines |-> IF q = p THEN body ELSE NoId]
       /\ routeId \in {NoId, p}
  /\ loads = [agents |-> "asked", brokers |-> "none", pipeline |-> "none"]
  /\ currentPipelineId = NoId
  /\ settings = DefaultSettings /\ signalSubscriptions = AllSignals
  /\ brokerTool = NoBroker /\ pipelineBrokerTool = NoBroker
  /\ agentNodes = <<>> /\ selectedItem = "pipeline_settings"
  /\ editingConfig = EmptyConfig /\ saving = FALSE /\ executing = FALSE
  /\ saves = {} /\ starts = {}
  /\ edits = 0 /\ dirty = FALSE /\ trouble = {}

PageLoads ==
  \/ AgentsLoaded \/ BrokerToolsLoaded \/ PipelineLoaded
  \/ \E what \in {"agents", "brokers", "pipeline"} : LoadFails(what)

SaveAnswers == \E s \in saves : UpdateAnswered(s) \/ CreateAnswered(s) \/ SaveFails(s)
StartAnswers == \E x \in starts : StartAnswered(x) \/ RunOpened(x)

UserEdits ==
  \/ SelectItem \/ OnInstructionsChange \/ OnModelChange \/ AddTool \/ RemoveTool
  \/ AddSkill \/ RemoveSkill \/ ToggleSkillEnabled
  \/ SetTrigger \/ ToggleOption \/ ToggleNoEntrySession
  \/ ToggleSignalSubscription \/ UpdateSubscriptionConfidence
  \/ ApplyBulkSelectedMinConfidence \/ ClearAllSignalSubscriptions
  \/ OnBrokerToolTypeChange \/ OnBrokerConfigChange
  \/ SavePipeline \/ ApplyRightPaneChanges \/ ApplyBulkModelSelection
  \/ ExecutePipeline \/ LeaveAndOpen

BuilderNext == PageLoads \/ SaveAnswers \/ StartAnswers \/ UserEdits

BuilderSpec == BuilderInit /\ [][BuilderNext]_builderVars
===============================================================================
