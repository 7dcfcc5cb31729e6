----------------------------- MODULE BuilderProofs -----------------------------
(***************************************************************************)
(* Proofs about the pipeline builder: its types, that a save takes what is *)
(* staged, that a page at rest shows what is stored, and that what it      *)
(* calls fully configured is stored with what a run needs.                 *)
(*                                                                         *)
(* SavedIsShown is not inductive: it says nothing of a page with a save on *)
(* its way.  BuilderInv follows what such a page shows, and rests on what  *)
(* the flush, the enforced broker and the execution policy leave of the    *)
(* nodes (SentIs), on what the backend makes of a body (BodyIs), and on    *)
(* that without overlap there is one save, of this page.                   *)
(***************************************************************************)
EXTENDS BuilderProps, TLAPS

\* What a save sends: the pipeline's broker for the agents that trade, and the blocked sessions
\* of the settings for the trade manager.
Synced(body) ==
  \A a \in Agents \cap {"trade_manager_agent"} : body.nodes[a].blocked = body.settings.blocked
OfOneBroker(body) == \A a \in UsesBroker : body.nodes[a].broker = body.broker

SentInv == \A s \in saves : Synced(s.body) /\ OfOneBroker(s.body)

\* What is stored is what was sent, or stems from an older builder: then its broker is none.
StoredInv ==
  \A p \in Pipelines : pipelines[p] \in Bodies =>
    Synced(pipelines[p]) /\ (pipelines[p].broker # NoBroker => OfOneBroker(pipelines[p]))

\* Who is asked for is there.
Stands(id) == id # NoId => pipelines[id] \in Bodies
StandsInv ==
  /\ Stands(routeId)
  /\ \A s \in saves : Stands(s.id)
  /\ \A x \in starts : Stands(x.id)

\* The page knows its pipeline when it knows the agents.
LoadsInv ==
  IF AgentsKnown
    THEN /\ agentNodes \in [Agents -> Configs] /\ currentPipelineId = routeId
         /\ routeId # NoId <=> loads.pipeline # "none"
    ELSE /\ agentNodes = <<>> /\ currentPipelineId = NoId
         /\ loads.pipeline = "none" /\ loads.brokers = "none"

BrokerInv == pipelineBrokerTool \in {brokerTool, NoBroker}

\* A save of this page is of its pipeline; without trouble there is one at a time, and the
\* page was ready when it was sent.
SavesInv ==
  /\ \A s \in saves : s.page = "here" => AgentsKnown /\ s.id = currentPipelineId
  /\ trouble = {} =>
       /\ \A s \in saves : s.page = "here" /\ Ready
       /\ \A s, t \in saves : s = t

\* A page without edits: nothing is staged, the agents have the broker of the selector, and
\* what it shows is stored, or on its way there.
Quiet == trouble = {} /\ ~dirty /\ currentPipelineId # NoId /\ loads.pipeline = "ok"
Unstaged == selectedItem \in Agents => editingConfig = agentNodes[selectedItem]
QuietInv ==
  Quiet =>
    /\ Unstaged
    /\ \A a \in UsesBroker : agentNodes[a].broker = brokerTool
    /\ saves = {} => Agree(pipelines[currentPipelineId], Shown)
    /\ \A s \in saves : Agree(s.body, Shown)

-------------------------------------------------------------------------------
(* The data                                                                *)

Nodes == [Agents -> Configs]

LEMMA ConfigIs ==
  ASSUME BuilderAssumption, NEW c \in Configs
  PROVE  /\ \A b \in Brokers : [c EXCEPT !.broker = b] \in Configs
         /\ \A b \in BOOLEAN : [c EXCEPT !.blocked = b] \in Configs
         /\ \A m \in Models : [c EXCEPT !.model = m] \in Configs
         /\ \A t \in Texts : [c EXCEPT !.instructions = t] \in Configs
         /\ \A t \in Tools : /\ [c EXCEPT !.tools = @ \cup {t}] \in Configs
                             /\ [c EXCEPT !.tools = @ \ {t}] \in Configs
         /\ \A s \in {"absent", "on", "off"} : [c EXCEPT !.skill = s] \in Configs
         /\ c.broker \in Brokers /\ c.blocked \in BOOLEAN
BY DEF Configs

LEMMA SameConfig ==
  ASSUME NEW c \in Configs
  PROVE  [c EXCEPT !.broker = c.broker] = c /\ [c EXCEPT !.blocked = c.blocked] = c
BY DEF Configs

LEMMA PolicedConfig ==
  ASSUME NEW c \in Configs, NEW b \in BOOLEAN
  PROVE  LET new == [c EXCEPT !.blocked = b]
         IN  new.broker = c.broker /\ Written(new) = Written(c) /\ new.blocked = b
BY DEF Configs, Written

LEMMA SameNodes ==
  ASSUME NEW x \in Nodes, NEW y \in Nodes, \A a \in Agents : x[a] = y[a]
  PROVE  x = y
BY DEF Nodes

LEMMA SubscriptionsAre ==
  \A x : x \in Subscriptions <=> \E S \in SUBSET Signals : x \in [S -> {"80", "set"}]
BY DEF Subscriptions

LEMMA ConstantsAre ==
  ASSUME BuilderAssumption
  PROVE  /\ EmptyConfig \in Configs /\ DefaultSettings \in Settings /\ AllSignals \in Subscriptions
         /\ NoBroker \in Brokers /\ UsesBroker \subseteq Agents
         /\ "pipeline_settings" \notin Agents /\ "signal_filters" \notin Agents
<1>1. EmptyConfig \in Configs
  BY DEF EmptyConfig, Configs, Brokers, Models, BuilderAssumption
<1>2. DefaultSettings \in Settings
  BY DEF DefaultSettings, Settings
<1>3. AllSignals \in Subscriptions
  <2>1. AllSignals \in [{} -> {"80", "set"}]
    BY DEF AllSignals
  <2> QED
    BY <2>1, SubscriptionsAre
<1> QED
  BY <1>1, <1>2, <1>3 DEF UsesBroker, Brokers, BuilderAssumption

\* What enforcing the broker does to the nodes, and what it leaves.
LEMMA EnforcedIs ==
  ASSUME BuilderAssumption, NEW nodes \in Nodes, NEW b \in Brokers
  PROVE  LET new == EnforceBrokerOnAgents(nodes, b)
         IN  /\ new \in Nodes
             /\ \A a \in UsesBroker : new[a].broker = b
             /\ \A a \in Agents : /\ new[a].blocked = nodes[a].blocked
                                  /\ Written(new[a]) = Written(nodes[a])
             /\ (\A a \in UsesBroker : nodes[a].broker = b) => new = nodes
<1> DEFINE new == EnforceBrokerOnAgents(nodes, b)
<1>0. new = [a \in Agents |-> IF a \in UsesBroker THEN [nodes[a] EXCEPT !.broker = b]
                              ELSE nodes[a]]
  BY DEF EnforceBrokerOnAgents, Nodes
<1> HIDE DEF new
<1>1. \A a \in Agents : new[a] = IF a \in UsesBroker THEN [nodes[a] EXCEPT !.broker = b]
                                 ELSE nodes[a]
  BY <1>0
<1>2. \A a \in Agents : nodes[a] \in Configs /\ new[a] \in Configs
  <2> TAKE a \in Agents
  <2>1. nodes[a] \in Configs
    BY DEF Nodes
  <2>2. [nodes[a] EXCEPT !.broker = b] \in Configs
    BY <2>1, ConfigIs
  <2> QED
    BY <1>1, <2>1, <2>2
<1>3. new \in Nodes
  BY <1>0, <1>2 DEF Nodes
<1>4. \A a \in Agents : /\ new[a].blocked = nodes[a].blocked
                        /\ Written(new[a]) = Written(nodes[a])
                        /\ a \in UsesBroker => new[a].broker = b
  BY <1>1, <1>2 DEF Configs, Written
<1>5. ASSUME \A a \in UsesBroker : nodes[a].broker = b PROVE new = nodes
  <2>1. \A a \in Agents : new[a] = nodes[a]
    BY <1>1, <1>2, <1>5, SameConfig
  <2> QED
    BY <2>1, <1>3, SameNodes
<1> QED
  BY <1>3, <1>4, <1>5, ConstantsAre DEF new

\* What the policy of the settings does to the nodes, and what it leaves.
LEMMA PolicyIs ==
  ASSUME BuilderAssumption, settings \in Settings, NEW nodes \in Nodes
  PROVE  LET new == WithPolicy(nodes)
         IN  /\ new \in Nodes
             /\ \A a \in Agents : /\ new[a].broker = nodes[a].broker
                                  /\ Written(new[a]) = Written(nodes[a])
                                  /\ a = "trade_manager_agent" => new[a].blocked = settings.blocked
             /\ (\A a \in Agents : a = "trade_manager_agent" => nodes[a].blocked = settings.blocked)
                  => new = nodes
<1> DEFINE new == WithPolicy(nodes)
<1>0. new = [a \in Agents |-> IF a = "trade_manager_agent"
                                THEN [nodes[a] EXCEPT !.blocked = settings.blocked]
                                ELSE nodes[a]]
  BY DEF WithPolicy, Nodes
<1> HIDE DEF new
<1>1. \A a \in Agents : new[a] = IF a = "trade_manager_agent"
                                   THEN [nodes[a] EXCEPT !.blocked = settings.blocked]
                                   ELSE nodes[a]
  BY <1>0
<1>2. settings.blocked \in BOOLEAN
  BY DEF Settings
<1>3. \A a \in Agents : nodes[a] \in Configs /\ new[a] \in Configs
  <2> TAKE a \in Agents
  <2>1. nodes[a] \in Configs
    BY DEF Nodes
  <2>2. [nodes[a] EXCEPT !.blocked = settings.blocked] \in Configs
    BY <1>2, <2>1, ConfigIs
  <2> QED
    BY <1>1, <2>1, <2>2
<1>4. new \in Nodes
  BY <1>0, <1>3 DEF Nodes
<1>5. \A a \in Agents : /\ new[a].broker = nodes[a].broker
                        /\ Written(new[a]) = Written(nodes[a])
                        /\ a = "trade_manager_agent" => new[a].blocked = settings.blocked
  <2> TAKE a \in Agents
  <2>1. CASE a = "trade_manager_agent"
    <3>1. new[a] = [nodes[a] EXCEPT !.blocked = settings.blocked]
      BY <1>1, <2>1
    <3>2. nodes[a] \in Configs
      BY <1>3
    <3> QED
      BY <1>2, <3>1, <3>2, PolicedConfig
  <2>2. CASE a # "trade_manager_agent"
    BY <1>1, <2>2
  <2> QED
    BY <2>1, <2>2
<1>6. ASSUME \A a \in Agents : a = "trade_manager_agent" => nodes[a].blocked = settings.blocked
      PROVE  new = nodes
  <2>1. \A a \in Agents : new[a] = nodes[a]
    BY <1>1, <1>3, <1>6, SameConfig
  <2> QED
    BY <2>1, <1>4, SameNodes
<1> QED
  BY <1>4, <1>5, <1>6 DEF new

\* What a save sends of nodes: they are the nodes afterwards.
LEMMA SentIs ==
  ASSUME BuilderAssumption, settings \in Settings, brokerTool \in Brokers, NEW nodes \in Nodes
  PROVE  LET new == NodesForSave(nodes)
         IN  /\ new \in Nodes /\ BuildPipelineBrokerTool \in Brokers
             /\ \A a \in UsesBroker : new[a].broker = BuildPipelineBrokerTool
             /\ \A a \in Agents : /\ Written(new[a]) = Written(nodes[a])
                                  /\ a = "trade_manager_agent" => new[a].blocked = settings.blocked
             /\ WithPolicy(new) = new
<1>1. BuildPipelineBrokerTool \in Brokers
  BY ConstantsAre DEF BuildPipelineBrokerTool
<1> DEFINE enforced == EnforceBrokerOnAgents(nodes, BuildPipelineBrokerTool)
           new == WithPolicy(enforced)
<1>2. /\ enforced \in Nodes
      /\ \A a \in UsesBroker : enforced[a].broker = BuildPipelineBrokerTool
      /\ \A a \in Agents : Written(enforced[a]) = Written(nodes[a])
  BY <1>1, EnforcedIs
<1> HIDE DEF enforced
<1>3. /\ new \in Nodes
      /\ \A a \in Agents : /\ new[a].broker = enforced[a].broker
                           /\ Written(new[a]) = Written(enforced[a])
                           /\ a = "trade_manager_agent" => new[a].blocked = settings.blocked
  BY <1>2, PolicyIs
<1> HIDE DEF new
<1>4. WithPolicy(new) = new
  BY <1>3, PolicyIs
<1>5. NodesForSave(nodes) = new
  BY DEF NodesForSave, new, enforced
<1>6. UsesBroker \subseteq Agents
  BY ConstantsAre
<1> QED
  BY <1>1, <1>2, <1>3, <1>4, <1>5, <1>6

LEMMA BodyIs ==
  ASSUME NEW b \in Bodies, NEW old \in Subscriptions
  PROVE  /\ Stored(b, old) \in Bodies /\ Stored(b, old).nodes = b.nodes
         /\ Stored(b, old).settings = b.settings /\ Stored(b, old).broker = b.broker
         /\ b.settings.trigger = "signal" => Stored(b, old).subscriptions = b.subscriptions
BY DEF Stored, Bodies

-------------------------------------------------------------------------------
(* Types                                                                   *)

\* The types, and what they rest on: the nodes are there when the agents are, and a pipeline
\* that is asked for is there.
TypeInv == BuilderTypeOK /\ LoadsInv /\ StandsInv

LEMMA FlushedIs ==
  ASSUME BuilderAssumption, TypeInv, AgentsKnown
  PROVE  /\ agentNodes \in Nodes /\ Flushed \in Nodes
         /\ Unstaged => Flushed = agentNodes
         /\ \A item : item \in DOMAIN agentNodes <=> item \in Agents
<1>1. agentNodes \in Nodes /\ editingConfig \in Configs
  BY DEF TypeInv, BuilderTypeOK, LoadsInv, Nodes
<1>2. Flushed \in Nodes
  BY <1>1 DEF Flushed, Nodes
<1>3. ASSUME Unstaged PROVE Flushed = agentNodes
  BY <1>1, <1>3 DEF Unstaged, Flushed, Nodes
<1>4. \A item : item \in DOMAIN agentNodes <=> item \in Agents
  BY <1>1 DEF Nodes
<1> QED
  BY <1>1, <1>2, <1>3, <1>4

LEMMA SelectedIs ==
  ASSUME BuilderAssumption, NEW nodes \in Nodes \cup {<<>>}, NEW item
  PROVE  /\ SelectedConfig(nodes, item) \in Configs
         /\ nodes \in Nodes /\ item \in Agents => SelectedConfig(nodes, item) = nodes[item]
<1>1. CASE nodes \in Nodes
  <2>1. DOMAIN nodes = Agents /\ \A a \in Agents : nodes[a] \in Configs
    BY <1>1 DEF Nodes
  <2> QED
    BY <2>1, ConstantsAre DEF SelectedConfig
<1>2. CASE nodes = <<>>
  <2>1. DOMAIN nodes = {}
    BY <1>2
  <2>2. SelectedConfig(nodes, item) = EmptyConfig
    BY <2>1 DEF SelectedConfig
  <2>3. nodes \in Nodes => Agents = {}
    BY <2>1 DEF Nodes
  <2> QED
    BY <2>2, <2>3, ConstantsAre
<1> QED
  BY <1>1, <1>2

LEMMA BulkIs ==
  ASSUME BuilderAssumption, agentNodes \in Nodes, NEW m \in Models
  PROVE  /\ BulkNodes(m) \in Nodes
         /\ \A a \in Agents : Written(BulkNodes(m)[a]) = Written(agentNodes[a])
<1> DEFINE new == BulkNodes(m)
<1>0. new = [a \in Agents |-> IF a \in LLMAgents THEN [agentNodes[a] EXCEPT !.model = m]
                              ELSE agentNodes[a]]
  BY DEF BulkNodes, Nodes
<1> HIDE DEF new
<1>1. \A a \in Agents : new[a] = IF a \in LLMAgents THEN [agentNodes[a] EXCEPT !.model = m]
                                 ELSE agentNodes[a]
  BY <1>0
<1>2. \A c \in Configs : /\ [c EXCEPT !.model = m] \in Configs
                         /\ Written([c EXCEPT !.model = m]) = Written(c)
  BY DEF Configs, Written
<1>3. \A a \in Agents : agentNodes[a] \in Configs
  BY DEF Nodes
<1>4. \A a \in Agents : new[a] \in Configs /\ Written(new[a]) = Written(agentNodes[a])
  BY <1>1, <1>2, <1>3
<1>5. new \in Nodes
  BY <1>0, <1>4 DEF Nodes
<1> QED
  BY <1>4, <1>5 DEF new

\* A save with these nodes, and what it sends of them.
Sends(nodes) ==
  /\ Edit /\ Send(nodes)
  /\ AgentsKnown => /\ nodes \in Nodes
                    /\ \A a \in Agents : Written(nodes[a]) = Written(Flushed[a])

\* Beside the saves there are five ways of editing the page, and four that do more.
LEMMA UserSteps ==
  ASSUME BuilderAssumption, TypeInv, UserEdits
  PROVE  \/ \E c \in Configs : Stage(c)
         \/ \E s \in Settings : SetSettings(s)
         \/ \E s \in Subscriptions : Subscribe(s)
         \/ \E b \in Brokers : SetBroker(b)
         \/ SelectItem \/ LeaveAndOpen
         \/ \E nodes : Sends(nodes)
         \/ ApplyRightPaneChanges /\ currentPipelineId = NoId
         \/ ApplyBulkModelSelection /\ currentPipelineId = NoId
         \/ ExecutePipeline /\ currentPipelineId # NoId
<1>1. editingConfig \in Configs /\ settings \in Settings /\ signalSubscriptions \in Subscriptions
      /\ brokerTool \in Brokers
  BY DEF TypeInv, BuilderTypeOK
<1>2. CASE OnInstructionsChange \/ OnModelChange \/ AddTool \/ RemoveTool \/ AddSkill
           \/ RemoveSkill \/ ToggleSkillEnabled
  <2>1. CASE OnInstructionsChange
    <3>1. PICK t \in Texts : Stage([editingConfig EXCEPT !.instructions = t])
      BY <2>1 DEF OnInstructionsChange
    <3> QED
      BY <1>1, <3>1, ConfigIs
  <2>2. CASE OnModelChange
    <3>1. PICK m \in Models : Stage([editingConfig EXCEPT !.model = m])
      BY <2>2 DEF OnModelChange
    <3> QED
      BY <1>1, <3>1, ConfigIs
  <2>3. CASE AddTool
    <3>1. PICK t \in Tools : Stage([editingConfig EXCEPT !.tools = @ \cup {t}])
      BY <2>3 DEF AddTool
    <3> QED
      BY <1>1, <3>1, ConfigIs
  <2>4. CASE RemoveTool
    <3>1. PICK t \in editingConfig.tools : Stage([editingConfig EXCEPT !.tools = @ \ {t}])
      BY <2>4 DEF RemoveTool
    <3>2. t \in Tools
      BY <1>1 DEF Configs
    <3> QED
      BY <1>1, <3>1, <3>2, ConfigIs
  <2>5. CASE AddSkill \/ RemoveSkill \/ ToggleSkillEnabled
    <3>1. PICK s \in {"absent", "on", "off"} : Stage([editingConfig EXCEPT !.skill = s])
      BY <2>5 DEF AddSkill, RemoveSkill, ToggleSkillEnabled
    <3> QED
      BY <1>1, <3>1, ConfigIs
  <2> QED
    BY <1>2, <2>1, <2>2, <2>3, <2>4, <2>5
<1>3. CASE SetTrigger \/ ToggleOption \/ ToggleNoEntrySession
  BY <1>1, <1>3 DEF SetTrigger, ToggleOption, ToggleNoEntrySession, Settings, Toggled
<1>4. CASE ToggleSignalSubscription \/ UpdateSubscriptionConfidence
           \/ ApplyBulkSelectedMinConfidence \/ ClearAllSignalSubscriptions
  <2>0. PICK S \in SUBSET Signals : signalSubscriptions \in [S -> {"80", "set"}]
    BY <1>1, SubscriptionsAre
  <2>1. CASE ToggleSignalSubscription
    <3>1. PICK s \in Signals :
            Subscribe([x \in Toggled(Subscribed, s) |->
                         IF x \in Subscribed THEN signalSubscriptions[x] ELSE "80"])
      BY <2>1 DEF ToggleSignalSubscription
    <3> DEFINE new == [x \in Toggled(Subscribed, s) |->
                         IF x \in Subscribed THEN signalSubscriptions[x] ELSE "80"]
    <3>2. Subscribed = S /\ Toggled(S, s) \in SUBSET Signals
      BY <2>0 DEF Subscribed, Toggled
    <3>3. new \in [Toggled(S, s) -> {"80", "set"}]
      BY <2>0, <3>2
    <3>4. new \in Subscriptions
      BY <3>2, <3>3, SubscriptionsAre
    <3> QED
      BY <3>1, <3>4
  <2>2. CASE UpdateSubscriptionConfidence
    <3>1. PICK s \in S : Subscribe([signalSubscriptions EXCEPT ![s] = "set"])
      BY <2>0, <2>2 DEF UpdateSubscriptionConfidence, Subscribed
    <3>2. [signalSubscriptions EXCEPT ![s] = "set"] \in [S -> {"80", "set"}]
      BY <2>0
    <3> QED
      BY <3>1, <3>2, SubscriptionsAre
  <2>3. CASE ApplyBulkSelectedMinConfidence
    <3>1. Subscribe([s \in S |-> "set"])
      BY <2>0, <2>3 DEF ApplyBulkSelectedMinConfidence, Subscribed
    <3>2. [s \in S |-> "set"] \in [S -> {"80", "set"}]
      OBVIOUS
    <3> QED
      BY <3>1, <3>2, SubscriptionsAre
  <2>4. CASE ClearAllSignalSubscriptions
    BY <2>4, ConstantsAre DEF ClearAllSignalSubscriptions
  <2> QED
    BY <1>4, <2>1, <2>2, <2>3, <2>4
<1>5. CASE OnBrokerToolTypeChange \/ OnBrokerConfigChange
  <2>1. CASE OnBrokerToolTypeChange
    BY <2>1 DEF OnBrokerToolTypeChange, Brokers
  <2>2. CASE OnBrokerConfigChange
    <3>1. brokerTool \in [type : BrokerTypes, account : BOOLEAN]
      BY <1>1, <2>2 DEF OnBrokerConfigChange, Brokers
    <3>2. [brokerTool EXCEPT !.account = ~@] \in Brokers
      BY <3>1 DEF Brokers
    <3> QED
      BY <2>2, <3>2 DEF OnBrokerConfigChange
  <2> QED
    BY <1>5, <2>1, <2>2
<1>6. ASSUME Edit, Send(Flushed) PROVE \E nodes : Sends(nodes)
  BY <1>6, FlushedIs DEF Sends
<1>7. CASE SavePipeline \/ ApplyRightPaneChanges \/ ExecutePipeline
  BY <1>6, <1>7 DEF SavePipeline, ApplyRightPaneChanges, ExecutePipeline
<1>8. CASE ApplyBulkModelSelection
  <2>1. PICK m \in Models : Send(BulkNodes(m)) \/ currentPipelineId = NoId
    BY <1>8 DEF ApplyBulkModelSelection
  <2>2. AgentsKnown /\ Edit /\ selectedItem = "pipeline_settings"
    BY <1>8 DEF ApplyBulkModelSelection
  <2>3. agentNodes \in Nodes /\ Flushed = agentNodes
    BY <2>2, FlushedIs, ConstantsAre DEF Unstaged
  <2>4. CASE Send(BulkNodes(m))
    BY <2>2, <2>3, <2>4, BulkIs DEF Sends
  <2>5. CASE currentPipelineId = NoId
    BY <1>8, <2>5
  <2> QED
    BY <2>1, <2>4, <2>5
<1>9. CASE SelectItem \/ LeaveAndOpen
  BY <1>9
<1> QED
  BY <1>2, <1>3, <1>4, <1>5, <1>7, <1>8, <1>9 DEF UserEdits

\* What the backend stores: nothing that is there goes away.
Grown == \A p \in Pipelines : pipelines[p] \in Bodies => pipelines'[p] \in Bodies
Pages == [Pipelines -> {NoId} \cup Bodies]

LEMMA UpdatedIs ==
  ASSUME TypeInv, NEW s \in saves, s.id # NoId
  PROVE  /\ Updated(s) \in Pages /\ s.id \in Pipelines
         /\ Updated(s)[s.id] = Stored(s.body, pipelines[s.id].subscriptions)
         /\ pipelines[s.id].subscriptions \in Subscriptions
         /\ \A p \in Pipelines : p # s.id => Updated(s)[p] = pipelines[p]
         /\ \A p \in Pipelines : pipelines[p] \in Bodies => Updated(s)[p] \in Bodies
<1>1. s.id \in Pipelines /\ s.body \in Bodies /\ pipelines \in Pages
  BY DEF TypeInv, BuilderTypeOK, Pages
<1>2. pipelines[s.id] \in Bodies
  BY DEF TypeInv, StandsInv, Stands
<1>3. pipelines[s.id].subscriptions \in Subscriptions
  BY <1>2 DEF Bodies
<1>4. Stored(s.body, pipelines[s.id].subscriptions) \in Bodies
  BY <1>1, <1>3, BodyIs
<1> QED
  BY <1>1, <1>3, <1>4 DEF Updated, Pages

LEMMA CreatedIs ==
  ASSUME BuilderAssumption, TypeInv, NEW s \in saves, NEW p \in Pipelines
  PROVE  /\ Created(p, s) \in Pages /\ Created(p, s)[p] = Stored(s.body, AllSignals)
         /\ Created(p, s)[p] \in Bodies
         /\ \A q \in Pipelines : q # p => Created(p, s)[q] = pipelines[q]
<1>1. s.body \in Bodies /\ pipelines \in Pages
  BY DEF TypeInv, BuilderTypeOK, Pages
<1>2. Stored(s.body, AllSignals) \in Bodies
  BY <1>1, BodyIs, ConstantsAre
<1> QED
  BY <1>1, <1>2 DEF Created, Pages

Saves == [n : 1 .. MaxEdits, id : {NoId} \cup Pipelines, body : Bodies,
          page : {"here", "left", "done"}]
Starts == [n : 1 .. MaxEdits, id : Pipelines, page : {"here", "left"}, answered : BOOLEAN]

\* A request that outlives its page is about the same pipeline.
LEMMA LeftIs ==
  /\ \A S \in SUBSET Saves :
       /\ Left(S) \subseteq Saves /\ Settled(S) \subseteq Saves
       /\ \A s \in Left(S) \cup Settled(S) : \E t \in S : s.id = t.id /\ s.body = t.body
       /\ \A s \in Left(S) \cup Settled(S) : s.page # "here"
  /\ \A S \in SUBSET Starts :
       Left(S) \subseteq Starts /\ \A s \in Left(S) : \E t \in S : s.id = t.id
<1>1. ASSUME NEW S \in SUBSET Saves, NEW s \in Left(S) \cup Settled(S)
      PROVE  s \in Saves /\ s.page # "here" /\ \E t \in S : s.id = t.id /\ s.body = t.body
  <2>1. PICK t \in S, g \in {"left", "done"} : s = [t EXCEPT !.page = g]
    <3>1. CASE s \in Settled(S)
      BY <3>1 DEF Settled
    <3>2. CASE s \in Left(S)
      <4>1. PICK t \in S : s = [t EXCEPT !.page = IF @ = "here" THEN "left" ELSE @]
        BY <3>2 DEF Left
      <4>2. t.page \in {"here", "left", "done"}
        BY DEF Saves
      <4> QED
        BY <4>1, <4>2
    <3> QED
      BY <3>1, <3>2
  <2>2. t \in Saves
    OBVIOUS
  <2> QED
    BY <2>1, <2>2 DEF Saves
<1>2. ASSUME NEW S \in SUBSET Starts, NEW s \in Left(S)
      PROVE  s \in Starts /\ \E t \in S : s.id = t.id
  <2>1. PICK t \in S : s = [t EXCEPT !.page = IF @ = "here" THEN "left" ELSE @]
    BY <1>2 DEF Left
  <2>2. t \in Starts
    OBVIOUS
  <2> QED
    BY <2>1, <2>2 DEF Starts
<1> QED
  BY <1>1, <1>2

\* What is left of the types when the page is opened anew.
LEMMA OpenedIs ==
  ASSUME BuilderAssumption, NEW r \in {NoId} \cup Pipelines, OpenedPage(r)
  PROVE  /\ loads' \in [{"agents", "brokers", "pipeline"} -> {"none", "asked", "ok", "failed"}]
         /\ routeId' = r /\ currentPipelineId' = NoId /\ ~AgentsKnown'
         /\ settings' \in Settings /\ signalSubscriptions' \in Subscriptions
         /\ brokerTool' = NoBroker /\ pipelineBrokerTool' = NoBroker /\ NoBroker \in Brokers
         /\ agentNodes' = <<>> /\ selectedItem' \in Items /\ editingConfig' \in Configs
         /\ saving' \in BOOLEAN /\ executing' \in BOOLEAN
         /\ LoadsInv'
<1>1. loads' = [agents |-> "asked", brokers |-> "none", pipeline |-> "none"]
  BY DEF OpenedPage
<1>2. loads' \in [{"agents", "brokers", "pipeline"} -> {"none", "asked", "ok", "failed"}]
  BY <1>1
<1>3. ~AgentsKnown' /\ loads'.pipeline = "none" /\ loads'.brokers = "none"
  BY <1>1 DEF AgentsKnown
<1> QED
  BY <1>2, <1>3, ConstantsAre DEF OpenedPage, LoadsInv, Items

LEMMA StandsKept ==
  ASSUME BuilderAssumption, TypeInv, Grown, Stands(routeId)',
         \A s \in saves' : s.id \in {NoId, currentPipelineId} \/ \E t \in saves : s.id = t.id,
         \A x \in starts' : x.id = currentPipelineId \/ \E y \in starts : x.id = y.id
  PROVE  StandsInv'
<1>1. \A id \in {NoId} \cup Pipelines : Stands(id) => Stands(id)'
  BY DEF Grown, Stands
<1>2. /\ \A s \in saves : s.id \in {NoId} \cup Pipelines /\ Stands(s.id)
      /\ \A x \in starts : x.id \in Pipelines /\ Stands(x.id)
  <2>1. saves \subseteq Saves /\ starts \subseteq Starts
    BY DEF TypeInv, BuilderTypeOK, Saves, Starts
  <2>2. /\ \A s \in Saves : s.id \in {NoId} \cup Pipelines
        /\ \A x \in Starts : x.id \in Pipelines
    BY DEF Saves, Starts
  <2>3. (\A s \in saves : Stands(s.id)) /\ \A x \in starts : Stands(x.id)
    BY DEF TypeInv, StandsInv
  <2> QED
    BY <2>1, <2>2, <2>3
<1>3. currentPipelineId \in {NoId} \cup Pipelines /\ Stands(currentPipelineId) /\ Stands(NoId)
  BY DEF TypeInv, BuilderTypeOK, StandsInv, LoadsInv, Stands
<1>4. \A s \in saves' : Stands(s.id)'
  BY <1>1, <1>2, <1>3
<1>5. \A x \in starts' : Stands(x.id)'
  BY <1>1, <1>2, <1>3
<1> QED
  BY <1>4, <1>5 DEF StandsInv

LEMMA TypeStep == TypeInv /\ [BuilderNext]_builderVars => TypeInv'
<1> SUFFICES ASSUME TypeInv, [BuilderNext]_builderVars PROVE TypeInv'
  OBVIOUS
<1> USE BuilderAssumption
<1>a. /\ saves \subseteq Saves /\ starts \subseteq Starts /\ pipelines \in Pages
      /\ routeId \in {NoId} \cup Pipelines /\ currentPipelineId \in {NoId, routeId}
      /\ loads \in [{"agents", "brokers", "pipeline"} -> {"none", "asked", "ok", "failed"}]
      /\ settings \in Settings /\ signalSubscriptions \in Subscriptions
      /\ brokerTool \in Brokers /\ pipelineBrokerTool \in Brokers
      /\ agentNodes \in Nodes \cup {<<>>} /\ editingConfig \in Configs
  BY DEF TypeInv, BuilderTypeOK, Saves, Starts, Pages, Nodes
<1>b. Edit => edits' \in 1 .. MaxEdits /\ edits' \in 0 .. MaxEdits
  BY DEF Edit, TypeInv, BuilderTypeOK, BuilderAssumption
<1>c. UNCHANGED <<routeId, currentPipelineId, saves, starts, pipelines>> => StandsInv'
  BY DEF TypeInv, StandsInv, Stands
<1>d. BuildPipelineBrokerTool \in Brokers
  BY <1>a, ConstantsAre DEF BuildPipelineBrokerTool
<1>e. \A b, c \in Brokers : Either(b, c) \in Brokers
  BY DEF Either
<1>f. UNCHANGED <<loads, agentNodes, currentPipelineId, routeId>> => LoadsInv'
  BY DEF TypeInv, LoadsInv, AgentsKnown
<1>1. CASE AgentsLoaded
  <2>1. agentNodes' \in Nodes
    BY <1>1, ConstantsAre DEF AgentsLoaded, Nodes
  <2>2. loads' \in [{"agents", "brokers", "pipeline"} -> {"none", "asked", "ok", "failed"}]
    BY <1>1 DEF AgentsLoaded
  <2>3. LoadsInv'
    BY <1>1, <2>1 DEF AgentsLoaded, LoadsInv, AgentsKnown, Nodes
  <2>4. UNCHANGED <<routeId, saves, starts, pipelines>> /\ currentPipelineId' = routeId
    BY <1>1 DEF AgentsLoaded, remoteVars
  <2>5. StandsInv'
    BY <2>4 DEF TypeInv, StandsInv, Stands
  <2> QED
    BY <1>1, <2>1, <2>2, <2>3, <2>4, <2>5
       DEF AgentsLoaded, TypeInv, BuilderTypeOK, remoteVars, Nodes
<1>2. CASE BrokerToolsLoaded
  <2>1. loads' \in [{"agents", "brokers", "pipeline"} -> {"none", "asked", "ok", "failed"}]
        /\ loads'.agents = loads.agents /\ loads'.pipeline = loads.pipeline
    BY <1>2, <1>a DEF BrokerToolsLoaded
  <2>2. AgentsKnown
    BY <1>2 DEF BrokerToolsLoaded, TypeInv, LoadsInv
  <2>3. LoadsInv'
    BY <1>2, <2>1, <2>2 DEF BrokerToolsLoaded, TypeInv, LoadsInv, AgentsKnown
  <2> QED
    BY <1>2, <1>c, <2>1, <2>3 DEF BrokerToolsLoaded, TypeInv, BuilderTypeOK, remoteVars
<1>3. ASSUME NEW what \in {"agents", "brokers", "pipeline"}, LoadFails(what) PROVE TypeInv'
  <2>1. loads' \in [{"agents", "brokers", "pipeline"} -> {"none", "asked", "ok", "failed"}]
        /\ loads'[what] = "failed" /\ \A w \in {"agents", "brokers", "pipeline"} \ {what} :
                                        loads'[w] = loads[w]
    BY <1>3, <1>a DEF LoadFails
  <2>2. loads[what] = "asked"
    BY <1>3 DEF LoadFails
  <2>3. AgentsKnown' <=> AgentsKnown
    BY <2>1, <2>2 DEF AgentsKnown
  <2>4. LoadsInv'
    BY <1>3, <2>1, <2>2, <2>3 DEF LoadFails, TypeInv, LoadsInv, AgentsKnown
  <2> QED
    BY <1>3, <1>c, <2>1, <2>4 DEF LoadFails, TypeInv, BuilderTypeOK, remoteVars
<1>4. CASE PipelineLoaded
  <2> DEFINE body == pipelines[routeId]
             loaded == BrokerOf(body)
             tool == Either(loaded, brokerTool)
             built == IF loads.brokers = "ok" THEN tool ELSE NoBroker
             kept == Either(loaded, pipelineBrokerTool)
  <2>0. AgentsKnown /\ routeId # NoId /\ routeId \in Pipelines
    BY <1>4, <1>a DEF PipelineLoaded, TypeInv, LoadsInv
  <2>1. body \in Bodies
    BY <2>0 DEF TypeInv, StandsInv, Stands
  <2>2. /\ settings' = LoadedSettings(body) /\ signalSubscriptions' = body.subscriptions
        /\ brokerTool' = tool /\ pipelineBrokerTool' = kept
        /\ agentNodes' = EnforceBrokerOnAgents(body.nodes, Either(built, kept))
        /\ editingConfig' = SelectedConfig(agentNodes', selectedItem)
        /\ dirty' = (brokerTool' # body.broker)
    BY <1>4 DEF PipelineLoaded
  <2> HIDE DEF body
  <2>3. loaded \in Brokers
    <3>1. \A a \in Agents : body.nodes[a].broker \in Brokers
      BY <2>1, ConfigIs DEF Bodies
    <3>2. body.broker \in Brokers
      BY <2>1 DEF Bodies
    <3> QED
      BY <1>e, <3>1, <3>2, ConstantsAre DEF BrokerOf
  <2> HIDE DEF loaded
  <2>4. tool \in Brokers /\ kept \in Brokers /\ built \in Brokers /\ Either(built, kept) \in Brokers
    BY <1>a, <1>e, <2>3, ConstantsAre
  <2> HIDE DEF tool, kept, built
  <2>5. body.nodes \in Nodes /\ body.settings \in Settings /\ body.subscriptions \in Subscriptions
    BY <2>1 DEF Bodies, Nodes
  <2>6. agentNodes' \in Nodes
    BY <2>2, <2>4, <2>5, EnforcedIs
  <2>7. editingConfig' \in Configs
    BY <2>2, <2>6, SelectedIs
  <2>8. settings' \in Settings
    BY <2>2, <2>5 DEF LoadedSettings, Settings
  <2>9. loads' \in [{"agents", "brokers", "pipeline"} -> {"none", "asked", "ok", "failed"}]
        /\ loads'.agents = loads.agents /\ loads'.pipeline = "ok"
    BY <1>4, <1>a DEF PipelineLoaded
  <2>10. UNCHANGED <<routeId, currentPipelineId, saves, starts, pipelines, selectedItem, saving,
                     executing, edits, trouble>>
    BY <1>4 DEF PipelineLoaded, remoteVars
  <2>11. LoadsInv'
    BY <2>0, <2>6, <2>9, <2>10 DEF TypeInv, LoadsInv, AgentsKnown, Nodes
  <2>12. dirty' \in BOOLEAN
    BY <2>2
  <2>13. StandsInv'
    BY <1>c, <2>10
  <2>14. BuilderTypeOK'
    BY <2>2, <2>4, <2>5, <2>6, <2>7, <2>8, <2>9, <2>10, <2>12
       DEF TypeInv, BuilderTypeOK, Nodes
  <2> QED
    BY <2>11, <2>13, <2>14 DEF TypeInv
<1>5. ASSUME NEW c \in Configs, Stage(c) PROVE TypeInv'
  BY <1>5, <1>b, <1>c, <1>f DEF Stage, TypeInv, BuilderTypeOK, remoteVars
<1>6. ASSUME NEW s \in Settings, SetSettings(s) PROVE TypeInv'
  BY <1>6, <1>b, <1>c, <1>f DEF SetSettings, TypeInv, BuilderTypeOK, remoteVars
<1>7. ASSUME NEW s \in Subscriptions, Subscribe(s) PROVE TypeInv'
  BY <1>7, <1>b, <1>c, <1>f DEF Subscribe, TypeInv, BuilderTypeOK, remoteVars
<1>8. ASSUME NEW b \in Brokers, SetBroker(b) PROVE TypeInv'
  <2>1. AgentsKnown /\ agentNodes \in Nodes
    BY <1>8 DEF SetBroker, TypeInv, LoadsInv, Nodes
  <2>2. agentNodes' \in Nodes
    BY <1>8, <2>1, EnforcedIs DEF SetBroker
  <2>3. LoadsInv'
    BY <1>8, <2>1, <2>2 DEF SetBroker, TypeInv, LoadsInv, AgentsKnown, Nodes
  <2> QED
    BY <1>8, <1>b, <1>c, <2>2, <2>3 DEF SetBroker, TypeInv, BuilderTypeOK, remoteVars, Nodes
<1>9. CASE SelectItem
  <2>1. editingConfig' \in Configs
    BY <1>9, <1>a, SelectedIs DEF SelectItem
  <2> QED
    BY <1>9, <1>b, <1>c, <1>f, <2>1 DEF SelectItem, TypeInv, BuilderTypeOK, remoteVars
<1>10. ASSUME NEW nodes, Sends(nodes) PROVE TypeInv'
  <2>0. /\ UNCHANGED <<loads, routeId, currentPipelineId, settings, signalSubscriptions,
                       brokerTool, selectedItem, executing, starts, pipelines>>
        /\ saving' = TRUE
    BY <1>10 DEF Sends, Send
  <2>1. CASE ~AgentsKnown
    <3>1. UNCHANGED <<pipelineBrokerTool, agentNodes, editingConfig, saves, dirty, trouble>>
      BY <1>10, <2>1 DEF Sends, Send
    <3> QED
      BY <1>10, <1>b, <1>c, <1>f, <2>0, <3>1 DEF Sends, TypeInv, BuilderTypeOK
  <2>2. CASE AgentsKnown
    <3> DEFINE new == NodesForSave(nodes)
               body == [settings |-> settings, subscriptions |-> signalSubscriptions,
                        broker |-> BuildPipelineBrokerTool, nodes |-> new]
               save == [n |-> edits', id |-> currentPipelineId, body |-> body, page |-> "here"]
    <3>1. /\ pipelineBrokerTool' = BuildPipelineBrokerTool /\ agentNodes' = new
          /\ editingConfig' = SelectedConfig(new, selectedItem) /\ saves' = saves \cup {save}
          /\ dirty' = FALSE
          /\ trouble' = Early(trouble) \cup (IF saves = {} THEN {} ELSE {"overlap"})
      BY <1>10, <2>2 DEF Sends, Send
    <3>2. new \in Nodes
      BY <1>10, <1>a, <2>2, SentIs DEF Sends
    <3> HIDE DEF new
    <3>3. body \in Bodies
      BY <1>a, <1>d, <3>2 DEF Bodies, Nodes
    <3> HIDE DEF body
    <3>4. save \in Saves
      BY <1>10, <1>a, <1>b, <3>3 DEF Sends, Saves
    <3>5. save.id = currentPipelineId
      OBVIOUS
    <3> HIDE DEF save
    <3>6. saves' \subseteq Saves
      BY <1>a, <3>1, <3>4
    <3>7. editingConfig' \in Configs
      BY <3>1, <3>2, SelectedIs
    <3>8. trouble' \subseteq {"early", "overlap"}
      BY <3>1 DEF Early, TypeInv, BuilderTypeOK
    <3>9. LoadsInv'
      BY <2>0, <2>2, <3>1, <3>2 DEF TypeInv, LoadsInv, AgentsKnown, Nodes
    <3>10. StandsInv'
      <4>1. Grown /\ Stands(routeId)'
        BY <2>0 DEF Grown, TypeInv, StandsInv, Stands
      <4>2. \A s \in saves' : s.id = currentPipelineId \/ \E t \in saves : s.id = t.id
        BY <3>1, <3>5
      <4>3. \A x \in starts' : \E y \in starts : x.id = y.id
        BY <2>0
      <4> QED
        BY <4>1, <4>2, <4>3, StandsKept
    <3>11. edits' \in 0 .. MaxEdits
      BY <1>10, <1>b DEF Sends
    <3>12. BuilderTypeOK'
      BY <1>a, <1>d, <2>0, <3>1, <3>2, <3>6, <3>7, <3>8, <3>11
         DEF TypeInv, BuilderTypeOK, Saves, Nodes
    <3> QED
      BY <3>9, <3>10, <3>12 DEF TypeInv
  <2> QED
    BY <2>1, <2>2
<1>11. CASE ApplyRightPaneChanges /\ currentPipelineId = NoId
  <2>1. \/ \E nodes : Sends(nodes)
        \/ /\ agentNodes' = EnforceBrokerOnAgents(Flushed,
                              Either(BuildPipelineBrokerTool, pipelineBrokerTool))
           /\ editingConfig' = SelectedConfig(agentNodes', selectedItem)
           /\ selectedItem \in DOMAIN agentNodes
           /\ UNCHANGED <<loads, routeId, currentPipelineId, settings, signalSubscriptions,
                          brokerTool, pipelineBrokerTool, selectedItem, saving, executing,
                          remoteVars, dirty, trouble>>
    BY <1>11 DEF ApplyRightPaneChanges
  <2>2. ASSUME agentNodes' = EnforceBrokerOnAgents(Flushed,
                               Either(BuildPipelineBrokerTool, pipelineBrokerTool)),
               editingConfig' = SelectedConfig(agentNodes', selectedItem),
               selectedItem \in DOMAIN agentNodes,
               UNCHANGED <<loads, routeId, currentPipelineId, settings, signalSubscriptions,
                           brokerTool, pipelineBrokerTool, selectedItem, saving, executing,
                           remoteVars, dirty, trouble>>
        PROVE  TypeInv'
    <3>1. AgentsKnown
      BY <2>2 DEF TypeInv, LoadsInv
    <3>2. agentNodes' \in Nodes
      BY <1>a, <1>d, <1>e, <2>2, <3>1, FlushedIs, EnforcedIs
    <3>3. editingConfig' \in Configs
      BY <2>2, <3>2, SelectedIs
    <3>4. LoadsInv'
      BY <2>2, <3>1, <3>2 DEF TypeInv, LoadsInv, AgentsKnown, Nodes
    <3>5. edits' \in 0 .. MaxEdits
      BY <1>11, <1>b DEF ApplyRightPaneChanges
    <3> QED
      BY <1>c, <2>2, <3>2, <3>3, <3>4, <3>5 DEF TypeInv, BuilderTypeOK, remoteVars, Nodes
  <2> QED
    BY <1>10, <2>1, <2>2
<1>12. CASE ApplyBulkModelSelection /\ currentPipelineId = NoId
  <2>1. PICK m \in Models : agentNodes' = BulkNodes(m)
    BY <1>12 DEF ApplyBulkModelSelection
  <2>2. AgentsKnown /\ agentNodes' \in Nodes
    BY <1>12, <2>1, FlushedIs, BulkIs DEF ApplyBulkModelSelection
  <2>3. UNCHANGED <<loads, routeId, currentPipelineId, settings, signalSubscriptions, brokerTool,
                    pipelineBrokerTool, selectedItem, editingConfig, saving, executing,
                    remoteVars, trouble>> /\ dirty' = TRUE /\ edits' \in 0 .. MaxEdits
    BY <1>12, <1>b DEF ApplyBulkModelSelection
  <2>4. LoadsInv'
    BY <2>2, <2>3 DEF TypeInv, LoadsInv, AgentsKnown, Nodes
  <2> QED
    BY <1>c, <2>2, <2>3, <2>4 DEF TypeInv, BuilderTypeOK, remoteVars, Nodes
<1>13. CASE ExecutePipeline /\ currentPipelineId # NoId
  <2> DEFINE start == [n |-> edits', id |-> currentPipelineId, page |-> "here", answered |-> FALSE]
  <2>1. /\ pipelineBrokerTool' = BuildPipelineBrokerTool
        /\ agentNodes' = EnforceBrokerOnAgents(Flushed, BuildPipelineBrokerTool)
        /\ editingConfig' = SelectedConfig(agentNodes', selectedItem)
        /\ executing' = TRUE /\ starts' = starts \cup {start} /\ trouble' = Early(trouble)
        /\ UNCHANGED <<loads, routeId, currentPipelineId, settings, signalSubscriptions,
                       brokerTool, selectedItem, saving, saves, pipelines, dirty>>
    BY <1>13 DEF ExecutePipeline
  <2>2. AgentsKnown
    BY <1>13 DEF TypeInv, LoadsInv
  <2>3. agentNodes' \in Nodes
    BY <1>d, <2>1, <2>2, FlushedIs, EnforcedIs
  <2>4. editingConfig' \in Configs
    BY <2>1, <2>3, SelectedIs
  <2>5. start \in Starts /\ edits' \in 0 .. MaxEdits
    BY <1>13, <1>a, <1>b DEF ExecutePipeline, Starts
  <2>6. start.id = currentPipelineId
    OBVIOUS
  <2> HIDE DEF start
  <2>7. starts' \subseteq Starts
    BY <1>a, <2>1, <2>5
  <2>8. trouble' \subseteq {"early", "overlap"}
    BY <2>1 DEF Early, TypeInv, BuilderTypeOK
  <2>9. LoadsInv'
    BY <2>1, <2>2, <2>3 DEF TypeInv, LoadsInv, AgentsKnown, Nodes
  <2>10. StandsInv'
    <3>1. Grown /\ Stands(routeId)'
      BY <2>1 DEF Grown, TypeInv, StandsInv, Stands
    <3>2. \A s \in saves' : \E t \in saves : s.id = t.id
      BY <2>1
    <3>3. \A x \in starts' : x.id = currentPipelineId \/ \E y \in starts : x.id = y.id
      BY <2>1, <2>6
    <3> QED
      BY <3>1, <3>2, <3>3, StandsKept
  <2>11. BuilderTypeOK'
    BY <1>a, <1>d, <2>1, <2>3, <2>4, <2>5, <2>7, <2>8 DEF TypeInv, BuilderTypeOK, Starts, Nodes
  <2> QED
    BY <2>9, <2>10, <2>11 DEF TypeInv
<1>14. ASSUME NEW r \in {NoId} \cup Pipelines, Stands(r), NEW started \in SUBSET starts,
              LeaveFor(r, started), edits' \in 0 .. MaxEdits
       PROVE  TypeInv'
  <2>1. /\ saves' = Left(saves) /\ starts' = Left(started) /\ dirty' = FALSE
        /\ trouble' \in {{}, {"overlap"}} /\ UNCHANGED pipelines /\ OpenedPage(r)
    BY <1>14 DEF LeaveFor
  <2>2. /\ saves' \subseteq Saves /\ starts' \subseteq Starts
        /\ \A s \in saves' : \E t \in saves : s.id = t.id
        /\ \A x \in starts' : \E y \in starts : x.id = y.id
    <3>1. started \in SUBSET Starts
      BY <1>a
    <3> QED
      BY <1>a, <2>1, <3>1, LeftIs
  <2>3. StandsInv'
    <3>1. Grown /\ Stands(routeId)'
      BY <1>14, <2>1 DEF Grown, Stands, OpenedPage
    <3> QED
      BY <2>2, <3>1, StandsKept
  <2>4. /\ loads' \in [{"agents", "brokers", "pipeline"} -> {"none", "asked", "ok", "failed"}]
        /\ routeId' = r /\ currentPipelineId' = NoId
        /\ settings' \in Settings /\ signalSubscriptions' \in Subscriptions
        /\ brokerTool' \in Brokers /\ pipelineBrokerTool' \in Brokers
        /\ agentNodes' = <<>> /\ selectedItem' \in Items /\ editingConfig' \in Configs
        /\ saving' \in BOOLEAN /\ executing' \in BOOLEAN /\ LoadsInv'
    BY <2>1, OpenedIs
  <2>5. trouble' \subseteq {"early", "overlap"}
    BY <2>1
  <2>6. BuilderTypeOK'
    BY <1>14, <1>a, <2>1, <2>2, <2>4, <2>5 DEF BuilderTypeOK, Saves, Starts, Pages
  <2> QED
    BY <2>3, <2>4, <2>6 DEF TypeInv
<1>15. CASE LeaveAndOpen
  <2>1. PICK r \in {NoId} \cup {p \in Pipelines : Exists(p)} : LeaveFor(r, starts)
    BY <1>15 DEF LeaveAndOpen
  <2>2. r \in {NoId} \cup Pipelines /\ Stands(r)
    BY <1>a, <2>1 DEF Exists, Stands, Pages
  <2> QED
    BY <1>14, <1>15, <1>b, <2>1, <2>2 DEF LeaveAndOpen
<1>16. ASSUME NEW x \in starts, RunOpened(x) PROVE TypeInv'
  <2>1. x.id \in Pipelines /\ Stands(x.id)
    <3>1. Stands(x.id)
      BY DEF TypeInv, StandsInv
    <3> QED
      BY <1>a, <3>1 DEF Starts
  <2>2. edits' \in 0 .. MaxEdits
    BY <1>16 DEF RunOpened, TypeInv, BuilderTypeOK
  <2> QED
    BY <1>14, <1>16, <2>1, <2>2 DEF RunOpened
<1>17. ASSUME NEW x \in starts, StartAnswered(x) PROVE TypeInv'
  <2>1. UNCHANGED <<loads, routeId, currentPipelineId, settings, signalSubscriptions,
                    brokerTool, pipelineBrokerTool, agentNodes, selectedItem, editingConfig,
                    saving, saves, pipelines, edits, dirty, trouble>>
    BY <1>17 DEF StartAnswered
  <2>2. starts' \subseteq Starts /\ \A y \in starts' : \E z \in starts : y.id = z.id
    <3>1. [x EXCEPT !.answered = TRUE] \in Starts /\ [x EXCEPT !.answered = TRUE].id = x.id
      BY <1>a DEF Starts
    <3> QED
      BY <1>17, <1>a, <3>1 DEF StartAnswered
  <2>3. StandsInv'
    <3>1. Grown /\ Stands(routeId)'
      BY <2>1 DEF Grown, TypeInv, StandsInv, Stands
    <3> QED
      BY <2>1, <2>2, <3>1, StandsKept
  <2>4. executing' \in BOOLEAN
    BY <1>17 DEF StartAnswered, TypeInv, BuilderTypeOK
  <2> QED
    BY <1>f, <2>1, <2>2, <2>3, <2>4 DEF TypeInv, BuilderTypeOK, Starts
<1>18. ASSUME NEW s \in saves, UpdateAnswered(s) \/ SaveFails(s) PROVE TypeInv'
  <2>1. /\ saves' = saves \ {s} /\ saving' \in BOOLEAN /\ dirty' \in BOOLEAN
        /\ UNCHANGED <<loads, routeId, currentPipelineId, settings, signalSubscriptions,
                       brokerTool, pipelineBrokerTool, agentNodes, selectedItem, editingConfig,
                       executing, starts, edits, trouble>>
    BY <1>18 DEF UpdateAnswered, SaveFails, TypeInv, BuilderTypeOK
  <2>2. pipelines' \in Pages /\ Grown
    <3>1. pipelines' = pipelines \/ (s.id # NoId /\ pipelines' = Updated(s))
      BY <1>18 DEF UpdateAnswered, SaveFails
    <3> QED
      BY <1>a, <3>1, UpdatedIs DEF Grown
  <2>3. StandsInv'
    <3>1. Stands(routeId)'
      BY <1>a, <2>1, <2>2 DEF Grown, TypeInv, StandsInv, Stands
    <3> QED
      BY <2>1, <2>2, <3>1, StandsKept
  <2> QED
    BY <1>f, <2>1, <2>2, <2>3 DEF TypeInv, BuilderTypeOK, Pages
<1>19. ASSUME NEW s \in saves, CreateAnswered(s) PROVE TypeInv'
  <2>1. PICK p \in Pipelines :
          /\ ~Exists(p) /\ pipelines' = Created(p, s)
          /\ IF s.page = "done"
               THEN /\ saves' = saves \ {s} /\ UNCHANGED <<pageVars, starts, dirty, trouble>>
               ELSE /\ saves' = Settled(saves \ {s}) /\ starts' = Left(starts)
                    /\ OpenedPage(p)
                    /\ dirty' = FALSE /\ UNCHANGED trouble
    BY <1>19 DEF CreateAnswered
  <2>2. pipelines' \in Pages /\ Grown /\ pipelines'[p] \in Bodies
    BY <2>1, CreatedIs DEF Grown
  <2>3. edits' = edits
    BY <1>19 DEF CreateAnswered
  <2>4. CASE s.page = "done"
    <3>1. saves' = saves \ {s} /\ UNCHANGED <<pageVars, starts, dirty, trouble>>
      BY <2>1, <2>4
    <3>2. StandsInv'
      <4>1. Stands(routeId)'
        BY <1>a, <2>2, <3>1 DEF Grown, TypeInv, StandsInv, Stands, pageVars
      <4> QED
        BY <2>2, <3>1, <4>1, StandsKept
    <3> QED
      BY <1>f, <2>2, <2>3, <3>1, <3>2 DEF TypeInv, BuilderTypeOK, Pages, pageVars
  <2>5. CASE s.page # "done"
    <3>1. /\ saves' = Settled(saves \ {s}) /\ starts' = Left(starts)
          /\ OpenedPage(p) /\ dirty' = FALSE /\ UNCHANGED trouble
      BY <2>1, <2>5
    <3>2. /\ saves' \subseteq Saves /\ starts' \subseteq Starts
          /\ \A t \in saves' : \E u \in saves : t.id = u.id
          /\ \A x \in starts' : \E y \in starts : x.id = y.id
      <4>1. saves \ {s} \in SUBSET Saves
        BY <1>a
      <4> QED
        BY <1>a, <3>1, <4>1, LeftIs
    <3>3. StandsInv'
      <4>1. Stands(routeId)'
        BY <2>2, <3>1 DEF Stands, OpenedPage
      <4> QED
        BY <2>2, <3>2, <4>1, StandsKept
    <3>4. /\ loads' \in [{"agents", "brokers", "pipeline"} -> {"none", "asked", "ok", "failed"}]
          /\ routeId' = p /\ currentPipelineId' = NoId
          /\ settings' \in Settings /\ signalSubscriptions' \in Subscriptions
          /\ brokerTool' \in Brokers /\ pipelineBrokerTool' \in Brokers
          /\ agentNodes' = <<>> /\ selectedItem' \in Items /\ editingConfig' \in Configs
          /\ saving' \in BOOLEAN /\ executing' \in BOOLEAN /\ LoadsInv'
      BY <3>1, OpenedIs
    <3>5. BuilderTypeOK'
      BY <2>2, <2>3, <3>1, <3>2, <3>4 DEF TypeInv, BuilderTypeOK, Saves, Starts, Pages
    <3> QED
      BY <3>3, <3>4, <3>5 DEF TypeInv
  <2> QED
    BY <2>4, <2>5
<1>20. CASE UNCHANGED builderVars
  BY <1>20, <1>c, <1>f DEF builderVars, pageVars, remoteVars, TypeInv, BuilderTypeOK
<1>21. CASE UserEdits
  BY <1>5, <1>6, <1>7, <1>8, <1>9, <1>10, <1>11, <1>12, <1>13, <1>15, <1>21, UserSteps
<1> QED
  BY <1>1, <1>2, <1>3, <1>4, <1>16, <1>17, <1>18, <1>19, <1>20, <1>21
     DEF BuilderNext, PageLoads, SaveAnswers, StartAnswers

\* The pipeline that is there before: of this builder, or of an older one.
LEMMA OldBodyIs ==
  ASSUME BuilderAssumption, NEW body \in StoredBefore
  PROVE  /\ body \in Bodies /\ Synced(body)
         /\ body.broker # NoBroker => OfOneBroker(body)
<1> DEFINE type == CHOOSE t \in BrokerTypes : TRUE
           text == CHOOSE t \in Texts : t # NoText
           broker == [type |-> type, account |-> TRUE]
           Config(a, b) == [EmptyConfig EXCEPT
                        !.broker = IF a = "trade_manager_agent" THEN broker
                                   ELSE IF a \in UsesBroker THEN b ELSE NoBroker,
                        !.instructions = IF a \in AgentNeedsInstructions THEN text ELSE NoText]
<1>1. PICK b \in {broker, NoBroker} :
        body = [settings |-> DefaultSettings, subscriptions |-> [s \in Signals |-> "80"],
                broker |-> b, nodes |-> [a \in Agents |-> Config(a, b)]]
  BY DEF StoredBefore
<1>2. type \in BrokerTypes /\ text \in Texts
  BY DEF BuilderAssumption
<1> HIDE DEF type, text
<1>3. broker \in Brokers /\ NoBroker \in Brokers
  BY <1>2 DEF Brokers
<1> HIDE DEF broker
<1>4. \A a \in Agents : /\ Config(a, b) \in Configs /\ Config(a, b).blocked = TRUE
                        /\ a = "trade_manager_agent" => Config(a, b).broker = broker
                        /\ a \in UsesBroker /\ a # "trade_manager_agent" => Config(a, b).broker = b
  BY <1>2, <1>3 DEF EmptyConfig, Configs, Models, BuilderAssumption
<1> HIDE DEF Config
<1> DEFINE nodes == [a \in Agents |-> Config(a, b)]
<1>5. nodes \in Nodes /\ \A a \in Agents : nodes[a] = Config(a, b)
  BY <1>4 DEF Nodes
<1>6. [s \in Signals |-> "80"] \in Subscriptions
  BY DEF Subscriptions
<1> DEFINE subscriptions == [s \in Signals |-> "80"]
<1> HIDE DEF nodes, subscriptions
<1>7. body = [settings |-> DefaultSettings, subscriptions |-> subscriptions, broker |-> b,
              nodes |-> nodes]
  BY <1>1 DEF nodes, subscriptions
<1>8. body \in Bodies
  BY <1>3, <1>5, <1>6, <1>7, ConstantsAre DEF Bodies, Nodes, subscriptions
<1>9. Synced(body)
  BY <1>4, <1>5, <1>7 DEF Synced, DefaultSettings
<1>10. ASSUME b # NoBroker PROVE OfOneBroker(body)
  BY <1>4, <1>5, <1>7, <1>10, ConstantsAre DEF OfOneBroker
<1> QED
  BY <1>7, <1>8, <1>9, <1>10

LEMMA TypeInitially == BuilderInit => TypeInv
<1> SUFFICES ASSUME BuilderInit PROVE TypeInv
  OBVIOUS
<1> USE BuilderAssumption
<1>1. PICK p \in Pipelines, body \in StoredBefore :
        /\ pipelines = [q \in Pipelines |-> IF q = p THEN body ELSE NoId]
        /\ routeId \in {NoId, p}
  BY DEF BuilderInit
<1>2. /\ body \in Bodies /\ Synced(body)
      /\ body.broker # NoBroker => OfOneBroker(body)
  BY OldBodyIs
<1>3. pipelines \in Pages /\ pipelines[p] = body
  BY <1>1, <1>2 DEF Pages
<1>4. StandsInv
  BY <1>1, <1>2, <1>3 DEF BuilderInit, StandsInv, Stands
<1>5. LoadsInv
  BY DEF BuilderInit, LoadsInv, AgentsKnown
<1>6. BuilderTypeOK
  <2>1. edits \in 0 .. MaxEdits
    BY DEF BuilderInit, BuilderAssumption
  <2>2. loads \in [{"agents", "brokers", "pipeline"} -> {"none", "asked", "ok", "failed"}]
    BY DEF BuilderInit
  <2> QED
    BY <1>1, <1>3, <2>1, <2>2, ConstantsAre DEF BuilderInit, BuilderTypeOK, Pages, Items
<1> QED
  BY <1>4, <1>5, <1>6 DEF TypeInv

\* The pages, the requests and the stored pipelines keep their types.
THEOREM BuilderTypes == BuilderSpec => []BuilderTypeOK
<1>1. TypeInv => BuilderTypeOK
  BY DEF TypeInv
<1> QED
  BY <1>1, TypeInitially, TypeStep, PTL DEF BuilderSpec

-------------------------------------------------------------------------------
(* What is sent and what is stored                                         *)

\* The steps that send nothing: requests are answered, or outlive their page.
LEMMA Moves ==
  ASSUME BuilderAssumption, TypeInv, [BuilderNext]_builderVars, \A nodes : ~Sends(nodes)
  PROVE  /\ \A s \in saves' : \E t \in saves : s.body = t.body
         /\ \A s \in saves' \ saves : s.page # "here"
         /\ \/ pipelines' = pipelines
            \/ \E s \in saves : s.id # NoId /\ pipelines' = Updated(s)
            \/ \E s \in saves, p \in Pipelines : pipelines' = Created(p, s)
<1> DEFINE Goal == /\ \A s \in saves' : \E t \in saves : s.body = t.body
                   /\ \A s \in saves' \ saves : s.page # "here"
                   /\ \/ pipelines' = pipelines
                      \/ \E s \in saves : s.id # NoId /\ pipelines' = Updated(s)
                      \/ \E s \in saves, p \in Pipelines : pipelines' = Created(p, s)
<1>1. ASSUME UNCHANGED <<saves, pipelines>> PROVE Goal
  BY <1>1
<1>2. saves \subseteq Saves
  BY DEF TypeInv, BuilderTypeOK, Saves
<1>3. CASE PageLoads
  <2>1. UNCHANGED remoteVars
    BY <1>3 DEF PageLoads, AgentsLoaded, BrokerToolsLoaded, PipelineLoaded, LoadFails
  <2> QED
    BY <1>1, <2>1 DEF remoteVars
<1>4. CASE SaveAnswers
  <2>1. PICK s \in saves : UpdateAnswered(s) \/ SaveFails(s) \/ CreateAnswered(s)
    BY <1>4 DEF SaveAnswers
  <2>2. CASE UpdateAnswered(s) \/ SaveFails(s)
    BY <2>2 DEF UpdateAnswered, SaveFails
  <2>3. CASE CreateAnswered(s)
    <3>1. PICK p \in Pipelines :
            pipelines' = Created(p, s) /\ saves' \in {saves \ {s}, Settled(saves \ {s})}
      BY <2>3 DEF CreateAnswered
    <3>2. CASE saves' = saves \ {s}
      BY <3>1, <3>2
    <3>3. CASE saves' = Settled(saves \ {s})
      <4>1. saves \ {s} \in SUBSET Saves
        BY <1>2
      <4>2. \A x \in saves' : x.page # "here" /\ \E t \in saves : x.body = t.body
        BY <3>3, <4>1, LeftIs
      <4> QED
        BY <3>1, <4>2
    <3> QED
      BY <3>1, <3>2, <3>3
  <2> QED
    BY <2>1, <2>2, <2>3
<1>5. ASSUME NEW r, NEW started, LeaveFor(r, started) PROVE Goal
  <2>1. saves' = Left(saves) /\ pipelines' = pipelines
    BY <1>5 DEF LeaveFor
  <2>2. \A x \in saves' : x.page # "here" /\ \E t \in saves : x.body = t.body
    BY <1>2, <2>1, LeftIs
  <2> QED
    BY <2>1, <2>2
<1>6. CASE StartAnswers
  <2>1. PICK x \in starts : StartAnswered(x) \/ RunOpened(x)
    BY <1>6 DEF StartAnswers
  <2>2. CASE StartAnswered(x)
    BY <1>1, <2>2 DEF StartAnswered
  <2>3. CASE RunOpened(x)
    BY <1>5, <2>3 DEF RunOpened
  <2> QED
    BY <2>1, <2>2, <2>3
<1>7. CASE UserEdits
  <2>1. CASE LeaveAndOpen
    BY <1>5, <2>1 DEF LeaveAndOpen
  <2>2. CASE \/ \E c \in Configs : Stage(c)
             \/ \E s \in Settings : SetSettings(s)
             \/ \E s \in Subscriptions : Subscribe(s)
             \/ \E b \in Brokers : SetBroker(b)
             \/ SelectItem
    BY <1>1, <2>2 DEF Stage, SetSettings, Subscribe, SetBroker, SelectItem, remoteVars
  <2>3. CASE \/ ApplyRightPaneChanges /\ currentPipelineId = NoId
             \/ ApplyBulkModelSelection /\ currentPipelineId = NoId
             \/ ExecutePipeline /\ currentPipelineId # NoId
    BY <1>1, <2>3 DEF ApplyRightPaneChanges, ApplyBulkModelSelection, ExecutePipeline, remoteVars
  <2> QED
    BY <1>7, <2>1, <2>2, <2>3, UserSteps
<1>8. CASE UNCHANGED builderVars
  BY <1>1, <1>8 DEF builderVars, remoteVars
<1> QED
  BY <1>3, <1>4, <1>6, <1>7, <1>8 DEF BuilderNext

\* The body of a save, and what the page holds when it is sent.
LEMMA SaveIs ==
  ASSUME BuilderAssumption, TypeInv, NEW nodes, Sends(nodes), AgentsKnown
  PROVE  \E s :
           /\ saves' = saves \cup {s} /\ s.page = "here" /\ s.id = currentPipelineId
           /\ s.body.settings = settings /\ s.body.subscriptions = signalSubscriptions
           /\ s.body.broker = BuildPipelineBrokerTool /\ s.body.nodes = agentNodes'
           /\ agentNodes' \in Nodes
           /\ \A a \in UsesBroker : agentNodes'[a].broker = BuildPipelineBrokerTool
           /\ \A a \in Agents : /\ Written(agentNodes'[a]) = Written(Flushed[a])
                                /\ a = "trade_manager_agent" =>
                                     agentNodes'[a].blocked = settings.blocked
           /\ WithPolicy(agentNodes') = agentNodes'
           /\ pipelineBrokerTool' = BuildPipelineBrokerTool
           /\ editingConfig' = SelectedConfig(agentNodes', selectedItem) /\ dirty' = FALSE
           /\ trouble' = Early(trouble) \cup (IF saves = {} THEN {} ELSE {"overlap"})
<1> DEFINE new == NodesForSave(nodes)
           body == [settings |-> settings, subscriptions |-> signalSubscriptions,
                    broker |-> BuildPipelineBrokerTool, nodes |-> new]
           save == [n |-> edits', id |-> currentPipelineId, body |-> body, page |-> "here"]
<1>1. /\ pipelineBrokerTool' = BuildPipelineBrokerTool /\ agentNodes' = new
      /\ editingConfig' = SelectedConfig(new, selectedItem) /\ saves' = saves \cup {save}
      /\ dirty' = FALSE
      /\ trouble' = Early(trouble) \cup (IF saves = {} THEN {} ELSE {"overlap"})
  BY DEF Sends, Send
<1>2. settings \in Settings /\ brokerTool \in Brokers
  BY DEF TypeInv, BuilderTypeOK
<1>3. nodes \in Nodes /\ \A a \in Agents : Written(nodes[a]) = Written(Flushed[a])
  BY DEF Sends
<1>4. /\ new \in Nodes
      /\ \A a \in UsesBroker : new[a].broker = BuildPipelineBrokerTool
      /\ \A a \in Agents : /\ Written(new[a]) = Written(nodes[a])
                           /\ a = "trade_manager_agent" => new[a].blocked = settings.blocked
      /\ WithPolicy(new) = new
  BY <1>2, <1>3, SentIs
<1> HIDE DEF new
<1>5. /\ save.page = "here" /\ save.id = currentPipelineId
      /\ save.body.settings = settings /\ save.body.subscriptions = signalSubscriptions
      /\ save.body.broker = BuildPipelineBrokerTool /\ save.body.nodes = new
  OBVIOUS
<1> HIDE DEF save
<1> WITNESS save
<1> QED
  BY <1>1, <1>3, <1>4, <1>5

StagedSent ==
  \A s \in saves' \ saves : s.page = "here" =>
    \A a \in Agents : Written(s.body.nodes[a]) = Written(Shown.nodes[a])

LEMMA StagedStep == TypeInv /\ [BuilderNext]_builderVars => StagedSent
<1>1. ASSUME TypeInv, [BuilderNext]_builderVars, NEW s \in saves' \ saves, s.page = "here",
             NEW a \in Agents
      PROVE  Written(s.body.nodes[a]) = Written(Shown.nodes[a])
  <2>1. PICK nodes : Sends(nodes)
    BY <1>1, BuilderAssumption, Moves
  <2>2. AgentsKnown
    BY <1>1, <2>1 DEF Sends, Send
  <2>3. Written(s.body.nodes[a]) = Written(Flushed[a])
    BY ZenonT(30), <1>1, <2>1, <2>2, BuilderAssumption, SaveIs
  <2>4. Flushed \in Nodes /\ settings \in Settings
    BY <1>1, <2>2, BuilderAssumption, FlushedIs DEF TypeInv, BuilderTypeOK
  <2>5. Written(WithPolicy(Flushed)[a]) = Written(Flushed[a])
    BY <2>4, BuilderAssumption, PolicyIs
  <2>6. Shown.nodes = WithPolicy(Flushed)
    BY DEF Shown
  <2> QED
    BY <2>3, <2>5, <2>6
<1> QED
  BY <1>1 DEF StagedSent

\* What a page holds of each agent when it saves is what it sends of it, staged edits
\* included: the step of a save takes the flushed nodes.
THEOREM Staged == BuilderSpec => StagedIsSent
<1>1. StagedIsSent <=> [][StagedSent]_builderVars
  BY DEF StagedIsSent, StagedSent
<1> QED
  BY <1>1, StagedStep, TypeInitially, TypeStep, PTL DEF BuilderSpec

\* What is sent and what is stored is of one broker.
LEMMA StoreStep ==
  TypeInv /\ SentInv /\ StoredInv /\ [BuilderNext]_builderVars => SentInv' /\ StoredInv'
<1> SUFFICES ASSUME TypeInv, SentInv, StoredInv, [BuilderNext]_builderVars
             PROVE  SentInv' /\ StoredInv'
  OBVIOUS
<1> USE BuilderAssumption
<1>1. ASSUME NEW nodes, Sends(nodes) PROVE SentInv' /\ StoredInv'
  <2>1. pipelines' = pipelines
    BY <1>1 DEF Sends, Send
  <2>2. SentInv'
    <3>1. CASE ~AgentsKnown
      BY <1>1, <3>1 DEF Sends, Send, SentInv
    <3>2. CASE AgentsKnown
      <4>1. PICK s :
              /\ saves' = saves \cup {s} /\ s.body.settings = settings
              /\ s.body.broker = BuildPipelineBrokerTool /\ s.body.nodes = agentNodes'
              /\ \A a \in UsesBroker : agentNodes'[a].broker = BuildPipelineBrokerTool
              /\ \A a \in Agents : a = "trade_manager_agent" =>
                                     agentNodes'[a].blocked = settings.blocked
        BY <1>1, <3>2, SaveIs
      <4>2. Synced(s.body) /\ OfOneBroker(s.body)
        BY <4>1 DEF Synced, OfOneBroker
      <4> QED
        BY <4>1, <4>2 DEF SentInv
    <3> QED
      BY <3>1, <3>2
  <2> QED
    BY <2>1, <2>2 DEF StoredInv
<1>2. ASSUME \A nodes : ~Sends(nodes) PROVE SentInv' /\ StoredInv'
  <2>1. \A s \in saves' : \E t \in saves : s.body = t.body
    BY <1>2, Moves
  <2>2. SentInv'
    BY <2>1 DEF SentInv
  <2>3. ASSUME NEW s \in saves, NEW old \in Subscriptions
        PROVE  Synced(Stored(s.body, old)) /\ OfOneBroker(Stored(s.body, old))
    <3>1. s.body \in Bodies
      BY DEF TypeInv, BuilderTypeOK
    <3>2. Synced(s.body) /\ OfOneBroker(s.body)
      BY DEF SentInv
    <3> QED
      BY <3>1, <3>2, BodyIs DEF Synced, OfOneBroker
  <2>4. CASE pipelines' = pipelines
    BY <2>2, <2>4 DEF StoredInv
  <2>5. ASSUME NEW s \in saves, s.id # NoId, pipelines' = Updated(s) PROVE StoredInv'
    <3>1. ASSUME NEW p \in Pipelines, pipelines'[p] \in Bodies
          PROVE  /\ Synced(pipelines'[p])
                 /\ pipelines'[p].broker # NoBroker => OfOneBroker(pipelines'[p])
      <4>1. CASE p = s.id
        BY <2>3, <2>5, <4>1, UpdatedIs
      <4>2. CASE p # s.id
        BY <2>5, <3>1, <4>2, UpdatedIs DEF StoredInv
      <4> QED
        BY <4>1, <4>2
    <3> QED
      BY <3>1 DEF StoredInv
  <2>6. ASSUME NEW s \in saves, NEW q \in Pipelines, pipelines' = Created(q, s) PROVE StoredInv'
    <3>1. ASSUME NEW p \in Pipelines, pipelines'[p] \in Bodies
          PROVE  /\ Synced(pipelines'[p])
                 /\ pipelines'[p].broker # NoBroker => OfOneBroker(pipelines'[p])
      <4>1. CASE p = q
        BY <2>3, <2>6, <4>1, CreatedIs, ConstantsAre
      <4>2. CASE p # q
        BY <2>6, <3>1, <4>2, CreatedIs DEF StoredInv
      <4> QED
        BY <4>1, <4>2
    <3> QED
      BY <3>1 DEF StoredInv
  <2> QED
    BY <1>2, <2>2, <2>4, <2>5, <2>6, Moves
<1> QED
  BY <1>1, <1>2

\* The tool that agents are given is the selector's, or none.
LEMMA BrokerStep == TypeInv /\ BrokerInv /\ [BuilderNext]_builderVars => BrokerInv'
<1> SUFFICES ASSUME TypeInv, BrokerInv, [BuilderNext]_builderVars PROVE BrokerInv'
  OBVIOUS
<1> USE BuilderAssumption
<1>1. BuildPipelineBrokerTool \in {brokerTool, NoBroker}
  BY DEF BuildPipelineBrokerTool
<1>2. ASSUME UNCHANGED <<brokerTool, pipelineBrokerTool>> PROVE BrokerInv'
  BY <1>2 DEF BrokerInv
<1>3. ASSUME NEW r, OpenedPage(r) PROVE BrokerInv'
  BY <1>3 DEF OpenedPage, BrokerInv
<1>4. CASE PageLoads
  <2>1. CASE PipelineLoaded
    <3>1. /\ brokerTool' = Either(BrokerOf(pipelines[routeId]), brokerTool)
          /\ pipelineBrokerTool' = Either(BrokerOf(pipelines[routeId]), pipelineBrokerTool)
      BY <2>1 DEF PipelineLoaded
    <3> QED
      BY <3>1 DEF Either, BrokerInv
  <2>2. CASE AgentsLoaded \/ BrokerToolsLoaded
             \/ \E what \in {"agents", "brokers", "pipeline"} : LoadFails(what)
    BY <1>2, <2>2 DEF AgentsLoaded, BrokerToolsLoaded, LoadFails
  <2> QED
    BY <1>4, <2>1, <2>2 DEF PageLoads
<1>5. CASE SaveAnswers
  <2>1. PICK s \in saves : UpdateAnswered(s) \/ SaveFails(s) \/ CreateAnswered(s)
    BY <1>5 DEF SaveAnswers
  <2>2. CASE UpdateAnswered(s) \/ SaveFails(s)
    BY <1>2, <2>2 DEF UpdateAnswered, SaveFails
  <2>3. CASE CreateAnswered(s)
    BY <1>2, <1>3, <2>3 DEF CreateAnswered, pageVars
  <2> QED
    BY <2>1, <2>2, <2>3
<1>6. CASE StartAnswers
  BY <1>2, <1>3, <1>6 DEF StartAnswers, StartAnswered, RunOpened, LeaveFor
<1>7. CASE UserEdits
  <2>1. CASE LeaveAndOpen
    BY <1>3, <2>1 DEF LeaveAndOpen, LeaveFor
  <2>2. CASE \/ \E c \in Configs : Stage(c)
             \/ \E s \in Settings : SetSettings(s)
             \/ \E s \in Subscriptions : Subscribe(s)
             \/ SelectItem
    BY <1>2, <2>2 DEF Stage, SetSettings, Subscribe, SelectItem
  <2>3. CASE \E b \in Brokers : SetBroker(b)
    BY <2>3 DEF SetBroker, BrokerInv
  <2>4. CASE \/ ApplyRightPaneChanges /\ currentPipelineId = NoId
             \/ ApplyBulkModelSelection /\ currentPipelineId = NoId
    BY <1>2, <2>4 DEF ApplyRightPaneChanges, ApplyBulkModelSelection
  <2>5. CASE ExecutePipeline /\ currentPipelineId # NoId
    BY <1>1, <2>5 DEF ExecutePipeline, BrokerInv
  <2>6. ASSUME NEW nodes, Sends(nodes) PROVE BrokerInv'
    BY <1>1, <2>6 DEF Sends, Send, BrokerInv
  <2> QED
    BY <1>7, <2>1, <2>2, <2>3, <2>4, <2>5, <2>6, UserSteps
<1>8. CASE UNCHANGED builderVars
  BY <1>2, <1>8 DEF builderVars, pageVars
<1> QED
  BY <1>4, <1>5, <1>6, <1>7, <1>8 DEF BuilderNext

\* A save of this page is of its pipeline; without trouble it is alone, of a ready page.
LEMMA SavesStep == TypeInv /\ SavesInv /\ [BuilderNext]_builderVars => SavesInv'
<1> SUFFICES ASSUME TypeInv, SavesInv, [BuilderNext]_builderVars PROVE SavesInv'
  OBVIOUS
<1> USE BuilderAssumption
<1>1. ASSUME saves' \subseteq saves, trouble' = {} => trouble = {},
             UNCHANGED <<loads, currentPipelineId>>
      PROVE  SavesInv'
  BY <1>1 DEF SavesInv, AgentsKnown, Ready
<1>2. ASSUME \A s \in saves' : s.page # "here", trouble' = {} => saves' = {} PROVE SavesInv'
  BY <1>2 DEF SavesInv
<1>3. saves \subseteq Saves
  BY DEF TypeInv, BuilderTypeOK, Saves
<1>4. CASE PageLoads
  <2>1. UNCHANGED <<saves, trouble>>
    BY <1>4 DEF PageLoads, AgentsLoaded, BrokerToolsLoaded, PipelineLoaded, LoadFails, remoteVars
  <2>2. trouble = {} => saves = {}
    <3>1. ~Ready
      BY <1>4 DEF PageLoads, AgentsLoaded, BrokerToolsLoaded, PipelineLoaded, LoadFails, Ready,
                  AgentsKnown
    <3> QED
      BY <3>1 DEF SavesInv
  <2>3. AgentsKnown => AgentsKnown' /\ currentPipelineId' = currentPipelineId
    <3>1. CASE AgentsLoaded
      BY <3>1 DEF AgentsLoaded, AgentsKnown
    <3>2. loads \in [{"agents", "brokers", "pipeline"} -> {"none", "asked", "ok", "failed"}]
      BY DEF TypeInv, BuilderTypeOK
    <3>3. CASE BrokerToolsLoaded \/ PipelineLoaded
      BY <3>2, <3>3 DEF BrokerToolsLoaded, PipelineLoaded, AgentsKnown
    <3>4. ASSUME NEW what \in {"agents", "brokers", "pipeline"}, LoadFails(what), AgentsKnown
          PROVE  AgentsKnown' /\ currentPipelineId' = currentPipelineId
      BY <3>2, <3>4 DEF LoadFails, AgentsKnown
    <3> QED
      BY <1>4, <3>1, <3>3, <3>4 DEF PageLoads
  <2> QED
    BY <2>1, <2>2, <2>3 DEF SavesInv
<1>5. CASE SaveAnswers
  <2>1. PICK s \in saves : UpdateAnswered(s) \/ SaveFails(s) \/ CreateAnswered(s)
    BY <1>5 DEF SaveAnswers
  <2>2. CASE UpdateAnswered(s) \/ SaveFails(s)
    BY <1>1, <2>2 DEF UpdateAnswered, SaveFails
  <2>3. CASE CreateAnswered(s)
    <3>1. CASE s.page = "done"
      BY <1>1, <2>3, <3>1 DEF CreateAnswered, pageVars
    <3>2. CASE s.page # "done"
      <4>1. saves' = Settled(saves \ {s}) /\ trouble' = trouble
        BY <2>3, <3>2 DEF CreateAnswered
      <4>2. saves \ {s} \in SUBSET Saves
        BY <1>3
      <4>3. \A x \in saves' : x.page # "here" /\ \E t \in saves \ {s} : x.id = t.id
        BY <4>1, <4>2, LeftIs
      <4>4. trouble = {} => saves \ {s} = {}
        BY DEF SavesInv
      <4> QED
        BY <1>2, <4>1, <4>3, <4>4
    <3> QED
      BY <3>1, <3>2
  <2> QED
    BY <2>1, <2>2, <2>3
<1>6. ASSUME NEW r, NEW started, LeaveFor(r, started) PROVE SavesInv'
  <2>1. saves' = Left(saves) /\ (trouble' = {} => saves = {})
    BY <1>6 DEF LeaveFor
  <2>2. \A x \in saves' : x.page # "here" /\ \E t \in saves : x.id = t.id
    BY <1>3, <2>1, LeftIs
  <2> QED
    BY <1>2, <2>1, <2>2
<1>7. CASE StartAnswers
  <2>1. PICK x \in starts : StartAnswered(x) \/ RunOpened(x)
    BY <1>7 DEF StartAnswers
  <2>2. CASE StartAnswered(x)
    BY <1>1, <2>2 DEF StartAnswered
  <2>3. CASE RunOpened(x)
    BY <1>6, <2>3 DEF RunOpened
  <2> QED
    BY <2>1, <2>2, <2>3
<1>8. ASSUME NEW nodes, Sends(nodes) PROVE SavesInv'
  <2>1. UNCHANGED <<loads, currentPipelineId>>
    BY <1>8 DEF Sends, Send
  <2>2. CASE ~AgentsKnown
    BY <1>1, <1>8, <2>1, <2>2 DEF Sends, Send
  <2>3. CASE AgentsKnown
    <3>1. PICK s : /\ saves' = saves \cup {s} /\ s.page = "here" /\ s.id = currentPipelineId
                   /\ trouble' = Early(trouble) \cup (IF saves = {} THEN {} ELSE {"overlap"})
      BY <1>8, <2>3, SaveIs
    <3>2. trouble' = {} => Ready /\ saves = {}
      BY <3>1 DEF Early
    <3>3. (AgentsKnown' <=> AgentsKnown) /\ (Ready' <=> Ready)
      BY <2>1 DEF AgentsKnown, Ready
    <3>4. \A x \in saves' : x.page = "here" => AgentsKnown' /\ x.id = currentPipelineId'
      BY <2>1, <2>3, <3>1, <3>3 DEF SavesInv
    <3> QED
      BY <3>1, <3>2, <3>3, <3>4 DEF SavesInv
  <2> QED
    BY <2>2, <2>3
<1>9. CASE UserEdits
  <2>1. CASE LeaveAndOpen
    BY <1>6, <2>1 DEF LeaveAndOpen
  <2>2. CASE \/ \E c \in Configs : Stage(c)
             \/ \E s \in Settings : SetSettings(s)
             \/ \E s \in Subscriptions : Subscribe(s)
             \/ \E b \in Brokers : SetBroker(b)
             \/ SelectItem
    BY <1>1, <2>2 DEF Stage, SetSettings, Subscribe, SetBroker, SelectItem, remoteVars
  <2>3. CASE \/ ApplyRightPaneChanges /\ currentPipelineId = NoId
             \/ ApplyBulkModelSelection /\ currentPipelineId = NoId
    BY <1>1, <2>3 DEF ApplyRightPaneChanges, ApplyBulkModelSelection, remoteVars
  <2>4. CASE ExecutePipeline /\ currentPipelineId # NoId
    BY <1>1, <2>4 DEF ExecutePipeline, Early
  <2> QED
    BY <1>8, <1>9, <2>1, <2>2, <2>3, <2>4, UserSteps
<1>10. CASE UNCHANGED builderVars
  BY <1>1, <1>10 DEF builderVars, pageVars, remoteVars
<1> QED
  BY <1>4, <1>5, <1>7, <1>9, <1>10 DEF BuilderNext

-------------------------------------------------------------------------------
(* What a page without edits shows                                         *)

\* When what is stored and what is shown agree, by the fields of the two.
AgreeInFields(stored, page) ==
  /\ stored.broker = page.broker
  /\ stored.settings.trigger = "signal" => stored.subscriptions = page.subscriptions
  /\ IF stored.settings.blocked
       THEN stored.settings = page.settings /\ stored.nodes = page.nodes
       ELSE /\ [stored.settings EXCEPT !.blocked = FALSE] = [page.settings EXCEPT !.blocked = FALSE]
            /\ [a \in Agents |-> [stored.nodes[a] EXCEPT !.blocked = FALSE]] =
                 [a \in Agents |-> [page.nodes[a] EXCEPT !.blocked = FALSE]]

LEMMA AgreeIs ==
  ASSUME NEW x \in Bodies, NEW y \in Bodies
  PROVE  Agree(x, y) <=> AgreeInFields(x, y)
<1> DEFINE plain(b) == [b EXCEPT !.settings.blocked = FALSE,
                                 !.nodes = [a \in Agents |-> [b.nodes[a] EXCEPT !.blocked = FALSE]]]
<1>1. ASSUME NEW b \in Bodies
      PROVE  /\ plain(b).settings = [b.settings EXCEPT !.blocked = FALSE]
             /\ plain(b).nodes = [a \in Agents |-> [b.nodes[a] EXCEPT !.blocked = FALSE]]
  BY DEF Bodies
<1>2. Agree(x, y) <=>
        /\ x.broker = y.broker
        /\ x.settings.trigger = "signal" => x.subscriptions = y.subscriptions
        /\ IF x.settings.blocked THEN x.settings = y.settings /\ x.nodes = y.nodes
           ELSE plain(x).settings = plain(y).settings /\ plain(x).nodes = plain(y).nodes
  BY DEF Agree
<1>3. /\ plain(x).settings = [x.settings EXCEPT !.blocked = FALSE]
      /\ plain(y).settings = [y.settings EXCEPT !.blocked = FALSE]
      /\ plain(x).nodes = [a \in Agents |-> [x.nodes[a] EXCEPT !.blocked = FALSE]]
      /\ plain(y).nodes = [a \in Agents |-> [y.nodes[a] EXCEPT !.blocked = FALSE]]
  BY <1>1
<1> HIDE DEF plain
<1>4. CASE x.settings.blocked
  BY <1>2, <1>4 DEF AgreeInFields
<1>5. CASE ~x.settings.blocked
  BY <1>2, <1>3, <1>5 DEF AgreeInFields
<1> QED
  BY <1>4, <1>5

LEMMA AgreeWhenSame ==
  ASSUME NEW x \in Bodies, NEW y \in Bodies, x.broker = y.broker, x.settings = y.settings,
         x.nodes = y.nodes, x.subscriptions = y.subscriptions
  PROVE  Agree(x, y)
<1>1. AgreeInFields(x, y)
  BY DEF AgreeInFields
<1> QED
  BY <1>1, AgreeIs

LEMMA AgreeWhenStored ==
  ASSUME NEW x \in Bodies, NEW y \in Bodies, NEW old \in Subscriptions, Agree(x, y)
  PROVE  Agree(Stored(x, old), y)
<1>1. AgreeInFields(x, y)
  BY AgreeIs
<1>2. AgreeInFields(Stored(x, old), y)
  BY <1>1, BodyIs DEF AgreeInFields
<1> QED
  BY <1>2, AgreeIs, BodyIs

LEMMA ShownIs ==
  ASSUME BuilderAssumption, TypeInv, AgentsKnown
  PROVE  /\ Shown \in Bodies /\ Shown.settings = settings
         /\ Shown.subscriptions = signalSubscriptions /\ Shown.broker = brokerTool
         /\ Shown.nodes = WithPolicy(Flushed)
<1>1. settings \in Settings /\ signalSubscriptions \in Subscriptions /\ brokerTool \in Brokers
  BY DEF TypeInv, BuilderTypeOK
<1>2. WithPolicy(Flushed) \in Nodes
  BY <1>1, FlushedIs, PolicyIs
<1> QED
  BY <1>1, <1>2 DEF Shown, Bodies, Nodes

\* A pipeline that is loaded without a change of its broker is shown as it is stored.
LEMMA LoadedIs ==
  ASSUME BuilderAssumption, NEW body \in Bodies, Synced(body),
         body.broker # NoBroker => OfOneBroker(body),
         NEW selected \in Brokers, NEW given \in {selected, NoBroker}, NEW known \in BOOLEAN,
         Either(BrokerOf(body), selected) = body.broker
  PROVE  LET built == IF known THEN Either(BrokerOf(body), selected) ELSE NoBroker
             kept == Either(BrokerOf(body), given)
         IN  /\ EnforceBrokerOnAgents(body.nodes, Either(built, kept)) = body.nodes
             /\ \A a \in UsesBroker : body.nodes[a].broker = body.broker
<1> DEFINE loaded == BrokerOf(body)
           built == IF known THEN Either(loaded, selected) ELSE NoBroker
           kept == Either(loaded, given)
<1>1. body.nodes \in Nodes /\ body.broker \in Brokers
  BY DEF Bodies, Nodes
<1>2. body.broker # NoBroker => loaded = body.broker
  BY DEF BrokerOf, Either
<1>3. body.broker = NoBroker => \A a \in UsesBroker : body.nodes[a].broker = NoBroker
  BY DEF BrokerOf, Either, UsesBroker
<1>4. \A a \in UsesBroker : body.nodes[a].broker = body.broker
  BY <1>3 DEF OfOneBroker
<1> HIDE DEF loaded
<1>5. Either(built, kept) = body.broker
  BY <1>2 DEF Either, loaded
<1> QED
  BY <1>1, <1>4, <1>5, EnforcedIs DEF loaded

LEMMA LoadedAgrees ==
  ASSUME BuilderAssumption, NEW body \in Bodies, Synced(body), settings = LoadedSettings(body),
         NEW page \in Bodies, page.settings = settings, page.broker = body.broker,
         page.subscriptions = body.subscriptions, page.nodes = WithPolicy(body.nodes)
  PROVE  Agree(body, page)
<1>1. body.settings \in Settings /\ body.nodes \in Nodes /\ page.nodes \in Nodes
  BY DEF Bodies, Nodes
<1>2. settings = [body.settings EXCEPT !.blocked = TRUE] /\ settings.blocked = TRUE
  BY <1>1 DEF LoadedSettings, Settings
<1>3. CASE body.settings.blocked
  <2>1. settings = body.settings
    BY <1>1, <1>2, <1>3 DEF Settings
  <2>2. \A a \in Agents : a = "trade_manager_agent" => body.nodes[a].blocked = settings.blocked
    BY <2>1 DEF Synced
  <2>3. WithPolicy(body.nodes) = body.nodes
    BY <1>1, <2>1, <2>2, PolicyIs
  <2> QED
    BY <2>1, <2>3, AgreeWhenSame
<1>4. CASE ~body.settings.blocked
  <2>1. [body.settings EXCEPT !.blocked = FALSE] = [settings EXCEPT !.blocked = FALSE]
    BY <1>1, <1>2 DEF Settings
  <2>2. \A a \in Agents :
          [body.nodes[a] EXCEPT !.blocked = FALSE] = [page.nodes[a] EXCEPT !.blocked = FALSE]
    <3> TAKE a \in Agents
    <3>1. body.nodes[a] \in Configs
      BY <1>1 DEF Nodes
    <3>2. page.nodes[a] \in {body.nodes[a], [body.nodes[a] EXCEPT !.blocked = settings.blocked]}
      BY <1>1 DEF WithPolicy, Nodes
    <3>3. CASE page.nodes[a] = [body.nodes[a] EXCEPT !.blocked = settings.blocked]
      BY <3>1, <3>3 DEF Configs
    <3> QED
      BY <3>2, <3>3
  <2>3. [a \in Agents |-> [body.nodes[a] EXCEPT !.blocked = FALSE]] =
          [a \in Agents |-> [page.nodes[a] EXCEPT !.blocked = FALSE]]
    BY <2>2
  <2>4. AgreeInFields(body, page)
    BY <1>4, <2>1, <2>3 DEF AgreeInFields
  <2> QED
    BY <2>4, AgreeIs
<1> QED
  BY <1>3, <1>4

\* What the page shows depends on nothing else.
ShownVars == <<settings, signalSubscriptions, brokerTool, agentNodes, selectedItem, editingConfig>>

LEMMA ShownKept == UNCHANGED ShownVars => Shown' = Shown /\ (Unstaged' <=> Unstaged)
BY DEF ShownVars, Shown, WithPolicy, Flushed, Unstaged

LEMMA QuietKept ==
  ASSUME QuietInv, Quiet' => Quiet,
         UNCHANGED <<ShownVars, currentPipelineId, saves, pipelines>>
  PROVE  QuietInv'
<1>1. Shown' = Shown /\ (Unstaged' <=> Unstaged)
  BY ShownKept
<1>2. UNCHANGED <<agentNodes, brokerTool, currentPipelineId, saves, pipelines>>
  BY DEF ShownVars
<1>3. SUFFICES ASSUME Quiet' PROVE /\ Unstaged'
                                   /\ \A a \in UsesBroker : agentNodes'[a].broker = brokerTool'
                                   /\ saves' = {} => Agree(pipelines'[currentPipelineId'], Shown')
                                   /\ \A s \in saves' : Agree(s.body, Shown')
  BY DEF QuietInv
<1>4. /\ Unstaged
      /\ \A a \in UsesBroker : agentNodes[a].broker = brokerTool
      /\ saves = {} => Agree(pipelines[currentPipelineId], Shown)
      /\ \A s \in saves : Agree(s.body, Shown)
  BY <1>3 DEF QuietInv
<1> QED
  BY <1>1, <1>2, <1>4

\* What is known of a page in its next state.
LEMMA NextShown ==
  (TypeInv /\ AgentsKnown =>
     /\ agentNodes \in Nodes /\ (Unstaged => Flushed = agentNodes)
     /\ Shown \in Bodies /\ Shown.settings = settings
     /\ Shown.subscriptions = signalSubscriptions /\ Shown.broker = brokerTool
     /\ Shown.nodes = WithPolicy(Flushed))'
<1>1. TypeInv /\ AgentsKnown =>
        /\ agentNodes \in Nodes /\ (Unstaged => Flushed = agentNodes)
        /\ Shown \in Bodies /\ Shown.settings = settings
        /\ Shown.subscriptions = signalSubscriptions /\ Shown.broker = brokerTool
        /\ Shown.nodes = WithPolicy(Flushed)
  BY BuilderAssumption, FlushedIs, ShownIs
<1> QED
  BY <1>1, PTL

\* A page shows a pipeline as it is stored.
LoadShows(body, page) ==
  /\ Synced(body) /\ settings = LoadedSettings(body)
  /\ page.settings = settings /\ page.broker = body.broker
  /\ page.subscriptions = body.subscriptions /\ page.nodes = WithPolicy(body.nodes)

LEMMA NextAgrees == (\A body, page \in Bodies : LoadShows(body, page) => Agree(body, page))'
<1>1. \A body, page \in Bodies : LoadShows(body, page) => Agree(body, page)
  BY BuilderAssumption, LoadedAgrees DEF LoadShows
<1> QED
  BY <1>1, PTL

\* A page that is quiet after a save or a load shows the nodes that it has then.
LEMMA Refilled ==
  ASSUME BuilderAssumption, TypeInv', AgentsKnown',
         editingConfig' = SelectedConfig(agentNodes', selectedItem')
  PROVE  /\ Unstaged' /\ Flushed' = agentNodes' /\ Shown' \in Bodies
         /\ Shown'.settings = settings' /\ Shown'.subscriptions = signalSubscriptions'
         /\ Shown'.broker = brokerTool' /\ Shown'.nodes = WithPolicy(agentNodes)'
<1>1. Unstaged'
  BY NextShown, SelectedIs DEF Unstaged
<1>2. WithPolicy(Flushed)' = WithPolicy(agentNodes)'
  BY <1>1, NextShown DEF WithPolicy
<1> QED
  BY <1>1, <1>2, NextShown

LEMMA QuietLoaded ==
  ASSUME BuilderAssumption, TypeInv, TypeInv', StoredInv, BrokerInv, SavesInv, PipelineLoaded
  PROVE  QuietInv'
<1>1. AgentsKnown /\ routeId # NoId /\ routeId \in Pipelines /\ currentPipelineId = routeId
  BY DEF PipelineLoaded, TypeInv, LoadsInv, BuilderTypeOK
<1>2. PICK body \in Bodies : body = pipelines[routeId]
  BY <1>1 DEF TypeInv, StandsInv, Stands
<1>3. Synced(body) /\ (body.broker # NoBroker => OfOneBroker(body))
  BY <1>1, <1>2 DEF StoredInv
<1>4. /\ settings' = LoadedSettings(body) /\ signalSubscriptions' = body.subscriptions
      /\ brokerTool' = Either(BrokerOf(body), brokerTool)
      /\ agentNodes' = EnforceBrokerOnAgents(body.nodes,
                         Either(IF loads.brokers = "ok" THEN Either(BrokerOf(body), brokerTool)
                                ELSE NoBroker, Either(BrokerOf(body), pipelineBrokerTool)))
      /\ editingConfig' = SelectedConfig(agentNodes', selectedItem)
      /\ dirty' = (brokerTool' # body.broker)
      /\ UNCHANGED <<currentPipelineId, selectedItem, saves, pipelines, trouble>>
      /\ loads.pipeline = "asked"
  BY <1>2 DEF PipelineLoaded, remoteVars
<1>5. AgentsKnown'
  BY <1>1 DEF PipelineLoaded, AgentsKnown, TypeInv, BuilderTypeOK
<1>6. SUFFICES ASSUME Quiet'
               PROVE  /\ Unstaged'
                      /\ \A a \in UsesBroker : agentNodes'[a].broker = brokerTool'
                      /\ saves' = {} => Agree(pipelines'[currentPipelineId'], Shown')
                      /\ \A s \in saves' : Agree(s.body, Shown')
  BY DEF QuietInv
<1>7. brokerTool' = body.broker
  BY <1>4, <1>6 DEF Quiet
<1>8. saves = {}
  BY <1>4, <1>6 DEF Quiet, SavesInv, Ready
<1>9. /\ agentNodes' = body.nodes
      /\ \A a \in UsesBroker : body.nodes[a].broker = body.broker
  <2>1. brokerTool \in Brokers /\ pipelineBrokerTool \in {brokerTool, NoBroker}
        /\ (loads.brokers = "ok") \in BOOLEAN
    BY DEF TypeInv, BuilderTypeOK, BrokerInv
  <2>2. Either(BrokerOf(body), brokerTool) = body.broker
    BY <1>4, <1>7
  <2> QED
    BY <1>2, <1>3, <1>4, <2>1, <2>2, LoadedIs
<1>10. /\ Unstaged' /\ Shown' \in Bodies
       /\ Shown'.settings = settings' /\ Shown'.subscriptions = signalSubscriptions'
       /\ Shown'.broker = brokerTool' /\ Shown'.nodes = WithPolicy(agentNodes)'
  BY <1>4, <1>5, Refilled
<1>11. Agree(body, Shown')
  <2>1. WithPolicy(agentNodes)' = WithPolicy(body.nodes)'
    BY <1>9 DEF WithPolicy
  <2>2. LoadShows(body, Shown)'
    BY <1>3, <1>4, <1>7, <1>10, <2>1 DEF LoadShows
  <2> QED
    BY <1>10, <2>2, NextAgrees
<1> QED
  BY <1>1, <1>2, <1>4, <1>7, <1>8, <1>9, <1>10, <1>11

LEMMA QuietSent ==
  ASSUME BuilderAssumption, TypeInv, TypeInv', NEW nodes, Sends(nodes), AgentsKnown
  PROVE  QuietInv'
<1>1. PICK s :
        /\ saves' = saves \cup {s}
        /\ s.body.settings = settings /\ s.body.subscriptions = signalSubscriptions
        /\ s.body.broker = BuildPipelineBrokerTool /\ s.body.nodes = agentNodes'
        /\ agentNodes' \in Nodes
        /\ \A a \in UsesBroker : agentNodes'[a].broker = BuildPipelineBrokerTool
        /\ WithPolicy(agentNodes') = agentNodes'
        /\ editingConfig' = SelectedConfig(agentNodes', selectedItem)
        /\ trouble' = Early(trouble) \cup (IF saves = {} THEN {} ELSE {"overlap"})
  BY SaveIs
<1>2. UNCHANGED <<loads, currentPipelineId, settings, signalSubscriptions, brokerTool,
                  selectedItem>>
  BY DEF Sends, Send
<1>3. AgentsKnown'
  BY <1>2 DEF AgentsKnown
<1>4. SUFFICES ASSUME Quiet'
               PROVE  /\ Unstaged'
                      /\ \A a \in UsesBroker : agentNodes'[a].broker = brokerTool'
                      /\ saves' = {} => Agree(pipelines'[currentPipelineId'], Shown')
                      /\ \A x \in saves' : Agree(x.body, Shown')
  BY DEF QuietInv
<1>5. Ready /\ saves = {}
  BY <1>1, <1>4 DEF Quiet, Early
<1>6. BuildPipelineBrokerTool = brokerTool
  BY <1>5 DEF Ready, BuildPipelineBrokerTool
<1>7. /\ Unstaged' /\ Shown' \in Bodies
      /\ Shown'.settings = settings' /\ Shown'.subscriptions = signalSubscriptions'
      /\ Shown'.broker = brokerTool' /\ Shown'.nodes = WithPolicy(agentNodes)'
  BY <1>1, <1>2, <1>3, Refilled
<1>8. WithPolicy(agentNodes)' = agentNodes'
  BY <1>1, <1>2 DEF WithPolicy
<1>9. s.body \in Bodies
  BY <1>1 DEF TypeInv, BuilderTypeOK
<1>10. Agree(s.body, Shown')
  BY <1>1, <1>2, <1>6, <1>7, <1>8, <1>9, AgreeWhenSame
<1> QED
  BY <1>1, <1>2, <1>5, <1>6, <1>7, <1>10

\* A step that keeps the nodes and refills the pane, or selects another item.
LEMMA QuietRefilled ==
  ASSUME BuilderAssumption, TypeInv, TypeInv', QuietInv, AgentsKnown,
         Quiet' => Quiet /\ agentNodes' = agentNodes,
         editingConfig' = SelectedConfig(agentNodes', selectedItem'),
         UNCHANGED <<loads, settings, signalSubscriptions, brokerTool, currentPipelineId, saves,
                     pipelines>>
  PROVE  QuietInv'
<1>1. AgentsKnown'
  BY DEF AgentsKnown
<1>2. SUFFICES ASSUME Quiet'
               PROVE  /\ Unstaged'
                      /\ \A a \in UsesBroker : agentNodes'[a].broker = brokerTool'
                      /\ saves' = {} => Agree(pipelines'[currentPipelineId'], Shown')
                      /\ \A x \in saves' : Agree(x.body, Shown')
  BY DEF QuietInv
<1>3. agentNodes' = agentNodes
  BY <1>2
<1>4. /\ Unstaged
      /\ \A a \in UsesBroker : agentNodes[a].broker = brokerTool
      /\ saves = {} => Agree(pipelines[currentPipelineId], Shown)
      /\ \A s \in saves : Agree(s.body, Shown)
  BY <1>2 DEF QuietInv
<1>5. Unstaged' /\ Flushed' = agentNodes'
  BY <1>1, Refilled
<1>6. Flushed = agentNodes
  BY <1>4, FlushedIs
<1>7. Shown' = Shown
  BY <1>3, <1>5, <1>6 DEF Shown, WithPolicy
<1> QED
  BY <1>3, <1>4, <1>5, <1>7

LEMMA QuietAnswered ==
  ASSUME BuilderAssumption, TypeInv, SavesInv, QuietInv, NEW s \in saves,
         UpdateAnswered(s) \/ CreateAnswered(s) \/ SaveFails(s)
  PROVE  QuietInv'
<1>1. CASE UpdateAnswered(s)
  <2>1. /\ s.id # NoId /\ pipelines' = Updated(s) /\ saves' = saves \ {s}
        /\ UNCHANGED <<ShownVars, loads, currentPipelineId, dirty, trouble>>
    BY <1>1 DEF UpdateAnswered, ShownVars
  <2>2. Shown' = Shown /\ (Unstaged' <=> Unstaged)
    BY <2>1, ShownKept
  <2>3. SUFFICES ASSUME Quiet'
                 PROVE  /\ Unstaged'
                        /\ \A a \in UsesBroker : agentNodes'[a].broker = brokerTool'
                        /\ saves' = {} => Agree(pipelines'[currentPipelineId'], Shown')
                        /\ \A x \in saves' : Agree(x.body, Shown')
    BY DEF QuietInv
  <2>4. Quiet
    BY <2>1, <2>3 DEF Quiet
  <2>5. /\ Unstaged
        /\ \A a \in UsesBroker : agentNodes[a].broker = brokerTool
        /\ \A x \in saves : Agree(x.body, Shown)
    BY <2>4 DEF QuietInv
  <2>6. AgentsKnown /\ s.id = currentPipelineId
    BY <2>4 DEF Quiet, SavesInv
  <2>7. s.body \in Bodies
    BY DEF TypeInv, BuilderTypeOK
  <2>8. Agree(Stored(s.body, pipelines[s.id].subscriptions), Shown)
    BY <2>1, <2>5, <2>6, <2>7, UpdatedIs, ShownIs, AgreeWhenStored
  <2>9. pipelines'[currentPipelineId'] = Stored(s.body, pipelines[s.id].subscriptions)
    BY <2>1, <2>6, UpdatedIs
  <2>10. UNCHANGED <<agentNodes, brokerTool>>
    BY <2>1 DEF ShownVars
  <2> QED
    BY <2>1, <2>2, <2>5, <2>8, <2>9, <2>10
<1>2. CASE CreateAnswered(s)
  <2>1. CASE s.page = "done"
    <3>1. trouble # {} /\ trouble' = trouble
      BY <1>2, <2>1 DEF SavesInv, CreateAnswered
    <3> QED
      BY <3>1 DEF QuietInv, Quiet
  <2>2. CASE s.page # "done"
    <3>1. currentPipelineId' = NoId
      BY <1>2, <2>2 DEF CreateAnswered, OpenedPage
    <3> QED
      BY <3>1 DEF QuietInv, Quiet
  <2> QED
    BY <2>1, <2>2
<1>3. CASE SaveFails(s)
  <2>1. dirty' = TRUE \/ (s.page # "here" /\ trouble' = trouble)
    BY <1>3 DEF SaveFails
  <2>2. s.page # "here" => trouble # {}
    BY DEF SavesInv
  <2> QED
    BY <2>1, <2>2 DEF QuietInv, Quiet
<1> QED
  BY <1>1, <1>2, <1>3

LEMMA QuietStep ==
  ASSUME BuilderAssumption, TypeInv, TypeInv', StoredInv, BrokerInv, SavesInv, QuietInv,
         [BuilderNext]_builderVars
  PROVE  QuietInv'
<1>1. ASSUME dirty' = TRUE \/ currentPipelineId' = NoId PROVE QuietInv'
  BY <1>1 DEF QuietInv, Quiet
<1>2. ASSUME UNCHANGED <<ShownVars, currentPipelineId, saves, pipelines>>,
             UNCHANGED <<loads, dirty, trouble>>
      PROVE  QuietInv'
  <2>1. Quiet' => Quiet
    BY <1>2 DEF Quiet
  <2> QED
    BY <1>2, <2>1, QuietKept
<1>3. CASE PageLoads
  <2>1. CASE AgentsLoaded
    <3>1. loads'.pipeline # "ok"
      BY <2>1 DEF AgentsLoaded
    <3> QED
      BY <3>1 DEF QuietInv, Quiet
  <2>2. loads \in [{"agents", "brokers", "pipeline"} -> {"none", "asked", "ok", "failed"}]
    BY DEF TypeInv, BuilderTypeOK
  <2>3. ASSUME UNCHANGED <<ShownVars, currentPipelineId, saves, pipelines, dirty, trouble>>,
               loads'.pipeline = "ok" => loads.pipeline = "ok"
        PROVE  QuietInv'
    <3>1. Quiet' => Quiet
      BY <2>3 DEF Quiet
    <3> QED
      BY <2>3, <3>1, QuietKept
  <2>4. CASE BrokerToolsLoaded
    <3>1. loads'.pipeline = loads.pipeline
      BY <2>2, <2>4 DEF BrokerToolsLoaded
    <3> QED
      BY <2>3, <2>4, <3>1 DEF BrokerToolsLoaded, ShownVars, remoteVars
  <2>5. ASSUME NEW what \in {"agents", "brokers", "pipeline"}, LoadFails(what) PROVE QuietInv'
    <3>1. loads'.pipeline = "ok" => loads.pipeline = "ok"
      BY <2>2, <2>5 DEF LoadFails
    <3> QED
      BY <2>3, <2>5, <3>1 DEF LoadFails, ShownVars, remoteVars
  <2>6. CASE PipelineLoaded
    BY <2>6, QuietLoaded
  <2> QED
    BY <1>3, <2>1, <2>4, <2>5, <2>6 DEF PageLoads
<1>4. CASE SaveAnswers
  BY <1>4, QuietAnswered DEF SaveAnswers
<1>5. CASE StartAnswers
  <2>1. PICK x \in starts : StartAnswered(x) \/ RunOpened(x)
    BY <1>5 DEF StartAnswers
  <2>2. CASE StartAnswered(x)
    BY <1>2, <2>2 DEF StartAnswered, ShownVars
  <2>3. CASE RunOpened(x)
    BY <1>1, <2>3 DEF RunOpened, LeaveFor, OpenedPage
  <2> QED
    BY <2>1, <2>2, <2>3
<1>6. CASE UserEdits
  <2>1. CASE LeaveAndOpen
    BY <1>1, <2>1 DEF LeaveAndOpen, LeaveFor, OpenedPage
  <2>2. CASE \/ \E c \in Configs : Stage(c)
             \/ \E s \in Settings : SetSettings(s)
             \/ \E s \in Subscriptions : Subscribe(s)
             \/ \E b \in Brokers : SetBroker(b)
    BY <1>1, <2>2 DEF Stage, SetSettings, Subscribe, SetBroker
  <2>3. CASE SelectItem
    <3>1. /\ UNCHANGED <<loads, settings, signalSubscriptions, brokerTool, currentPipelineId,
                         agentNodes, saves, pipelines, dirty, trouble>>
          /\ editingConfig' = SelectedConfig(agentNodes, selectedItem')
      BY <2>3 DEF SelectItem, remoteVars
    <3>2. CASE AgentsKnown
      BY <3>1, <3>2, QuietRefilled DEF Quiet
    <3>3. CASE ~AgentsKnown
      BY <1>1, <3>1, <3>3 DEF TypeInv, LoadsInv
    <3> QED
      BY <3>2, <3>3
  <2>4. ASSUME NEW nodes, Sends(nodes) PROVE QuietInv'
    <3>1. CASE AgentsKnown
      BY <2>4, <3>1, QuietSent
    <3>2. CASE ~AgentsKnown
      BY <1>1, <2>4, <3>2 DEF Sends, Send, TypeInv, LoadsInv
    <3> QED
      BY <3>1, <3>2
  <2>5. CASE \/ ApplyRightPaneChanges /\ currentPipelineId = NoId
             \/ ApplyBulkModelSelection /\ currentPipelineId = NoId
    BY <1>1, <2>5 DEF ApplyRightPaneChanges, ApplyBulkModelSelection
  <2>6. CASE ExecutePipeline /\ currentPipelineId # NoId
    <3>1. /\ agentNodes' = EnforceBrokerOnAgents(Flushed, BuildPipelineBrokerTool)
          /\ editingConfig' = SelectedConfig(agentNodes', selectedItem)
          /\ trouble' = Early(trouble)
          /\ UNCHANGED <<loads, settings, signalSubscriptions, brokerTool, selectedItem,
                         currentPipelineId, saves, pipelines, dirty>>
      BY <2>6 DEF ExecutePipeline
    <3>2. AgentsKnown
      BY <2>6 DEF TypeInv, LoadsInv
    <3>3. ASSUME Quiet' PROVE Quiet /\ agentNodes' = agentNodes
      <4>1. Ready /\ trouble = {}
        BY <3>1, <3>3 DEF Quiet, Early
      <4>2. Quiet
        BY <3>1, <3>3, <4>1 DEF Quiet
      <4>3. Unstaged /\ \A a \in UsesBroker : agentNodes[a].broker = brokerTool
        BY <4>2 DEF QuietInv
      <4>4. Flushed = agentNodes /\ agentNodes \in Nodes
        BY <3>2, <4>3, FlushedIs
      <4>5. BuildPipelineBrokerTool = brokerTool /\ brokerTool \in Brokers
        BY <4>1 DEF Ready, BuildPipelineBrokerTool, TypeInv, BuilderTypeOK
      <4> QED
        BY <3>1, <4>2, <4>3, <4>4, <4>5, EnforcedIs
    <3> QED
      BY <3>1, <3>2, <3>3, QuietRefilled
  <2> QED
    BY <1>6, <2>1, <2>2, <2>3, <2>4, <2>5, <2>6, UserSteps
<1>7. CASE UNCHANGED builderVars
  BY <1>2, <1>7 DEF builderVars, pageVars, remoteVars, ShownVars
<1> QED
  BY <1>3, <1>4, <1>5, <1>6, <1>7 DEF BuilderNext

BuilderInv ==
  /\ TypeInv /\ SentInv /\ StoredInv /\ BrokerInv /\ SavesInv /\ QuietInv

LEMMA BuilderInitially == BuilderInit => BuilderInv
<1> SUFFICES ASSUME BuilderInit PROVE BuilderInv
  OBVIOUS
<1>1. TypeInv
  BY TypeInitially
<1>2. SentInv /\ BrokerInv /\ SavesInv /\ QuietInv
  BY DEF BuilderInit, SentInv, BrokerInv, SavesInv, QuietInv, Quiet
<1>3. StoredInv
  <2>1. PICK p \in Pipelines, body \in StoredBefore :
          pipelines = [q \in Pipelines |-> IF q = p THEN body ELSE NoId]
    BY DEF BuilderInit
  <2>2. Synced(body) /\ (body.broker # NoBroker => OfOneBroker(body))
    BY BuilderAssumption, OldBodyIs
  <2> QED
    BY <2>1, <2>2, NothingAssumption DEF StoredInv
<1> QED
  BY <1>1, <1>2, <1>3 DEF BuilderInv

LEMMA BuilderStep == BuilderInv /\ [BuilderNext]_builderVars => BuilderInv'
<1> SUFFICES ASSUME BuilderInv, [BuilderNext]_builderVars PROVE BuilderInv'
  OBVIOUS
<1>1. TypeInv'
  BY TypeStep DEF BuilderInv
<1>2. SentInv' /\ StoredInv'
  BY StoreStep DEF BuilderInv
<1>3. BrokerInv'
  BY BrokerStep DEF BuilderInv
<1>4. SavesInv'
  BY SavesStep DEF BuilderInv
<1>5. QuietInv'
  BY <1>1, BuilderAssumption, QuietStep DEF BuilderInv
<1> QED
  BY <1>1, <1>2, <1>3, <1>4, <1>5 DEF BuilderInv

LEMMA BuilderInvariant == BuilderSpec => []BuilderInv
BY BuilderInitially, BuilderStep, PTL DEF BuilderSpec

-------------------------------------------------------------------------------

LEMMA SavedHolds == BuilderInv => SavedIsShown
<1> SUFFICES ASSUME BuilderInv, AtRest PROVE Agree(pipelines[currentPipelineId], Shown)
  BY DEF SavedIsShown
<1>1. loads.pipeline = "ok"
  BY DEF AtRest, Ready, BuilderInv, TypeInv, LoadsInv
<1> QED
  BY <1>1 DEF AtRest, BuilderInv, QuietInv, Quiet

\* A page at rest shows what is stored: the invariant follows what it shows from the load
\* or the flush that fixed it, over the save on its way, to the stored pipeline.
THEOREM Saved == BuilderSpec => []SavedIsShown
BY SavedHolds, BuilderInvariant, PTL

LEMMA SoundHolds == BuilderInv => StoredIsSound
<1> SUFFICES ASSUME BuilderInv PROVE StoredIsSound
  OBVIOUS
<1>1. OneBroker
  BY DEF BuilderInv, SentInv, OfOneBroker, OneBroker
<1>2. ASSUME AtRest, GetReadiness PROVE ReadyIsStored
  <2> DEFINE stored == pipelines[currentPipelineId]
  <2>1. AgentsKnown /\ loads.brokers = "ok" /\ loads.pipeline = "ok" /\ currentPipelineId # NoId
    BY <1>2 DEF AtRest, Ready, BuilderInv, TypeInv, LoadsInv
  <2>2. Quiet /\ saves = {}
    BY <1>2, <2>1 DEF AtRest, Quiet
  <2>3. Unstaged /\ Agree(stored, Shown)
    BY <2>2 DEF BuilderInv, QuietInv
  <2>4. stored \in Bodies /\ currentPipelineId \in Pipelines
    BY <2>1 DEF BuilderInv, TypeInv, BuilderTypeOK, LoadsInv, StandsInv, Stands
  <2>5. /\ Shown \in Bodies /\ Shown.settings = settings /\ Shown.broker = brokerTool
        /\ Shown.nodes = WithPolicy(agentNodes) /\ agentNodes \in Nodes
    BY <2>1, <2>3, BuilderAssumption, ShownIs, FlushedIs DEF BuilderInv
  <2>6. AgreeInFields(stored, Shown)
    BY <2>3, <2>4, <2>5, AgreeIs
  <2>7. stored.broker # NoBroker /\ stored.broker.account
    <3>1. brokerTool # NoBroker /\ brokerTool.account
      BY <1>2, <2>1 DEF GetReadiness, IsPipelineBrokerConfigured, BuildPipelineBrokerTool, Either,
                        BuilderInv, BrokerInv
    <3> QED
      BY <2>5, <2>6, <3>1 DEF AgreeInFields
  <2>8. \A a \in UsesBroker : stored.nodes[a].broker = stored.broker
    BY <2>4, <2>7 DEF BuilderInv, StoredInv, OfOneBroker
  <2>9. ASSUME NEW a \in Agents
        PROVE  stored.nodes[a].instructions = agentNodes[a].instructions
    <3>1. Written(Shown.nodes[a]) = Written(agentNodes[a]) /\ Shown.nodes \in Nodes
      BY <2>5, BuilderAssumption, PolicyIs DEF BuilderInv, TypeInv, BuilderTypeOK
    <3>2. stored.nodes[a] \in Configs /\ Shown.nodes[a] \in Configs
      BY <2>4, <3>1 DEF Bodies, Nodes
    <3>3. \/ stored.nodes[a] = Shown.nodes[a]
          \/ [stored.nodes[a] EXCEPT !.blocked = FALSE] =
               [Shown.nodes[a] EXCEPT !.blocked = FALSE]
      <4>1. CASE stored.settings.blocked
        BY <2>6, <4>1 DEF AgreeInFields
      <4>2. CASE ~stored.settings.blocked
        <5> DEFINE x == [b \in Agents |-> [stored.nodes[b] EXCEPT !.blocked = FALSE]]
                   y == [b \in Agents |-> [Shown.nodes[b] EXCEPT !.blocked = FALSE]]
        <5>1. x = y
          BY <2>6, <4>2 DEF AgreeInFields
        <5>2. x[a] = [stored.nodes[a] EXCEPT !.blocked = FALSE]
              /\ y[a] = [Shown.nodes[a] EXCEPT !.blocked = FALSE]
          OBVIOUS
        <5> HIDE DEF x, y
        <5> QED
          BY <5>1, <5>2
      <4> QED
        BY <4>1, <4>2
    <3>4. stored.nodes[a].instructions = Shown.nodes[a].instructions
      BY <3>2, <3>3 DEF Configs
    <3> QED
      BY <3>1, <3>4 DEF Written
  <2>10. stored.settings.trigger = settings.trigger /\ stored.settings.options = settings.options
    <3>1. stored.settings \in Settings /\ settings \in Settings
      BY <2>4, <2>5 DEF Bodies
    <3>2. \/ stored.settings = settings
          \/ [stored.settings EXCEPT !.blocked = FALSE] = [settings EXCEPT !.blocked = FALSE]
      BY <2>5, <2>6 DEF AgreeInFields
    <3> QED
      BY <3>1, <3>2 DEF Settings
  <2> QED
    BY <1>2, <2>7, <2>8, <2>9, <2>10
       DEF ReadyIsStored, GetReadiness, AgentNeedsInstructions
<1> QED
  BY <1>1, <1>2 DEF StoredIsSound, ReadyIsStored

\* What is stored when the page is at rest and calls its pipeline fully configured is what
\* a run needs, and all that is on its way is of one broker.
THEOREM Sound == BuilderSpec => []StoredIsSound
BY SoundHolds, BuilderInvariant, PTL
===============================================================================
