----------------------------- MODULE DeskProofs -----------------------------
(***************************************************************************)
(* Proofs about ConfigStore: its types, that the active agent is always    *)
(* one of the agents, and that the environment follows the active agent's  *)
(* model, for any number of requests, agents, models, failures and crashes.*)
(* Then the types of Suggestions and, with the invariants of the other     *)
(* four, those of the desk the six components make in MCDesk.              *)
(***************************************************************************)
EXTENDS MCDesk, TWSClientProofs, AutonomousBeatProofs, OrderPlacementProofs,
        SpreadBuilderProofs

-----------------------------------------------------------------------------
(* The configurations *)

\* A configuration the store may hold: typed, with the default agent, and
\* with an active agent that exists.
Sound(c) == c \in ConfigType /\ Default \in c.ids /\ c.active \in c.ids

\* The inductive invariant of the agents.
AgentInv ==
  /\ Sound(config) /\ Sound(file)
  /\ ConfigTypeOK

-----------------------------------------------------------------------------
(* What the operations do to a configuration *)

\* createDefaultConfig makes a sound configuration.
LEMMA DefaultIsSound == Sound(DefaultConfig)
BY ConfigAssumption DEF Sound, DefaultConfig, ConfigType, AllAgents

\* The model that is run is one of the models.
LEMMA ActiveIsModel ==
  ASSUME NEW c, Sound(c)
  PROVE  ActiveModelID(c) \in Models
BY DEF Sound, ConfigType, ActiveModelID, AllAgents

\* AddAgent keeps it sound, and the model that is run.
LEMMA AddIsSound ==
  ASSUME Sound(config), NEW a \in AgentIds, a \notin config.ids, NEW m \in Models \union {NoModel}
  PROVE  /\ Sound(WithAgent(a, m))
         /\ ActiveModelID(WithAgent(a, m)) = ActiveModelID(config)
<1> DEFINE d == WithAgent(a, m)
<1>1. d \in ConfigType
  BY DEF Sound, ConfigType, WithAgent, AllAgents
<1>2. d.ids = config.ids \union {a} /\ d.active = config.active /\ d.activeModel = config.activeModel
  BY DEF Sound, ConfigType, WithAgent
<1>3. d.modelOf[config.active] = config.modelOf[config.active]
  BY DEF Sound, ConfigType, WithAgent, AllAgents
<1> HIDE DEF d
<1>4. Sound(d) /\ ActiveModelID(d) = ActiveModelID(config)
  BY <1>1, <1>2, <1>3 DEF Sound, ActiveModelID
<1> QED BY <1>4 DEF d

\* UpdateAgent keeps it sound.
LEMMA UpdateIsSound ==
  ASSUME Sound(config), NEW a \in AllAgents, NEW m \in Models \union {NoModel}
  PROVE  Sound(Updated(a, m))
BY DEF Sound, ConfigType, Updated, AllAgents

\* RemoveAgent keeps it sound; the model changes only if the active agent goes.
LEMMA WithoutIsSound ==
  ASSUME Sound(config), NEW a \in AllAgents, a # Default
  PROVE  /\ Sound(WithoutAgent(a))
         /\ \/ config.active \notin WithoutAgent(a).ids
            \/ ActiveModelID(WithoutAgent(a)) = ActiveModelID(config)
<1> DEFINE d == WithoutAgent(a)
<1>1. d \in ConfigType /\ d.ids = config.ids \ {a} /\ d.activeModel = config.activeModel
  BY DEF Sound, ConfigType, WithoutAgent, AllAgents
<1>2. d.active = (IF config.active = a THEN Default ELSE config.active)
  BY DEF Sound, ConfigType, WithoutAgent, AllAgents
<1>3. config.active # a => d.modelOf[config.active] = config.modelOf[config.active]
  BY DEF Sound, ConfigType, WithoutAgent, AllAgents
<1> HIDE DEF d
<1>4. Sound(d)
  BY <1>1, <1>2 DEF Sound
<1>5. config.active # a => ActiveModelID(d) = ActiveModelID(config)
  BY <1>1, <1>2, <1>3 DEF ActiveModelID
<1> QED BY <1>1, <1>4, <1>5 DEF d

\* SetActiveAgent keeps it sound.
LEMMA ActivateIsSound ==
  ASSUME Sound(config), NEW a \in config.ids
  PROVE  Sound(Activated(a))
BY DEF Sound, ConfigType, Activated, AllAgents

\* SetActiveAgentModel keeps it sound.
LEMMA ModelIsSound ==
  ASSUME Sound(config), NEW m \in Models
  PROVE  Sound(WithModel(m))
BY DEF Sound, ConfigType, WithModel, AllAgents

-----------------------------------------------------------------------------
(* The agents *)

\* A save keeps the invariant when what it saves is sound.
LEMMA ChangeKeepsAgents ==
  ASSUME AgentInv, NEW h \in Handlers, NEW c, Sound(c), NEW next \in {"sync", "broadcast"},
         NEW goesOn \in BOOLEAN, Change(h, c, next, goesOn)
  PROVE  AgentInv'
<1>1. Sound(config)' /\ config' = c /\ env' = env
  BY DEF Change, Sound, ConfigType
<1>2. file' \in {c, file}
  BY DEF Change
<1>3. Sound(file)'
  BY <1>2 DEF AgentInv, Sound, ConfigType
<1>4. torn' \in BOOLEAN
  BY DEF Change, AgentInv, ConfigTypeOK
<1>5. \E n \in {next, "idle"} : handler' = [handler EXCEPT ![h].at = n]
  BY DEF Change
<1>6. handler' \in [Handlers -> [at : {"idle", "sync", "half", "broadcast"},
                                 model : Models \union {NoModel}]]
  BY <1>5 DEF AgentInv, ConfigTypeOK
<1>7. lapsed' \in BOOLEAN
  BY DEF Change, Lapse, AgentInv, ConfigTypeOK
<1> QED BY <1>1, <1>3, <1>4, <1>6, <1>7 DEF AgentInv, ConfigTypeOK, Sound

\* The file or the default configuration makes a sound start.
LEMMA LoadKeepsAgents ==
  ASSUME AgentInv, NEW c, Sound(c), Load(c)
  PROVE  /\ Sound(config)' /\ Sound(file)' /\ config' \in ConfigType /\ file' \in ConfigType
         /\ torn' \in BOOLEAN
         /\ env' \in Settings
<1>1. ActiveModelID(c) \in Models
  BY ActiveIsModel
<1>2. Pushed(env, ActiveModelID(c)) \in Settings
  BY <1>1, ConfigAssumption DEF Pushed, Settings, AgentInv, ConfigTypeOK
<1> QED BY <1>2 DEF Load, Sound, ConfigType

\* Every step keeps the invariant of the agents.
LEMMA StepKeepsAgents ==
  ASSUME AgentInv, [ConfigNext]_configVars
  PROVE  AgentInv'
<1>0. Sound(config) /\ Sound(file)
  BY DEF AgentInv
<1>1. ASSUME NEW h \in Handlers, NEW a \in AgentIds, NEW m \in Models \union {NoModel},
             AddAgent(h, a, m)
      PROVE  AgentInv'
  BY <1>0, <1>1, AddIsSound, ChangeKeepsAgents DEF AddAgent
<1>2. ASSUME NEW h \in Handlers, NEW a \in AllAgents, NEW m \in Models \union {NoModel},
             UpdateAgent(h, a, m)
      PROVE  AgentInv'
  BY <1>0, <1>2, UpdateIsSound, ChangeKeepsAgents DEF UpdateAgent
<1>3. ASSUME NEW h \in Handlers, NEW a \in AllAgents, RemoveAgent(h, a)
      PROVE  AgentInv'
  BY <1>0, <1>3, WithoutIsSound, ChangeKeepsAgents DEF RemoveAgent
<1>4. ASSUME NEW h \in Handlers, NEW a \in AllAgents, SetActiveAgent(h, a)
      PROVE  AgentInv'
  BY <1>0, <1>4, ActivateIsSound, ChangeKeepsAgents DEF SetActiveAgent
<1>5. ASSUME NEW h \in Handlers, NEW m \in Models, NEW fromSettings \in BOOLEAN,
             SetActiveAgentModel(h, m, fromSettings)
      PROVE  AgentInv'
  BY <1>0, <1>5, ModelIsSound, ChangeKeepsAgents DEF SetActiveAgentModel
<1>6. ASSUME NEW h \in Handlers, ChangeOther(h)
      PROVE  AgentInv'
  BY <1>0, <1>6, ChangeKeepsAgents DEF ChangeOther
<1>7. ASSUME NEW h \in Handlers, SyncProvider(h)
      PROVE  AgentInv'
  <2>1. ActiveModelID(config) \in Models
    BY <1>0, ActiveIsModel
  <2>2. env' \in Settings
    BY <1>7, <2>1, ConfigAssumption DEF SyncProvider, Settings, AgentInv, ConfigTypeOK
  <2>3. handler' \in [Handlers -> [at : {"idle", "sync", "half", "broadcast"},
                                   model : Models \union {NoModel}]]
    BY <1>7, <2>1 DEF SyncProvider, AgentInv, ConfigTypeOK
  <2> QED BY <1>7, <2>2, <2>3 DEF SyncProvider, AgentInv, ConfigTypeOK, Sound
<1>8. ASSUME NEW h \in Handlers, SyncModel(h)
      PROVE  AgentInv'
  <2>1. handler[h].model.name \in {m.name : m \in Models} \union {""}
    <3>1. handler[h].model \in Models \union {NoModel}
      BY DEF AgentInv, ConfigTypeOK
    <3>2. NoModel.name = ""
      BY DEF NoModel
    <3> HIDE DEF NoModel
    <3> QED BY <3>1, <3>2
  <2>2. handler' \in [Handlers -> [at : {"idle", "sync", "half", "broadcast"},
                                   model : Models \union {NoModel}]]
    BY <1>8 DEF SyncModel, AgentInv, ConfigTypeOK
  <2>3. env' \in Settings
    BY <1>8, <2>1 DEF SyncModel, Settings, AgentInv, ConfigTypeOK
  <2> QED BY <1>8, <2>2, <2>3 DEF SyncModel, AgentInv, ConfigTypeOK, Sound
<1>9. ASSUME NEW h \in Handlers, Answer(h)
      PROVE  AgentInv'
  BY <1>9 DEF Answer, AgentInv, ConfigTypeOK, Sound
<1>10. CASE Crash
  <2>1. PICK tears \in BOOLEAN : Load(IF torn \/ tears THEN DefaultConfig ELSE file)
    BY <1>10 DEF Crash
  <2>2. Sound(IF torn \/ tears THEN DefaultConfig ELSE file)
    BY <1>0, DefaultIsSound
  <2>3. handler' \in [Handlers -> [at : {"idle", "sync", "half", "broadcast"},
                                   model : Models \union {NoModel}]]
    BY <1>10 DEF Crash
  <2>4. lapsed' \in BOOLEAN
    BY <1>10 DEF Crash
  <2> QED BY <2>1, <2>2, <2>3, <2>4, LoadKeepsAgents DEF AgentInv, ConfigTypeOK
<1>11. CASE UNCHANGED configVars
  BY <1>11 DEF configVars, AgentInv, ConfigTypeOK, Sound
<1> QED BY <1>1, <1>2, <1>3, <1>4, <1>5, <1>6, <1>7, <1>8, <1>9, <1>10, <1>11 DEF ConfigNext

\* The first start satisfies it.
LEMMA InitHasAgents ==
  ASSUME ConfigInit
  PROVE  AgentInv
BY DefaultIsSound, ConfigAssumption DEF ConfigInit, Settings, AgentInv, ConfigTypeOK, Sound

\* The invariant holds in every reachable state.
LEMMA AgentsInvariant == ConfigSpec => []AgentInv
BY InitHasAgents, StepKeepsAgents, PTL DEF ConfigSpec

\* The store, the file, the environment and the handlers keep their types.
THEOREM ConfigTypeCorrect == ConfigSpec => []ConfigTypeOK
<1>1. AgentInv => ConfigTypeOK
  BY DEF AgentInv
<1> QED BY <1>1, AgentsInvariant, PTL

\* The active agent always exists, in memory and in the file of the next
\* start: ActiveModelID never falls back to a model of no agent.
THEOREM ActiveAgentIsKnown == ConfigSpec => []ActiveAgentKnown
<1>1. AgentInv => ActiveAgentKnown
  BY DEF AgentInv, Sound, ActiveAgentKnown
<1> QED BY <1>1, AgentsInvariant, PTL

-----------------------------------------------------------------------------
(* The environment *)

\* What the variables say of provider and model m.
Says(e, m) == (m.provider # "" => e.provider = m.provider) /\ e.name = m.name

\* The inductive invariant of the environment: unless it lapsed, the syncs
\* under way are all of the model the store has now and have set its provider,
\* and without any the variables name that model.
EnvInv ==
  LET m == ActiveModelID(config) IN
  ~lapsed =>
    /\ \A h \in Handlers : handler[h].at = "half" =>
         handler[h].model = m /\ (m.provider # "" => env.provider = m.provider)
    /\ Syncing = {} => Says(env, m)

\* The environment says m if setting it to m changes nothing.
LEMMA SaysIsPushed ==
  ASSUME env \in Settings, NEW m, Says(env, m)
  PROVE  env = Pushed(env, m)
BY DEF Says, Pushed, Settings

\* A save that leaves the model alone, or that ends in a sync.
LEMMA ChangeKeepsEnv ==
  ASSUME AgentInv, EnvInv, NEW h \in Handlers, NEW c, Sound(c),
         NEW next \in {"sync", "broadcast"}, NEW goesOn \in BOOLEAN, Change(h, c, next, goesOn),
         \/ next = "sync"
         \/ config.active \notin c.ids
         \/ ActiveModelID(c) = ActiveModelID(config)
  PROVE  EnvInv'
<1> SUFFICES ASSUME ~lapsed' PROVE EnvInv'
  BY DEF EnvInv
<1>1. config' = c /\ env' = env /\ lapsed' = Lapse(c)
      /\ handler' = [handler EXCEPT ![h].at = next] /\ handler[h].at = "idle"
  BY DEF Change
<1>2. handler \in [Handlers -> [at : {"idle", "sync", "half", "broadcast"},
                                model : Models \union {NoModel}]]
  BY DEF AgentInv, ConfigTypeOK
<1>3. config.active \in c.ids /\ ~Lapse(c)
  BY <1>1 DEF Lapse
<1>4. ASSUME NEW g \in Handlers, handler'[g].at = "half"
      PROVE  g # h /\ handler'[g] = handler[g] /\ handler[g].at = "half"
  BY <1>1, <1>2, <1>4
<1>5. Syncing \subseteq Syncing'
  BY <1>1, <1>2 DEF Syncing
<1>6. next = "sync" => Syncing' # {}
  BY <1>1, <1>2 DEF Syncing
<1>7. CASE ActiveModelID(c) = ActiveModelID(config)
  <2>1. ~lapsed
    BY <1>1, <1>3, <1>7 DEF Lapse
  <2>2. ActiveModelID(config)' = ActiveModelID(config)
    BY <1>1, <1>7 DEF ActiveModelID
  <2>3. \A g \in Handlers : handler'[g].at = "half" =>
          handler'[g].model = ActiveModelID(config)'
          /\ (ActiveModelID(config)'.provider # "" => env'.provider = ActiveModelID(config)'.provider)
    BY <1>1, <1>4, <2>1, <2>2 DEF EnvInv
  <2>4. Syncing' = {} => Says(env, ActiveModelID(config))'
    BY <1>1, <1>5, <2>1, <2>2 DEF EnvInv, Says
  <2> QED BY <2>3, <2>4 DEF EnvInv
<1>8. CASE ActiveModelID(c) # ActiveModelID(config)
  <2>1. Syncing = {}
    BY <1>1, <1>3, <1>8 DEF Lapse
  <2>2. Syncing' # {}
    BY <1>3, <1>6, <1>8
  <2>3. \A g \in Handlers : handler'[g].at # "half"
    BY <1>4, <2>1 DEF Syncing
  <2> QED BY <2>2, <2>3 DEF EnvInv
<1> QED BY <1>7, <1>8

\* Every step keeps the invariant of the environment.
LEMMA StepKeepsEnv ==
  ASSUME AgentInv, EnvInv, [ConfigNext]_configVars
  PROVE  EnvInv'
<1>0. Sound(config) /\ Sound(file)
      /\ handler \in [Handlers -> [at : {"idle", "sync", "half", "broadcast"},
                                   model : Models \union {NoModel}]]
      /\ env \in Settings
  BY DEF AgentInv, ConfigTypeOK
<1>1. ASSUME NEW h \in Handlers, NEW a \in AgentIds, NEW m \in Models \union {NoModel},
             AddAgent(h, a, m)
      PROVE  EnvInv'
  BY <1>0, <1>1, AddIsSound, ChangeKeepsEnv DEF AddAgent
<1>2. ASSUME NEW h \in Handlers, NEW a \in AllAgents, NEW m \in Models \union {NoModel},
             UpdateAgent(h, a, m)
      PROVE  EnvInv'
  BY <1>0, <1>2, UpdateIsSound, ChangeKeepsEnv DEF UpdateAgent
<1>3. ASSUME NEW h \in Handlers, NEW a \in AllAgents, RemoveAgent(h, a)
      PROVE  EnvInv'
  BY <1>0, <1>3, WithoutIsSound, ChangeKeepsEnv DEF RemoveAgent
<1>4. ASSUME NEW h \in Handlers, NEW a \in AllAgents, SetActiveAgent(h, a)
      PROVE  EnvInv'
  BY <1>0, <1>4, ActivateIsSound, ChangeKeepsEnv DEF SetActiveAgent
<1>5. ASSUME NEW h \in Handlers, NEW m \in Models, NEW fromSettings \in BOOLEAN,
             SetActiveAgentModel(h, m, fromSettings)
      PROVE  EnvInv'
  BY <1>0, <1>5, ModelIsSound, ChangeKeepsEnv DEF SetActiveAgentModel
<1>6. ASSUME NEW h \in Handlers, ChangeOther(h)
      PROVE  EnvInv'
  BY <1>0, <1>6, ChangeKeepsEnv DEF ChangeOther
<1>7. ASSUME NEW h \in Handlers, SyncProvider(h)
      PROVE  EnvInv'
  <2> DEFINE m == ActiveModelID(config)
  <2>1. m' = m /\ lapsed' = lapsed
    BY <1>7 DEF SyncProvider, ActiveModelID
  <2>2. handler'[h] = [at |-> "half", model |-> m]
        /\ \A g \in Handlers : g # h => handler'[g] = handler[g]
    BY <1>0, <1>7 DEF SyncProvider
  <2>3. m.provider # "" => env'.provider = m.provider
    BY <1>0, <1>7 DEF SyncProvider, Settings
  <2>4. Syncing' # {}
    BY <2>2 DEF Syncing
  <2> HIDE DEF m
  <2>5. ASSUME ~lapsed, NEW g \in Handlers, handler'[g].at = "half"
        PROVE  handler'[g].model = m
    <3>1. g # h => handler[g].model = m
      BY <2>2, <2>5 DEF EnvInv, m
    <3> QED BY <2>2, <3>1
  <2> QED BY <2>1, <2>3, <2>4, <2>5 DEF EnvInv, m
<1>8. ASSUME NEW h \in Handlers, SyncModel(h)
      PROVE  EnvInv'
  <2> DEFINE m == ActiveModelID(config)
  <2>1. m' = m /\ lapsed' = lapsed
    BY <1>8 DEF SyncModel, ActiveModelID
  <2>2. handler'[h].at = "broadcast"
        /\ \A g \in Handlers : g # h => handler'[g] = handler[g]
    BY <1>0, <1>8 DEF SyncModel
  <2>3. env'.provider = env.provider /\ env'.name = handler[h].model.name
    BY <1>0, <1>8 DEF SyncModel, Settings
  <2>4. ~lapsed => handler[h].model = m /\ (m.provider # "" => env.provider = m.provider)
    BY <1>8 DEF EnvInv, SyncModel
  <2> HIDE DEF m
  <2>5. ~lapsed => Says(env', m)
    BY <2>3, <2>4 DEF Says
  <2>6. ~lapsed => \A g \in Handlers : handler'[g].at = "half" =>
          handler'[g].model = m /\ (m.provider # "" => env'.provider = m.provider)
    BY <2>2, <2>3 DEF EnvInv, m
  <2> QED BY <2>1, <2>5, <2>6 DEF EnvInv, m
<1>9. ASSUME NEW h \in Handlers, Answer(h)
      PROVE  EnvInv'
  <2>1. ActiveModelID(config)' = ActiveModelID(config) /\ lapsed' = lapsed /\ env' = env
    BY <1>9 DEF Answer, ActiveModelID
  <2>2. handler'[h].at = "idle" /\ \A g \in Handlers : g # h => handler'[g] = handler[g]
    BY <1>0, <1>9 DEF Answer
  <2>3. Syncing' = Syncing
    BY <1>9, <2>2 DEF Answer, Syncing
  <2> QED BY <2>1, <2>2, <2>3 DEF EnvInv, Says
<1>10. CASE Crash
  <2>1. PICK tears \in BOOLEAN : Load(IF torn \/ tears THEN DefaultConfig ELSE file)
    BY <1>10 DEF Crash
  <2> DEFINE c == IF torn \/ tears THEN DefaultConfig ELSE file
  <2>2. config' = c /\ env' = Pushed(env, ActiveModelID(c))
    BY <2>1 DEF Load
  <2> HIDE DEF c
  <2>3. ActiveModelID(config)' = ActiveModelID(c)
    BY <2>2 DEF ActiveModelID
  <2>4. Says(env, ActiveModelID(config))'
    BY <2>2, <2>3 DEF Says, Pushed
  <2>5. \A g \in Handlers : handler'[g].at = "idle"
    BY <1>10 DEF Crash
  <2> QED BY <2>4, <2>5 DEF EnvInv
<1>11. CASE UNCHANGED configVars
  <2>1. ActiveModelID(config)' = ActiveModelID(config) /\ Syncing' = Syncing
    BY <1>11 DEF configVars, ActiveModelID, Syncing
  <2> QED BY <1>11, <2>1 DEF configVars, EnvInv, Says
<1> QED BY <1>1, <1>2, <1>3, <1>4, <1>5, <1>6, <1>7, <1>8, <1>9, <1>10, <1>11 DEF ConfigNext

\* When no request is being served and nothing lapsed, LLM_PROVIDER and
\* LLM_MODEL hold the model of the active agent, whatever requests overlapped.
THEOREM EnvironmentFollows == ConfigSpec => []EnvFollowsStore
<1>1. ConfigInit => EnvInv
  <2> SUFFICES ASSUME ConfigInit PROVE EnvInv
    OBVIOUS
  <2>1. ActiveModelID(config) = DefaultModel
    BY DEF ConfigInit, DefaultConfig, ActiveModelID, AllAgents
  <2> QED BY <2>1 DEF ConfigInit, EnvInv, Says
<1>2. AgentInv /\ EnvInv => EnvFollowsStore
  BY SaysIsPushed DEF AgentInv, ConfigTypeOK, EnvInv, EnvFollowsStore, Syncing
<1> QED BY <1>1, <1>2, AgentsInvariant, StepKeepsEnv, PTL DEF ConfigSpec

-----------------------------------------------------------------------------
(* The suggestions *)

\* The statement of the database that writes one status.
LEMMA UpdateIsTyped ==
  ASSUME SuggestionTypeOK, NEW s \in Ideas, NEW status \in Resolved, UpdateStatus(s, status)
  PROVE  table' \in [Ideas -> Resolved \union {"none", "PENDING", "deleted"}]
BY DEF SuggestionTypeOK, UpdateStatus

\* The first state is typed.
LEMMA InitIsTyped ==
  ASSUME SuggestionInit
  PROVE  SuggestionTypeOK
BY DEF SuggestionInit, SuggestionTypeOK

\* What is past the retention is past its time, and so is what a sweep takes
\* for late: the clock only adds to both.
LEMMA StepKeepsSuggestions ==
  ASSUME SuggestionTypeOK, [SuggestionNext]_suggestionVars
  PROVE  SuggestionTypeOK'
<1>1. ASSUME NEW s \in Ideas, CreateSuggestion(s) \/ PassTTL(s) \/ PassRetention(s)
      PROVE  SuggestionTypeOK'
  BY <1>1 DEF CreateSuggestion, PassTTL, PassRetention, Rows, SuggestionTypeOK
<1>2. ASSUME NEW s \in Ideas, NEW d \in Decisions, Decide(s, d)
      PROVE  SuggestionTypeOK'
  <2>1. table' \in [Ideas -> Resolved \union {"none", "PENDING", "deleted"}]
    BY <1>2, UpdateIsTyped DEF Decide, Resolved
  <2>2. inTime' \in [Ideas -> Decisions \union {"none"}]
    BY <1>2 DEF Decide, SuggestionTypeOK
  <2> QED BY <1>2, <2>1, <2>2 DEF Decide, SuggestionTypeOK
<1>3. CASE CleanupOldData
  BY <1>3 DEF CleanupOldData, SuggestionTypeOK
<1>4. CASE ListPending \/ TakeNow \/ EndSweep
  BY <1>4 DEF ListPending, TakeNow, EndSweep, Pending, SuggestionTypeOK
<1>5. ASSUME NEW s \in Ideas, Expire(s)
      PROVE  SuggestionTypeOK'
  <2>1. table' \in [Ideas -> Resolved \union {"none", "PENDING", "deleted"}]
    BY <1>5, UpdateIsTyped DEF Expire, Resolved
  <2> QED BY <1>5, <2>1 DEF Expire, SuggestionTypeOK
<1>6. ASSUME NEW s \in Ideas, SkipIdea(s)
      PROVE  SuggestionTypeOK'
  BY <1>6 DEF SkipIdea, SuggestionTypeOK
<1>7. CASE UNCHANGED suggestionVars
  BY <1>7 DEF suggestionVars, SuggestionTypeOK
<1> QED BY <1>1, <1>2, <1>3, <1>4, <1>5, <1>6, <1>7 DEF SuggestionNext, Sweeper

-----------------------------------------------------------------------------
(* The desk *)

\* The inductive invariant of the desk: those of its components, since a
\* type alone is not kept by a step of the loops, the orders, the agents or
\* the legs.
DeskInv ==
  /\ focus \in Foci
  /\ SessionInv
  /\ LoopInv /\ PlacementInv /\ SuggestionTypeOK /\ AgentInv /\ SpreadInv

\* The desk starts where each component starts.
LEMMA DeskStarts ==
  ASSUME DeskInit
  PROVE  DeskInv
BY InitIsOne, BeginsWithoutLoops, InitIsPlaced, InitIsTyped, InitHasAgents, InitInv
DEF DeskInit, DeskInv

\* A step of the desk is one of each component, or leaves it alone.
LEMMA DeskSteps ==
  ASSUME [DeskNext]_DeskVars
  PROVE  /\ focus' = focus
         /\ [SessionNext]_sessionVars
         /\ [BeatNext]_beatVars /\ [PlacementNext]_placementVars
         /\ [SuggestionNext]_suggestionVars
         /\ [ConfigNext]_configVars /\ [SpreadNext]_spreadVars
<1>1. CASE UNCHANGED DeskVars
  BY <1>1 DEF DeskVars
<1>2. CASE DeskNext
  BY <1>2 DEF DeskNext, Others
<1> QED BY <1>1, <1>2

\* Every step keeps the invariant of the desk.
LEMMA StepKeepsDesk ==
  ASSUME DeskInv, [DeskNext]_DeskVars
  PROVE  DeskInv'
<1>1. SessionInv' /\ LoopInv'
  BY DeskSteps, StepKeepsSession, StepKeepsLoops DEF DeskInv
<1>2. PlacementInv' /\ SuggestionTypeOK'
  BY DeskSteps, StepKeepsPlacement, StepKeepsSuggestions DEF DeskInv
<1>3. AgentInv' /\ SpreadInv'
  BY DeskSteps, StepKeepsAgents, NextKeeps DEF DeskInv
<1>4. focus' \in Foci
  BY DeskSteps DEF DeskInv
<1> QED BY <1>1, <1>2, <1>3, <1>4 DEF DeskInv

\* Whichever component runs, every variable of the desk keeps its type: the
\* sessions, the loops, the orders, the suggestions and their sweep, the
\* agents and the legs of a spread.
THEOREM DeskTypeCorrect == DeskSpec => []DeskTypeOK
<1>1. DeskInv => DeskTypeOK
  BY DEF DeskInv, DeskTypeOK, SessionInv, LoopInv, PlacementInv, AgentInv, SpreadInv
<1> QED BY <1>1, DeskStarts, StepKeepsDesk, PTL DEF DeskSpec

=============================================================================
