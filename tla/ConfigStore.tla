---------------------------- MODULE ConfigStore ----------------------------
(***************************************************************************)
(* configstore/configstore.go and the handlers of controllers/             *)
(* config_controller.go and dashboard_controller.go over it: the agents,   *)
(* which of them is active, its model, the file all this is saved to and   *)
(* the environment the model is pushed into.  A handler is one goroutine;  *)
(* an operation of the store runs under its lock, with its save.           *)
(***************************************************************************)
EXTENDS Naturals

CONSTANTS
  Handlers,     \* requests that may be served at once
  AgentIds,     \* the ids shortID may give, besides "default"
  Models,       \* [provider, name]; the provider of an id without prefix is ""
  DefaultModel, \* of createDefaultConfig
  MaxRequests, MaxFailures, MaxCrashes

Default == "default"
AllAgents == AgentIds \union {Default}
NoModel == [provider |-> "", name |-> ""]
Settings == [provider : {"anthropic", "gemini", ""}, name : {m.name : m \in Models} \union {""}]

ASSUME ConfigAssumption ==
  /\ Models \subseteq [provider : {"anthropic", "gemini", ""}, name : STRING \ {""}]
  /\ DefaultModel \in Models /\ DefaultModel.provider # ""
  /\ MaxRequests \in Nat /\ MaxFailures \in Nat /\ MaxCrashes \in Nat

VARIABLES
  config,   \* store.config
  file,     \* what is on disk
  torn,     \* the file cannot be parsed
  env,      \* LLM_PROVIDER and LLM_MODEL
  running,  \* provider and model of the client NewAutonomousBeat made
  handler,  \* how far each request is
  lapsed,   \* auxiliary: since the model last changed in a request whose sync
            \* ran alone, a save failed, a sync overlapped another or the
            \* active agent was removed
  spent     \* requests, failed saves and crashes so far

configVars == <<config, file, torn, env, running, handler, lapsed, spent>>

ConfigType ==
  [ids : SUBSET AllAgents, modelOf : [AllAgents -> Models \union {NoModel}],
   active : AllAgents, activeModel : Models]

ConfigTypeOK ==
  /\ config \in ConfigType /\ file \in ConfigType
  /\ torn \in BOOLEAN
  /\ env \in Settings
  /\ handler \in [Handlers -> [at : {"idle", "sync", "half", "broadcast"}, model : Models \union {NoModel}]]
  /\ lapsed \in BOOLEAN

\* createDefaultConfig.
DefaultConfig ==
  [ids |-> {Default}, modelOf |-> [a \in AllAgents |-> IF a = Default THEN DefaultModel ELSE NoModel],
   active |-> Default, activeModel |-> DefaultModel]

\* The active agent's model, or the fallback.
ActiveModelID(c) ==
  IF c.active \in c.ids /\ c.modelOf[c.active] # NoModel THEN c.modelOf[c.active] ELSE c.activeModel

\* What SyncRuntimeEnv sets: an id without provider leaves LLM_PROVIDER alone.
Pushed(e, m) == [provider |-> IF m.provider = "" THEN e.provider ELSE m.provider, name |-> m.name]

\* main: the file is loaded and saved, the environment set from it, and the
\* client constructed with it.  A file that cannot be parsed is replaced.
Load(c) ==
  /\ config' = c
  /\ file' = c
  /\ torn' = FALSE
  /\ env' = Pushed(env, ActiveModelID(c))
  /\ running' = env'

ConfigInit ==
  /\ config = DefaultConfig
  /\ file = DefaultConfig
  /\ torn = FALSE
  /\ env = DefaultModel
  /\ running = DefaultModel
  /\ handler = [h \in Handlers |-> [at |-> "idle", model |-> NoModel]]
  /\ lapsed = FALSE
  /\ spent = [requests |-> 0, failures |-> 0, crashes |-> 0]

-----------------------------------------------------------------------------
(* The operations of the store *)

Syncing == {h \in Handlers : handler[h].at \in {"sync", "half"}}

\* The active agent was removed; or the model changes, which only a sync of
\* its own answers.
Lapse(c) ==
  IF config.active \notin c.ids THEN TRUE
  ELSE IF ActiveModelID(c) # ActiveModelID(config) THEN Syncing # {} ELSE lapsed

\* Handler h changes the memory to c and saves it.  The save may fail: the
\* memory stays changed and the handler answers 400, or goes on if it does
\* not look at the error.
Change(h, c, next, goesOn) ==
  /\ handler[h].at = "idle"
  /\ spent.requests < MaxRequests
  /\ config' = c
  /\ \/ /\ file' = c
        /\ torn' = FALSE
        /\ handler' = [handler EXCEPT ![h].at = next]
        /\ lapsed' = Lapse(c)
        /\ spent' = [spent EXCEPT !.requests = @ + 1]
     \/ /\ spent.failures < MaxFailures
        /\ torn' \in {torn, TRUE}
        /\ handler' = [handler EXCEPT ![h].at = IF goesOn THEN next ELSE "idle"]
        /\ lapsed' = TRUE
        /\ spent' = [spent EXCEPT !.requests = @ + 1, !.failures = @ + 1]
        /\ UNCHANGED file
  /\ UNCHANGED <<env, running>>

\* AddAgent: an agent without a model gets the active one.
WithAgent(a, m) ==
  [config EXCEPT !.ids = @ \union {a},
                 !.modelOf[a] = IF m = NoModel THEN config.activeModel ELSE m]

\* The handler does not sync: a new agent is not the active one.
AddAgent(h, a, m) ==
  /\ a \notin config.ids \union {Default}
  /\ Change(h, WithAgent(a, m), "broadcast", FALSE)

\* UpdateAgent with what the page sends, perhaps a model: a new model of the
\* active agent is the active model too.
Updated(a, m) ==
  [config EXCEPT !.modelOf[a] = m,
                 !.activeModel = IF config.active = a /\ m # NoModel THEN m ELSE @]

UpdateAgent(h, a, m) ==
  /\ a \in config.ids
  /\ Change(h, Updated(a, m), "sync", FALSE)

\* Mutant: the agent that is removed stays the active one.
WithoutAgent_StillActive(a) == [config EXCEPT !.ids = @ \ {a}, !.modelOf[a] = NoModel]

\* RemoveAgent: an active agent that is removed makes way for the default one;
\* the handler does not sync.
WithoutAgent(a) ==
  [config EXCEPT !.ids = @ \ {a}, !.modelOf[a] = NoModel,
                 !.active = IF @ = a THEN Default ELSE @]

RemoveAgent(h, a) ==
  /\ a # Default
  /\ Change(h, WithoutAgent(a), "broadcast", FALSE)

\* SetActiveAgent: the model of the agent, if it has one, is the active one.
Activated(a) ==
  [config EXCEPT !.active = a,
                 !.activeModel = IF config.modelOf[a] = NoModel THEN @ ELSE config.modelOf[a]]

\* Mutant: the handler forgets SyncRuntimeEnv.
SetActiveAgent_NoSync(h, a) ==
  /\ a \in config.ids
  /\ Change(h, Activated(a), "broadcast", FALSE)

SetActiveAgent(h, a) ==
  /\ a \in config.ids
  /\ Change(h, Activated(a), "sync", FALSE)

\* SetActiveAgentModel.
WithModel(m) ==
  [config EXCEPT !.activeModel = m,
                 !.modelOf = [a \in AllAgents |->
                   IF a = config.active /\ a \in config.ids THEN m ELSE config.modelOf[a]]]

\* The model picker, and the Settings panel, which syncs whether the model was
\* saved or not and broadcasts nothing.
SetActiveAgentModel(h, m, fromSettings) == Change(h, WithModel(m), "sync", fromSettings)

\* Strategies, the list of models, heartbeat, permissions and plugins share
\* the lock and the file.
ChangeOther(h) == Change(h, config, "broadcast", FALSE)

-----------------------------------------------------------------------------
(* The rest of a handler *)

\* SyncRuntimeEnv reads the model and sets the provider ...
SyncProvider(h) ==
  /\ handler[h].at = "sync"
  /\ LET m == ActiveModelID(config) IN
     /\ handler' = [handler EXCEPT ![h] = [at |-> "half", model |-> m]]
     /\ env' = [env EXCEPT !.provider = IF m.provider = "" THEN @ ELSE m.provider]
  /\ UNCHANGED <<config, file, torn, running, lapsed, spent>>

\* ... then the model.
SyncModel(h) ==
  /\ handler[h].at = "half"
  /\ env' = [env EXCEPT !.name = handler[h].model.name]
  /\ handler' = [handler EXCEPT ![h] = [at |-> "broadcast", model |-> NoModel]]
  /\ UNCHANGED <<config, file, torn, running, lapsed, spent>>

\* broadcastConfig, if at all, and the answer.
Answer(h) ==
  /\ handler[h].at = "broadcast"
  /\ handler' = [handler EXCEPT ![h].at = "idle"]
  /\ UNCHANGED <<config, file, torn, env, running, lapsed, spent>>

\* The process ends, perhaps while os.WriteFile writes, and starts again.
Crash ==
  /\ spent.crashes < MaxCrashes
  /\ spent' = [spent EXCEPT !.crashes = @ + 1]
  /\ \E tears \in BOOLEAN : Load(IF torn \/ tears THEN DefaultConfig ELSE file)
  /\ handler' = [h \in Handlers |-> [at |-> "idle", model |-> NoModel]]
  /\ lapsed' = FALSE

ConfigNext ==
  \/ \E h \in Handlers :
       \/ \E a \in AgentIds, m \in Models \union {NoModel} : AddAgent(h, a, m)
       \/ \E a \in AllAgents, m \in Models \union {NoModel} : UpdateAgent(h, a, m)
       \/ \E a \in AllAgents : RemoveAgent(h, a) \/ SetActiveAgent(h, a)
       \/ \E m \in Models, fromSettings \in BOOLEAN : SetActiveAgentModel(h, m, fromSettings)
       \/ ChangeOther(h) \/ SyncProvider(h) \/ SyncModel(h) \/ Answer(h)
  \/ Crash

ConfigSpec == ConfigInit /\ [][ConfigNext]_configVars

-----------------------------------------------------------------------------
(* Properties *)

\* The active agent is one of the agents, in memory and in the file that the
\* next start loads.
ActiveAgentKnown ==
  /\ config.active \in config.ids
  /\ ~torn => file.active \in file.ids

\* "The active agent is the single source of truth for which model runs": when
\* no request is being served the environment holds its model, unless a save
\* failed, syncs overlapped or the active agent was removed.
EnvFollowsStore ==
  ((\A h \in Handlers : handler[h].at = "idle") /\ ~lapsed) =>
    env = Pushed(env, ActiveModelID(config))

\* Not kept by the code: SyncRuntimeEnv keeps "the running model, the dashboard
\* footer, and the Settings panel in agreement", through variables "that the
\* LLM clients read at call time".  They read them when they are constructed.
RunningModelIsShown ==
  ((\A h \in Handlers : handler[h].at = "idle") /\ ~lapsed) => running.name = ActiveModelID(config).name

\* Not kept by the code: no request after another can mix two models.
EnvIsOneModel ==
  (\A h \in Handlers : handler[h].at = "idle") => \E m \in Models : env = Pushed(env, m)

=============================================================================
