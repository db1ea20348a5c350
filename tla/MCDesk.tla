------------------------------- MODULE MCDesk -------------------------------
(***************************************************************************)
(* The components around the intents and the positions, one at a time:     *)
(* they share no variable, so a behaviour exercises the one its focus      *)
(* names and the others keep their initial state.  The sessions run here   *)
(* without the requests that use them (see MCRequests).                    *)
(***************************************************************************)
EXTENDS TWSClient, AutonomousBeat, OrderPlacement, Suggestions, ConfigStore,
        SpreadBuilder, TLC

CONSTANT Foci

VARIABLE focus

MCReplies == {<<"order", "order">>, <<"read">>}

MCModels == {[provider |-> "anthropic", name |-> "opus"], [provider |-> "gemini", name |-> "pro"]}
MCDefaultModel == [provider |-> "anthropic", name |-> "opus"]

MCStrikes == {4 * k : k \in 1..9}
\* An account without a known portfolio meets the vertical spreads only.
MCCriteria ==
  {w \in [strategy : Strategies, spot : {20}, otm : {1, 6}, width : {4, 8}, budgetPct : {0, 3},
          portfolio : {0, 1000}, multiplier : {2}] :
     w.strategy = "iron_condor" => w.portfolio = 1000}

DeskInit ==
  /\ focus \in Foci
  /\ SessionInit /\ BeatInit /\ PlacementInit
  /\ SuggestionInit /\ ConfigInit /\ SpreadInit
  /\ focus # "beat" => liveMode = "supervised"
  /\ focus # "placement" => deskMode = "supervised"
  /\ focus # "spread" => want = CHOOSE w \in Criteria : TRUE

\* The bound on what the beat is told: the last message, which meets a steering
\* channel that is full, comes while there is one loop, and no loop after it.
LastWord == told' = Messages => Len(beat') <= 1

\* Component f runs; the others keep still.
Others(f) ==
  /\ UNCHANGED focus
  /\ f # "sessions" => UNCHANGED sessionVars
  /\ f # "beat" => UNCHANGED beatVars
  /\ f # "placement" => UNCHANGED placementVars
  /\ f # "suggestions" => UNCHANGED suggestionVars
  /\ f # "config" => UNCHANGED configVars
  /\ f # "spread" => UNCHANGED spreadVars

DeskNext ==
  \/ focus = "sessions" /\ SessionNext /\ Others("sessions")
  \/ focus = "beat" /\ BeatNext /\ LastWord /\ Others("beat")
  \/ focus = "placement" /\ PlacementNext /\ Others("placement")
  \/ focus = "suggestions" /\ SuggestionNext /\ Others("suggestions")
  \/ focus = "config" /\ ConfigNext /\ Others("config")
  \/ focus = "spread" /\ SpreadNext /\ Others("spread")

\* The fairness of SessionFairness, BeatFairness and SweeperFairness, each of
\* the behaviours in which its component runs.
DeskFairness ==
  /\ \A s \in 1..(MaxGeneration + 1) :
       /\ WF_sessionVars(focus = "sessions" /\ s \in Sockets /\ LoopExits(s))
       /\ WF_sessionVars(focus = "sessions" /\ s \in Sockets /\ FrameDone(s))
  /\ WF_sessionVars(focus = "sessions" /\ FlowNext("auto"))
  /\ \A l \in 1..MaxStarts :
       /\ WF_beatVars(focus = "beat" /\ l \in Loops /\ BeginTick(l))
       /\ WF_beatVars(focus = "beat" /\ l \in Loops /\ InBeat(l))
  /\ WF_suggestionVars(focus = "suggestions" /\ Sweeper)
  /\ \A s \in Ideas : SF_suggestionVars(focus = "suggestions" /\ Expire(s))

DeskVars == <<sessionVars, beatVars, placementVars, suggestionVars, configVars, spreadVars,
              focus>>

DeskSpec == DeskInit /\ [][DeskNext]_DeskVars /\ DeskFairness

\* Every component's variables keep their types.
DeskTypeOK ==
  /\ focus \in Foci
  /\ SessionTypeOK /\ BeatTypeOK /\ PlacementTypeOK
  /\ SuggestionTypeOK /\ ConfigTypeOK /\ SpreadTypeOK

=============================================================================
