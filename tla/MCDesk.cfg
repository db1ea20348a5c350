SPECIFICATION DeskSpec
CHECK_DEADLOCK FALSE
CONSTANTS
  Foci = {"sessions", "beat", "placement", "suggestions", "config", "spread"}
  MaxGeneration = 2
  MaxManual = 1
  Messages = {"hint", "note"}
  MaxStarts = 2
  MaxTurns = 2
  SteeringCap = 1
  BeatModes = {"supervised", "autonomous"}
  Replies <- MCReplies
  DeskModes = {"suggest", "supervised"}
  Ideas = {"s1", "s2"}
  Handlers = {"h1", "h2"}
  AgentIds = {"a1"}
  Models <- MCModels
  DefaultModel <- MCDefaultModel
  MaxRequests = 3
  MaxFailures = 1
  MaxCrashes = 1
  Step = 4
  Reach = 2
  Strikes <- MCStrikes
  Mids = {1, 3}
  Criteria <- MCCriteria
  MaxLossPct = 15
  MaxLossEUR = 0
INVARIANTS
  DeskTypeOK WatchedConnection SaidOnce OneOrderAfterStop
  NoNakedEntry RefusedIsWithdrawn ActiveAgentKnown EnvFollowsStore
  StatedLoss LossIsBounded ExecutedAsPlanned
PROPERTIES
  GateRefined LossIsNoticed QueuedIsTaken PendingEnds
