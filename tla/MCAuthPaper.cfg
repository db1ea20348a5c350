CONSTANTS
  Intents = {i1, i2}
  Handlers = {h1, h2}
  NoIntent = NoIntent
  MaxHistory = 1
  LivePort = FALSE
  Modes = {"suggest", "supervised"}
SPECIFICATION Spec
INVARIANTS
  TypeOK
  AtMostOneOrder
  CompletedWasSent
  ExpiredWasIdle
  ResolvedOnce
  AgentToldOnce
  HistoryRing
PROPERTY LifecycleSpec
SYMMETRY Symmetry
