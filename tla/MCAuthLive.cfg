CONSTANTS
  Intents = {i1, i2}
  Handlers = {h1}
  NoIntent = NoIntent
  MaxHistory = 1
  LivePort = TRUE
  Modes = {"supervised"}
SPECIFICATION SweeperSpec
INVARIANT LiveNeedsReference
PROPERTY PendingIsResolved
