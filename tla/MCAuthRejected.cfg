CONSTANTS
  Intents = {i1}
  Handlers = {h1}
  NoIntent = NoIntent
  MaxHistory = 1
  LivePort = FALSE
  Modes = {"supervised"}
SPECIFICATION Spec
INVARIANT RejectedHasNoOrder
