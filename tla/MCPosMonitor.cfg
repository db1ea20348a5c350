CONSTANTS
  Positions = {p1}
  PromptUpdates = FALSE
  Unlisted = TRUE
  Modes = {"suggest", "supervised"}
  Quantity = 2
  PartialQty = 1
  PartialExits = {TRUE, FALSE}
  Sides = {"buy", "sell"}
  StopLegs = {FALSE}
  Monitor = Monitor
  Closers = {}
  Faults = {"drop", "manual"}
  MaxFaults = 1
  NoPosition = NoPosition
SPECIFICATION Spec
INVARIANTS OnePartialExit OneExit
PROPERTY MovesForward
CHECK_DEADLOCK FALSE
