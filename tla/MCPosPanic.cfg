CONSTANTS
  Positions = {p1}
  PromptUpdates = TRUE
  Unlisted = FALSE
  Modes = {"supervised"}
  Quantity = 2
  PartialQty = 1
  PartialExits = {FALSE}
  Sides = {"buy"}
  StopLegs = {TRUE, FALSE}
  Monitor = Monitor
  Closers = {}
  Faults = {"drop"}
  MaxFaults = 1
  NoPosition = NoPosition
SPECIFICATION Spec
INVARIANT SurvivesReconnect
CHECK_DEADLOCK FALSE
