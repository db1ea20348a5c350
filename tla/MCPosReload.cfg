CONSTANTS
  Positions = {p1}
  PromptUpdates = TRUE
  Unlisted = TRUE
  Modes = {"supervised"}
  Quantity = 2
  PartialQty = 1
  PartialExits = {FALSE}
  Sides = {"buy"}
  StopLegs = {TRUE, FALSE}
  Monitor = Monitor
  Closers = {}
  Faults = {"crash"}
  MaxFaults = 1
  NoPosition = NoPosition
SPECIFICATION Spec
PROPERTY ClosedIsNotReloaded
CHECK_DEADLOCK FALSE
