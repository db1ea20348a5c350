CONSTANTS
  Positions = {p1}
  PromptUpdates = TRUE
  Unlisted = TRUE
  Modes = {"supervised"}
  Quantity = 2
  PartialQty = 1
  PartialExits = {FALSE}
  Sides = {"buy"}
  StopLegs = {FALSE}
  Monitor = Monitor
  Closers = {c1}
  Faults = {"manual"}
  MaxFaults = 1
  NoPosition = NoPosition
SPECIFICATION Spec
INVARIANTS
  TypeOK
  ActiveWasFilled
CHECK_DEADLOCK FALSE
