CONSTANTS
  Positions = {p1}
  PromptUpdates = TRUE
  Unlisted = FALSE
  Modes = {"supervised"}
  Quantity = 2
  PartialQty = 1
  PartialExits = {FALSE}
  Sides = {"buy"}
  StopLegs = {TRUE, FALSE}
  Monitor = Monitor
  Closers = {}
  Faults = {"crash"}
  MaxFaults = 2
  NoPosition = NoPosition
SPECIFICATION FairSpec
INVARIANTS
  NothingLeftBehind
  EndedHasNoBracket
PROPERTIES
  FilledIsNoticed
  NativeExitIsNoticed
CHECK_DEADLOCK FALSE
