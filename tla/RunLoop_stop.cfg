SPECIFICATION LoopSpec
CONSTANTS
  LoopSeats = {a, b}
  Loops = {k}
  LoopActs = {"toggle", "click", "quota", "bar"}
  MaxSwitches = 1
  MaxActs = 2
INVARIANT StoppedChildContinues
CHECK_DEADLOCK FALSE
