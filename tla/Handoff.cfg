SPECIFICATION PartSpec
CONSTANTS
  l1 = l1
  l2 = l2
  sa = sa
  sb = sb
  k1 = k1
  Launchers <- MCLaunchers
  LoopSeats <- MCLoopSeats
  Loops <- MCLoops
  LoopActs <- MCLoopActs
  MaxSwitches = 1
  MaxActs = 3
INVARIANTS
  TypeOK
  PaidOnlyWithConsent
  KillSwitchWins
  EndedAsksNothing
PROPERTIES
  LateClickLoses
  WaitEnds
  PaidUseStops
  StuckSessionMoves
CHECK_DEADLOCK FALSE
