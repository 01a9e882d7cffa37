SPECIFICATION SwapSpec
CONSTANTS
  r1 = r1
  r2 = r2
  a1 = a1
  a2 = a2
  b = b
  none = none
  Requests = {r1, r2}
  Inject = {r1, r2}
  Borrowed <- MCBorrowedAB
  Home = home
  Open = open
  NoSeat = none
  MaxTries = 2
  Email <- MCEmailAB
  HomeEmail = "home"
  MaxHops = 1
  Moves = {"click", "maintain"}
SYMMETRY MCSymmetryAB
INVARIANTS
  SwapTypeOK
  OneQuestionAtATime
  OneHelper
PROPERTIES
  ImplementsProxy
  HopLeavesTheHitSeat
