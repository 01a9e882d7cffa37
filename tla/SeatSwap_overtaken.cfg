SPECIFICATION SwapSpec
CONSTANTS
  r1 = r1
  r2 = r2
  a1 = a1
  a2 = a2
  b = b
  none = none
  Requests = {r1}
  Inject = {r1}
  Borrowed <- MCBorrowedAB
  Home = home
  Open = open
  NoSeat = none
  MaxTries = 3
  Email <- MCEmailAB
  HomeEmail = "home"
  MaxHops = 2
  Moves = {"click"}
INVARIANTS
  HeartbeatIsBilled
