SPECIFICATION FairSwapSpec
CONSTANTS
  r1 = r1
  r2 = r2
  a1 = a1
  a2 = a2
  b = b
  none = none
  Requests = {r1, r2}
  Inject = {r1, r2}
  Borrowed <- MCBorrowed
  Home = home
  Open = open
  NoSeat = none
  MaxTries = 2
  Email <- MCEmail
  HomeEmail = "home"
  MaxHops = 1
  Moves = {}
INVARIANTS
  HeartbeatIsBilled
PROPERTIES
  HelperEnds
