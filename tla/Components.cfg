SPECIFICATION PartSpec
CONSTANTS
  sa = sa
  sb = sb
  p1 = p1
  p2 = p2
  k1 = k1
  k2 = k2
  pid1 = pid1
  pid0 = pid0
  d1 = d1
  d2 = d2
  Parts = {"claude", "config", "registry", "loop", "two loops", "daemons", "releases",
           "app server", "headroom", "spawn"}
  CodexSeats <- MCSeats
  Supervisors = {k0}
  Pollers <- MCPollers
  MaxLogin = 1
  MaxAdded = 2
  MaxAttempt = 2
  MaxTurns = 2
  ClaudeSeats <- MCSeats
  Expiry <- MCExpiry
  MaxRenewals = 2
  MaxEvents = 2
  Unanswered = TRUE
  Pids <- MCPids
  OldPid = pid0
  MaxLife = 2
  MaxMarks = 2
  LoopSeats <- MCSeats
  Loops <- MCLoops
  LoopActs <- MCActs
  MaxSwitches = 1
  MaxActs = 2
  ClaudeHomes <- MCSeats
  MaxChoices = 2
  DaemonPids <- MCDaemons
  MaxDaemonLife = 2
  MaxRelease = 2
  MaxLocks = 2
  MAX_PLAIN_EVENTS = 1
  MaxRequests = 1
  MaxMessages = 4
SYMMETRY MCSymmetry
INVARIANTS
  PartsTypeOK
  SessionIsSeen
  OldSessionIsSeen
  EndReachesItsLaunch
  LimitStopContinues
  BorrowedPointerIsReturned
  ReleasesInUseStay
  RemovalIsSafe
  SignalsAreKept
  NothingIsLeftBehind
PROPERTIES
  RenewalSurvives
  SnapshotGetsItsOwn
  LivingAreSpared
  ChoicesSurvive
CHECK_DEADLOCK FALSE
