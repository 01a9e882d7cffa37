SPECIFICATION ClaudeSpec
CONSTANTS
  sa = sa
  sb = sb
  ClaudeSeats <- MCClaudeSeats
  Expiry <- MCClaudeExpiry
  MaxRenewals = 2
  MaxEvents = 3
  Unanswered = TRUE
INVARIANT SnapshotIsOwn
CHECK_DEADLOCK FALSE
