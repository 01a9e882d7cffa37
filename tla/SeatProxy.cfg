SPECIFICATION FairSpec
CONSTANTS
  r1 = r1
  r2 = r2
  a = a
  b = b
  none = none
  Requests <- MCRequests
  Inject <- MCInject
  Borrowed <- MCBorrowed
  Home = home
  Open = open
  NoSeat = none
  MaxTries = 3
PROPERTIES
  KeepsReplayContract
  EveryRequestAnswered
INVARIANTS
  TypeOK
  AtMostOncePerCredential
  Borrowed401FailsOpen
