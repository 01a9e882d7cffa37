SPECIFICATION Spec
CONSTANTS
  s1 = s1
  s2 = s2
  w = w
  p = p
  none = none
  Sessions <- MCSessions
  Seats <- MCSeats
  Kind <- MCKind
  None = none
  MaxClicks = 0
  Choices = {"once"}
INVARIANTS
  HeldBackSessionIsAsked
