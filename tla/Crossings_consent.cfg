SPECIFICATION ConsentSpec
CONSTANTS
  s1 = s1
  s2 = s2
  w = w
  p = p
  none = none
  Sessions <- MCSessions
  Seats <- MCSeats
  Kind <- MCKindU
  None = none
  MaxClicks = 2
  Choices <- MCChoices
SYMMETRY MCSymmetry
INVARIANTS
  TypeOK
  ConsentCoversEveryMove
