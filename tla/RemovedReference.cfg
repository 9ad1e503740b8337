SPECIFICATION RefSpec
CONSTANTS
  a = a
  b = b
  ofA = ofA
  ofB = ofB
  loose = loose
  Attributes = {a, b}
  Items = {ofA, ofB, loose}
  Null = Null
  Owner <- MCOwner
  Required <- MCRequired
  Fits <- MCFits
  MaxLen = 3
  Careless = TRUE
INVARIANT AssertionsHold
