SPECIFICATION Spec
CONSTANTS
  a3 = a3
  e3 = e3
  Managers = {m1, m2}
  Entities = {e3}
  Null = Null
  Attributes = {a1}
  MaxMade = 1
  Extensible <- MCExtensible
  Required <- MCRequired
  Limit <- MCLimit
  Fits <- MCFits
  Nil = Nil
  Foreign = TRUE
INVARIANTS
  AssociateAnswers
