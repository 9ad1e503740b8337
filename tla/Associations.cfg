SPECIFICATION Spec
CONSTANTS
  a3 = a3
  e3 = e3
  Managers = {m1}
  Entities = {e1, e2, e3}
  Null = Null
  Attributes = {a1, a2, a3}
  MaxMade = 2
  Extensible <- MCExtensible
  Required <- MCRequired
  Limit <- MCLimit
  Fits <- MCFits
  Nil = Nil
  Foreign = FALSE
SYMMETRY MCSymmetry
INVARIANTS
  TypeOK
  LinksAgree
PROPERTIES
  NoSilentLoss
