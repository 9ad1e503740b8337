SPECIFICATION Spec
CONSTANTS
  m = m
  c1 = c1
  c2 = c2
  g = g
  n = n
  Entities = {m, c1, c2, g, n}
  Null = Null
  Type <- MCType
  Ways <- MCWays
  Raw <- MCRaw
  MaxRelations = 3
CHECK_DEADLOCK FALSE
INVARIANTS
  TypeOK
  DualsAgree
PROPERTIES
  ChangesAreLocal
