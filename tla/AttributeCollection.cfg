SPECIFICATION Spec
CONSTANTS
  d1 = d1
  d2 = d2
  d3 = d3
  d4 = d4
  A = A
  B = B
  C = C
  n1 = n1
  n2 = n2
  n3 = n3
  Defs = {d1, d2, d3, d4}
  Types = {A, B, C}
  DefType <- MCDefType
  Abstract = {d1}
  Atts = {a1, a2}
  Names = {n1, n2, n3}
  Series <- MCSeries
  Ids = {i1, i2}
  Nil = Nil
  Careful = TRUE
SYMMETRY MCSymmetry
INVARIANTS
  TypeOK
  IndicesAgree
  TreeClosed
  FindsExactly
