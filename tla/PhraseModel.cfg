SPECIFICATION Spec
CONSTANTS
  r1 = r1
  r2 = r2
  r3 = r3
  p1 = p1
  p2 = p2
  p3 = p3
  Managers = {m1}
  OperManagers = {x1, x2}
  Rsrcs = {r1, r2}
  Titles = {1, 2}
  Parts = {p1, p2, p3}
  Generated <- MCGenerated
  NewLists <- MCNewLists
  Root = Root
  Silent = {r2}
  NoPhrase = NoPhrase
  Views = {v1, v2}
  MaxHandle = 1
  MaxSources = 2
  Nil = Nil
  BuildInLoops = FALSE
SYMMETRY MCSymmetry
INVARIANTS
  TypeOK
  ViewsMirrorRows
  RowsAreResources
  ResourcesShown
  OrderlyUpdateDone
PROPERTIES
  RemovedDisappear
