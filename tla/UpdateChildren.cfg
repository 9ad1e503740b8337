SPECIFICATION Spec
CONSTANTS
  r1 = r1
  r2 = r2
  r3 = r3
  p1 = p1
  p2 = p2
  p3 = p3
  Managers = {m1}
  OperManagers = {x1}
  Rsrcs = {r1}
  Titles = {1}
  Parts = {p1, p2, p3}
  Generated <- MCGenerated
  NewLists <- MCBothSides
  Root = Root
  Silent = {}
  NoPhrase = NoPhrase
  Views = {v1}
  MaxHandle = 0
  MaxSources = 1
  Nil = Nil
  BuildInLoops = FALSE

INVARIANTS
  UpdateDone
