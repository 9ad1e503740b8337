SPECIFICATION FairSpec
CONSTANTS
  face = face
  hidden = hidden
  model = model
  reader = reader
  all = all
  faces = faces
  models = models
  other = other
  Components = {face, hidden, model}
  Rows = {face, model}
  Readers = {reader}
  Filters = {all, faces, models, other}
  Everything = all
  Filter <- MCFilter
  Values = {1, 2}
  Picked = 1
  MaxHandle = 2
  MaxDepth = 4
INVARIANTS
  TypeOK
  ToldInTheEnd
  PanelMirrors
PROPERTIES
  OrderDoesNotMatter
  CallsReturn
