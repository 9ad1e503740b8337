SPECIFICATION ValueSpec
CONSTANTS
  a = a
  b = b
  plain = plain
  copy = copy
  discrete = discrete
  one = one
  two = two
  Attributes = {a, b}
  Items <- MCPool
  Null = Null
  Owner <- MCOwner
  Required <- MCRequired
  Fits <- MCFits
  MaxLen = 2
  Careless = FALSE
  ValueItems = {plain, copy, discrete}
  Holder <- MCHolder
  Pool <- MCPool
  Data = {one, two}
  None = None
  NotSet = NotSet
  Valid <- MCValid
  Discrete <- MCDiscrete
  Allows <- MCAllows
  Default <- MCDefault
  Extensible <- MCExtensible
  AtLeast <- MCAtLeast
  AtMost <- MCAtMost
INVARIANTS
  ValueTypeOK
  ExpressionsOwned
  ChildrenFollow
PROPERTY AnswersTrue
VIEW MCView
SYMMETRY MCSymmetry
