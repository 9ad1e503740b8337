SPECIFICATION LiveSpec
CONSTANTS
  o1 = o1
  A = A
  Managers = {m1}
  Ops = {o1}
  Types = {A}
  OpType <- MCOneOp
  Described = {A}
  Clients = {1, 2}
  OwnClients = {1}
  MaxHandle = 2
  MaxDepth = 2
  MaxLog = 3
  Nil = Nil
  LateRegistration = FALSE
  EarlyRelease = FALSE
INVARIANTS
  TypeOK
  WillDidPaired
  CancelHonoured
  ResultLogIsOwn
  OperationsComplete
PROPERTIES
  OperateReturns
