SPECIFICATION Spec
CONSTANTS
  r1 = r1
  r2 = r2
  A = A
  B = B
  Managers = {m1, m2}
  Rsrcs = {r1, r2}
  Ids = {i1, i2, i3}
  Urls = {none, u1}
  NoUrl = none
  Types = {A, B}
  Names = {"A", "B"}
  TypeOf <- MCTypeOf
  Ancestors <- MCAncestors
  NameOf <- MCNameOf
  Clients = {c1, c2}
  MaxHandle = 1
  Nil = Nil
  AllowReparent = FALSE
SYMMETRY MCSymmetry
INVARIANTS
  TypeOK
  RegistryAgrees
  ObserversMirror
  HandleStaysMine
PROPERTIES
  ImplementsRegistry
