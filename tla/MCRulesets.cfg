SPECIFICATION Spec
CONSTANTS
  None = None
  x = x
  root = root
  addX = addX
  dropX = dropX
  forgetX = forgetX
  broken = broken
  Objects = {x}
  Bundles = {root, addX, dropX, broken}
  Loads <- MCLoads
  Fns <- MCFns
  Declares <- MCDeclares
  Drops <- MCDrops
  Adds <- MCAdds
  Root = root
  Paths = {p1}
  CandidateIds = {c1, c2}
  Requests = {r1, r2, r3}
  Tasks = {t1, t2}
  PoolSize = 5
SYMMETRY MCSymmetry
INVARIANTS
  TypeOK
  ConnsAccounted
  SomebodyProceeds
  PendingStillApplies
  DeletionsPending
