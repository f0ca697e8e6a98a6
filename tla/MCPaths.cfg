SPECIFICATION Spec
CONSTANTS
  None = None
  x = x
  root = root
  addX = addX
  dropX = dropX
  forgetX = forgetX
  broken = broken
  Objects = {x}
  Bundles = {root, addX, dropX, forgetX, broken}
  Loads <- MCLoads
  Fns <- MCFns
  Declares <- MCDeclares
  Drops <- MCDrops
  Adds <- MCAdds
  Root = root
  Paths = {p1, p2}
  CandidateIds = {c1, c2}
  Requests = {r1, r2}
  Tasks = {t1}
  PoolSize = 4
SYMMETRY MCSymmetry
INVARIANTS
  InstalledIsLive
PROPERTIES
  RegistrySpec
