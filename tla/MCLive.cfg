SPECIFICATION FairSpec
CONSTANTS
  None = None
  x = x
  root = root
  addX = addX
  dropX = dropX
  forgetX = forgetX
  broken = broken
  Objects = {x}
  Bundles = {root, addX}
  Loads <- MCLoads
  Fns <- MCFns
  Declares <- MCDeclares
  Drops <- MCDrops
  Adds <- MCAdds
  Root = root
  Paths = {p1}
  CandidateIds = {c1, c2}
  Requests = {r1, r2}
  Tasks = {t1, t2}
  PoolSize = 3
PROPERTIES
  Served
