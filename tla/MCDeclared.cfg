SPECIFICATION Spec
CONSTANTS
  None = None
  x = x
  root = root
  addX = addX
  dropX = dropX
  forgetX = forgetX
  broken = broken
  Objects = {x}
  Bundles = {root, forgetX}
  Loads <- MCLoads
  Fns <- MCFns
  Declares <- MCDeclares
  Drops <- MCDrops
  Adds <- MCAdds
  Root = root
  Paths = {p1}
  CandidateIds = {c1}
  Requests = {r1}
  Tasks = {t1}
  PoolSize = 2
INVARIANTS
  RecordedSchemaIsLive
