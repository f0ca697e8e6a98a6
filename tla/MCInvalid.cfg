SPECIFICATION MCSpec
CONSTANTS
  None = None
  x = x
  addX = addX
  dropX = dropX
  noTypes = noTypes
  noRun = noRun
  noSchema = noSchema
  Objects = {x}
  Bundles = {addX, dropX, noTypes, noRun, noSchema}
  Typechecks <- MCTypechecks
  Evaluates <- MCEvaluates
  SchemaRuns <- MCSchemaRuns
  Loads <- MCLoads
  Fns <- MCFns
  Declares <- MCDeclares
  Drops <- MCDrops
  Adds <- MCAdds
  p1 = p1
  p2 = p2
  Unset = Unset
  Other = Other
  Pgs = {p1, p2}
  Networked = {p2}
  Ports = {8001}
  Pids = {1, 2}
  MaxPolls = 2
INVARIANT
  ReportedIsInvalid
CHECK_DEADLOCK FALSE
