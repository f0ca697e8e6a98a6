SPECIFICATION MCSpec
CONSTANTS
  None = None
  tableX = tableX
  addX = addX
  dropX = dropX
  rootA = rootA
  rootB = rootB
  child = child
  Objects = {tableX}
  Bundles = {addX, dropX}
  Loads <- MCLoads
  Fns <- MCFns
  Declares <- MCDeclares
  Drops <- MCDrops
  Adds <- MCAdds
  Paths = {rootA, rootB, child}
  Parent <- MCParent
  Calls = {c1, c2, c3}
  r1 = r1
  r2 = r2
  NoOp = NoOp
  Server = Server
  Rulesets = {r1, r2}
  Ops = {"read", "apply", "create"}
  MaxQueued = 4
  NoParent = NoParent
  Names <- ShortNames
  MaxIdentifier = 7
  MaxRulesets = 4
SYMMETRY MCSymmetry
INVARIANTS
  MCTypeOK
  SchemaMatchesRow
  CatalogAsServer
  MigratesItsOwn
  NoOthersTransaction
  PathsSplit
  NamesFreeToChoose
  RolesOwn
PROPERTIES
  CreatedOnce
