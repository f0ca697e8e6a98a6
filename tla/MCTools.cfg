SPECIFICATION MCSpec
CONSTANTS
  f1 = f1
  f2 = f2
  argA = argA
  argB = argB
  None = None
  Files = {f1, f2}
  Sources <- AllSources
  Urls = {u1, u2, u3}
  NoUrl = NoUrl
  MaxRequests = 4
INVARIANTS
  MCTypeOK
  NamesReachTheirPlaces
  NothingUnbound
  RefFollowsRequests
CHECK_DEADLOCK FALSE
