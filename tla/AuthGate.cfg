SPECIFICATION GateSpec
CONSTANTS
  t1 = t1
  t2 = t2
  GateTabs <- TwoTabs
  NoTab = NoTab
  MaxAsks = 2
SYMMETRY Symmetry
INVARIANTS
  ChecksOnceUnasked
  VerdictOfLastCheck
  NewCredentialsCount
