SPECIFICATION Spec
CONSTANTS
  r1 = r1
  r2 = r2
  t1 = t1
  t2 = t2
  d1 = d1
  d2 = d2
  Runs <- TwoRuns
  AutoSave <- Upload1
  Tabs <- OneTab
  Worker = worker
  Docs <- TwoDocs
  MaxId = 2
  NoRun = NoRun
  NoDoc = NoDoc
INVARIANT
  SyncDeletesOnlyAbsent
