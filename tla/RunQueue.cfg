SPECIFICATION Spec
CONSTANTS
  r1 = r1
  r2 = r2
  r3 = r3
  p1 = p1
  p2 = p2
  w1 = w1
  w2 = w2
  v1 = v1
  v2 = v2
  Runs <- ThreeRuns
  Videos <- TwoVideos
  VideoOf <- Video3
  AutoSave <- Upload1
  Pages <- TwoPages
  Workers <- TwoWorkers
  NoRun = NoRun
INVARIANTS
  TypeOK
  OneWorker
  PauseHasWaiting
  NoLostWakeup
  RunningIsWorked
  OutcomeMatchesHistory
PROPERTY
  ServesInOrder
