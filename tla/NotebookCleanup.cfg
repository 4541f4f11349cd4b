SPECIFICATION CleanupSpec
CONSTANTS
  r1 = r1
  r2 = r2
  d1 = d1
  p1 = p1
  w1 = w1
  t1 = t1
  c1 = c1
  v1 = v1
  v2 = v2
  Runs <- OneRun
  Videos <- TwoVideos
  VideoOf <- Alone
  AutoSave = {}
  Pages <- OnePage
  Workers <- OneWorker
  NoRun = NoRun
  Drafts <- OneDraft
  Tabs <- OneTab
  NoDraft = NoDraft
  MaxDocs = 1
  Cleaners <- OneCleaner
  Questions = 3
  Materials = 2
INVARIANT
  AnswersApart
PROPERTY
  CleanupSparesActive
