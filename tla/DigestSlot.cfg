SPECIFICATION FairSpec
CONSTANTS
  d1 = d1
  d2 = d2
  d3 = d3
  t1 = t1
  t2 = t2
  Drafts <- TwoDrafts
  Tabs <- OneTab
  NoDraft = NoDraft
  MaxDocs = 2
INVARIANTS
  TypeOK
  SlotTracksBuilder
PROPERTIES
  DraftKept
  RunningEnds
