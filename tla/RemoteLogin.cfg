SPECIFICATION FairSpec
CONSTANTS
  t1 = t1
  t2 = t2
  Tabs <- OneTab
  MaxRequests = 2
  MaxMishaps = 2
INVARIANTS
  StatusTruth
  NoTraces
PROPERTIES
  OncePerRequest
  TabsAreServed
