SPECIFICATION Spec
CONSTANTS
  n1 = n1
  n2 = n2
  f1 = f1
  v1 = v1
  Names <- TwoNames
  Feeds <- OneFeed
  Uploads <- OneEach
  MaxCategory = 2
  MaxChannel = 1
  MaxRuns = 2
  NoRow = NoRow
  NoResult = NoResult
INVARIANTS
  TypeOK
  PendingNamed
  HistoryAsChosen
  DefaultsMeant
SYMMETRY Sym
