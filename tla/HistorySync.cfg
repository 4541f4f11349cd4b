SPECIFICATION Spec
CONSTANTS
  MaxDoc = 3
  Names = {"n", "m"}
  Heads <- TheHeads
  MaxRow = 2
  MaxEdits = 2
  LIST_PAGE_SIZE = 1
  LIST_PAGE_LIMIT = 3
INVARIANT ListedUnlessRemoved
PROPERTIES SyncSettles AppliesThePlan LocalKept
