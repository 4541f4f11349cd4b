SPECIFICATION Spec
CONSTANTS
  Results = {"r1", "r2"}
  Scripts = {s1}
  Worker = worker
  s1 = s1
INVARIANTS TypeOK RestsUnlocked
PROPERTY WritesAreAtomic
