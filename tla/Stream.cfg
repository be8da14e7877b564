CONSTANTS
  c1 = c1
  c2 = c2
  Cards = {c1, c2}
  MaxChange = 2
  MaxLog = 3
  MaxDrop = 1
  AfterLimit = 2
SPECIFICATION Spec
INVARIANTS DrainedViewIsCurrent NoLineLost
PROPERTY PageCatchesUp
