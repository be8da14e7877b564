CONSTANTS
  t1 = t1
  t2 = t2
  t3 = t3
  Tasks = {t1, t2, t3}
  Batch = 1
  Limits = {1, 2}
  MaxActive = 2
  MaxPost = 1
  SlowSetup = FALSE
SPECIFICATION Spec
INVARIANT SeatsBounded
PROPERTIES LaunchHasRoom PendingIsTried
