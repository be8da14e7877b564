CONSTANTS
  r1 = r1
  Roots = {r1}
SPECIFICATION Spec
PROPERTIES ZombieSweepSparesWork LeakKillSparesWork StoppedTaskDies TreeOfOldSessionKept
