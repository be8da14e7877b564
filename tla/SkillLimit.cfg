CONSTANTS
  Tasks <- MCTasks
  Cap <- MCCap
  Abs = 3
SPECIFICATION Spec
INVARIANT OverruledStaysOverruled
PROPERTIES GateWithinCaps FileFollows
