CONSTANTS
  Abs = 3
  Ceiling = 3
  Bases = {1, 3}
  Pins = {2}
  HoursPerDay = 2
  HourLength = 1
  Refresh = 1
  Window = 2
  StepUp = 1
  Cooldown = 3
  Stable = 3
SPECIFICATION Spec
PROPERTIES RaisesAfterCooldown QuietReachesCeiling PressureReachesFloor
